--------------------------- MODULE PacketsProofs ---------------------------
(***************************************************************************)
(* Proofs about Value and Packets.                                         *)
(***************************************************************************)
EXTENDS Packets, SequenceTheorems, WellFoundedInduction, TLAPS

-----------------------------------------------------------------------------
(* Induction.                                                              *)

\* A nonempty set of numbers has a least one.
LEMMA LeastNumber ==
    ASSUME NEW T \in SUBSET Nat, T # {}
    PROVE  \E m \in T : \A n \in T : m <= n
<1>1. IsWellFoundedOn(OpToRel(<, Nat), Nat)
  BY NatLessThanWellFounded
<1>2. PICK x \in T : \A y \in T : <<y, x>> \notin OpToRel(<, Nat)
  BY <1>1, WFMin
<1>3. \A y \in T : ~(y < x)
  <2> SUFFICES ASSUME NEW y \in T, y < x PROVE FALSE
    OBVIOUS
  <2>1. <<y, x>> \in OpToRel(<, Nat)
    BY DEF OpToRel
  <2> QED
    BY <1>2, <2>1
<1> QED
  BY <1>3

\* A set that holds 0, and with every number the next, holds every number.
LEMMA SetInduction ==
    ASSUME NEW S, 0 \in S, \A n \in Nat : n \in S => n + 1 \in S
    PROVE  Nat \subseteq S
<1> SUFFICES ASSUME NEW k \in Nat, k \notin S PROVE FALSE
  OBVIOUS
<1> DEFINE T == {n \in Nat : n \notin S}
<1>1. PICK m \in T : \A n \in T : m <= n
  BY LeastNumber, k \in T
<1>2. m \in Nat /\ m # 0
  OBVIOUS
<1>3. m - 1 \in Nat /\ m - 1 \in S
  BY <1>1, <1>2
<1>4. (m - 1) + 1 \in S
  BY <1>3
<1> QED
  BY <1>2, <1>4

-----------------------------------------------------------------------------
(* The layout of values.                                                   *)

\* How many bytes the sub-values of v take from the i-th on.
Left(v, i) == IF i > Len(v.subs) THEN 0 ELSE Size(v) - Offset(v, i)

\* What is assumed of a value, in the forms the proofs use.
LEMMA Layout ==
    ASSUME NEW v \in Values
    PROVE  /\ v = Node(v.key, v.content, v.subs)
           /\ v.key \in Seq(Nat) /\ v.content \in Seq(Nat) /\ v.subs \in Seq(Values)
           /\ Len(v.key) \in Nat /\ Len(v.content) \in Nat /\ Len(v.subs) \in Nat
           /\ DOMAIN v.subs = 1..Len(v.subs)
           /\ \A i \in 1..Len(v.subs) : v.subs[i] \in Values
           /\ \A i \in 1..Len(v.subs) + 1 : Offset(v, i) \in Nat
           /\ Offset(v, 1) = 3 * WordSize + Len(v.key) + Len(v.content)
           /\ \A i \in 1..Len(v.subs) : Offset(v, i + 1) = Offset(v, i) + Size(v.subs[i])
           /\ Size(v) \in Nat /\ Size(v) <= MaxSize
<1>1. /\ v = Node(v.key, v.content, v.subs)
      /\ v.key \in Seq(Nat) /\ v.content \in Seq(Nat) /\ v.subs \in Seq(Values)
  BY ValueAssumption
<1>2. /\ Len(v.key) \in Nat /\ Len(v.content) \in Nat /\ Len(v.subs) \in Nat
      /\ DOMAIN v.subs = 1..Len(v.subs)
  BY <1>1, LenProperties
<1>3. \A i \in 1..Len(v.subs) : v.subs[i] \in Values
  BY <1>1, ElementOfSeq
<1>4. \A i \in 1..Len(v.subs) + 1 : Offset(v, i) \in Nat
  BY ValueAssumption
<1>5. Size(v) \in Nat
  BY <1>2, <1>4 DEF Size
<1> QED
  BY <1>1, <1>2, <1>3, <1>4, <1>5, ValueAssumption

\* Sub-values lie one after the other, the last one at the end.
LEMMA OffsetsGrow ==
    ASSUME NEW v \in Values
    PROVE  \A i \in 1..Len(v.subs) + 1 : Offset(v, i) <= Size(v)
<1> DEFINE n == Len(v.subs)
           P(k) == k <= n => Offset(v, n + 1 - k) <= Size(v)
           S == {k \in Nat : P(k)}
<1>1. n \in Nat /\ Offset(v, n + 1) = Size(v) /\ Size(v) \in Nat
  BY Layout DEF Size
<1>2. /\ \A i \in 1..n + 1 : Offset(v, i) \in Nat
      /\ \A i \in 1..n : /\ Offset(v, i + 1) = Offset(v, i) + Size(v.subs[i])
                         /\ Size(v.subs[i]) \in Nat
  BY Layout
<1> HIDE DEF n
<1>3. P(0)
  BY <1>1
<1>4. \A k \in Nat : P(k) => P(k + 1)
  <2> SUFFICES ASSUME NEW k \in Nat, P(k), k + 1 <= n PROVE Offset(v, n - k) <= Size(v)
    BY <1>1
  <2>1. n - k \in 1..n /\ n + 1 - k = (n - k) + 1 /\ k <= n
    BY <1>1
  <2>2. Offset(v, (n - k) + 1) <= Size(v)
    BY <2>1
  <2>3. /\ Offset(v, (n - k) + 1) = Offset(v, n - k) + Size(v.subs[n - k])
        /\ Size(v.subs[n - k]) \in Nat /\ Offset(v, n - k) \in Nat
    BY <1>1, <1>2, <2>1
  <2> QED
    BY <1>1, <2>2, <2>3
<1> HIDE DEF P
<1>5. 0 \in S /\ \A k \in Nat : k \in S => k + 1 \in S
  BY <1>3, <1>4
<1>6. \A k \in Nat : P(k)
  <2>1. Nat \subseteq S
    <3> HIDE DEF S
    <3> QED
      BY <1>5, SetInduction
  <2> QED
    BY <2>1
<1> SUFFICES ASSUME NEW i \in 1..n + 1 PROVE Offset(v, i) <= Size(v)
  BY DEF n
<1>7. n + 1 - i \in Nat /\ n + 1 - i <= n /\ n + 1 - (n + 1 - i) = i
  BY <1>1
<1> QED
  BY <1>6, <1>7 DEF P

\* The bytes left after each step of a traversal: fewer, and never less than none.
LEMMA LeftStep ==
    ASSUME NEW v \in Values, NEW i \in 1..Len(v.subs), NEW s, s = v.subs[i]
    PROVE  /\ s \in Values
           /\ Left(v, i) \in Nat /\ Left(v, i + 1) \in Nat /\ Left(s, 1) \in Nat
           /\ Offset(s, 1) \in Nat /\ Offset(s, 1) > 0
           /\ Size(s) = Offset(s, 1) + Left(s, 1)
           /\ Left(v, i) = Size(s) + Left(v, i + 1)
<1>1. s \in Values /\ Len(v.subs) \in Nat /\ i \in 1..Len(v.subs) + 1 /\ i + 1 \in 1..Len(v.subs) + 1
  BY Layout
<1>2. /\ Offset(v, i) \in Nat /\ Offset(v, i + 1) \in Nat /\ Size(v) \in Nat
      /\ Offset(v, i + 1) = Offset(v, i) + Size(s)
  BY <1>1, Layout
<1>3. Offset(v, i) <= Size(v) /\ Offset(v, i + 1) <= Size(v)
  BY <1>1, OffsetsGrow
<1>4. Left(v, i + 1) = Size(v) - Offset(v, i + 1)
  <2>1. CASE i = Len(v.subs)
    BY <1>1, <1>2, <2>1 DEF Left, Size
  <2>2. CASE i # Len(v.subs)
    BY <1>1, <2>2 DEF Left
  <2> QED
    BY <2>1, <2>2
<1>5. Len(s.subs) \in Nat /\ 1 \in 1..Len(s.subs) + 1 /\ Size(s) \in Nat
  <2>1. Len(s.subs) \in Nat /\ Size(s) \in Nat
    BY <1>1, Layout
  <2> QED
    BY <2>1
<1>6. Offset(s, 1) \in Nat /\ Offset(s, 1) <= Size(s)
  BY <1>1, <1>5, Layout, OffsetsGrow
<1>7. Left(s, 1) = Size(s) - Offset(s, 1)
  BY <1>5, <1>6 DEF Left, Size
<1>8. Offset(s, 1) > 0
  <2>1. /\ Offset(s, 1) = 3 * WordSize + Len(s.key) + Len(s.content)
        /\ Len(s.key) \in Nat /\ Len(s.content) \in Nat
    BY <1>1, Layout
  <2>2. 3 * WordSize \in Nat /\ 3 * WordSize > 0
    BY ValueAssumption
  <2> QED
    BY <2>1, <2>2
<1>9. Left(v, i) = Size(v) - Offset(v, i)
  BY <1>1 DEF Left
<1>10. Left(v, i) \in Nat /\ Left(v, i + 1) \in Nat /\ Left(s, 1) \in Nat
  BY <1>2, <1>3, <1>4, <1>5, <1>6, <1>7, <1>9
<1>11. Size(s) = Offset(s, 1) + Left(s, 1)
  BY <1>5, <1>6, <1>7
<1>12. Left(v, i) = Size(s) + Left(v, i + 1)
  BY <1>2, <1>3, <1>4, <1>5, <1>9
<1> QED
  BY <1>1, <1>6, <1>8, <1>10, <1>11, <1>12

\* Two sequences of numbers, one after the other.
LEMMA Joined ==
    ASSUME NEW x \in Seq(Nat), NEW y \in Seq(Nat)
    PROVE  /\ x \o y \in Seq(Nat)
           /\ Len(x) \in Nat /\ Len(y) \in Nat /\ Len(x \o y) = Len(x) + Len(y)
           /\ \A k \in 1..Len(x) : (x \o y)[k] = x[k]
           /\ \A k \in 1..Len(y) : (x \o y)[Len(x) + k] = y[k]
<1>1. x \o y \in Seq(Nat) /\ Len(x \o y) = Len(x) + Len(y) /\ Len(x) \in Nat /\ Len(y) \in Nat
  BY ConcatProperties, LenProperties
<1>2. \A k \in 1..Len(x) + Len(y) : (x \o y)[k] = IF k <= Len(x) THEN x[k] ELSE y[k - Len(x)]
  BY ConcatProperties
<1>3. ASSUME NEW k \in 1..Len(x) PROVE (x \o y)[k] = x[k]
  BY <1>1, <1>2
<1>4. ASSUME NEW k \in 1..Len(y) PROVE (x \o y)[Len(x) + k] = y[k]
  <2>1. /\ Len(x) + k \in 1..Len(x) + Len(y) /\ ~(Len(x) + k <= Len(x))
        /\ (Len(x) + k) - Len(x) = k
    BY <1>1
  <2> QED
    BY <1>2, <2>1
<1> QED
  BY <1>1, <1>3, <1>4

\* A word has its size, and its first byte is its value.
LEMMA Words ==
    ASSUME NEW n \in Nat
    PROVE  Word(n) \in Seq(Nat) /\ Len(Word(n)) = WordSize /\ Word(n)[1] = n
<1>1. WordSize \in Nat /\ 1 \in 1..WordSize
  BY ValueAssumption
<1> QED
  BY <1>1 DEF Word

\* The words and strings before the sub-values take the bytes they should.
LEMMA HeaderSize ==
    ASSUME NEW v \in Values
    PROVE  Header(v) \in Seq(Nat) /\ Len(Header(v)) = Offset(v, 1) /\ Offset(v, 1) \in Nat
<1>1. /\ Len(v.key) \in Nat /\ Len(v.content) \in Nat /\ Len(v.subs) \in Nat
      /\ v.key \in Seq(Nat) /\ v.content \in Seq(Nat) /\ WordSize \in Nat
  BY Layout, ValueAssumption
<1> DEFINE a == Word(Len(v.key))
           b == Word(Len(v.content))
           c == Word(Len(v.subs))
           x == a \o v.key
           y == x \o b
           z == y \o v.content
<1>2. /\ a \in Seq(Nat) /\ b \in Seq(Nat) /\ c \in Seq(Nat)
      /\ Len(a) = WordSize /\ Len(b) = WordSize /\ Len(c) = WordSize
  BY <1>1, Words
<1>3. Header(v) = z \o c
  BY DEF Header
<1> HIDE DEF a, b, c
<1>4. x \in Seq(Nat) /\ Len(x) = Len(a) + Len(v.key)
  BY <1>1, <1>2, Joined
<1> HIDE DEF x
<1>5. y \in Seq(Nat) /\ Len(y) = Len(x) + Len(b)
  BY <1>2, <1>4, Joined
<1> HIDE DEF y
<1>6. z \in Seq(Nat) /\ Len(z) = Len(y) + Len(v.content)
  BY <1>1, <1>5, Joined
<1> HIDE DEF z
<1>7. Header(v) \in Seq(Nat) /\ Len(Header(v)) = Len(z) + Len(c)
  <2>1. z \o c \in Seq(Nat) /\ Len(z \o c) = Len(z) + Len(c)
    BY <1>2, <1>6, Joined
  <2> QED
    BY <1>3, <2>1
<1>8. Len(Header(v)) = WordSize + Len(v.key) + WordSize + Len(v.content) + WordSize
  BY <1>2, <1>4, <1>5, <1>6, <1>7
<1>9. \A m, k, l \in Nat : 3 * m + k + l = m + k + m + l + m
  OBVIOUS
<1>10. Len(Header(v)) = Offset(v, 1)
  BY <1>1, <1>8, <1>9, Layout
<1>11. Len(Header(v)) \in Nat
  BY <1>7, LenProperties
<1> QED
  BY <1>7, <1>10, <1>11

-----------------------------------------------------------------------------
(* The equation of subsBytes has a solution, so the function it is chosen  *)
(* to be satisfies it.                                                     *)

\* The arguments of subsBytes.
Buffers == Values \X (Nat \ {0}) \X Int

\* How many bytes there are to write at these arguments.
LeftAt(p) == Left(p[1], p[2])

\* The right-hand side of the equation.
SubsBody(f, p) == IF p[2] > Len(p[1].subs) THEN <<>> ELSE AddSub(f, p[1], p[2], p[3])

\* Sequences of numbers, and the sequence serialize() gives up with.
LEMMA SeqFacts == /\ TooSmall \in Seq(Int) /\ <<>> \in Seq(Int) /\ <<>> \in Seq(Nat)
                  /\ \A x \in Seq(Nat) : x \in Seq(Int) /\ x # TooSmall
<1>1. TooSmall \in Seq(Int) /\ <<>> \in Seq(Int) /\ <<>> \in Seq(Nat)
  BY DEF TooSmall
<1>2. ASSUME NEW x \in Seq(Nat) PROVE x \in Seq(Int)
  <2>1. Nat \subseteq Int
    OBVIOUS
  <2> QED
    BY <2>1, SeqMonotonic
<1>3. ASSUME NEW x \in Seq(Nat), x = TooSmall PROVE FALSE
  <2>1. Len(TooSmall) = 1 /\ TooSmall[1] = -1
    BY DEF TooSmall
  <2>2. x[1] \in Nat
    BY <1>3, <2>1, ElementOfSeq
  <2> QED
    BY <1>3, <2>1, <2>2
<1> QED
  BY <1>1, <1>2, <1>3

\* No buffer has more to write than the greatest value.
LEMMA LeftNumber == \A p \in Buffers : LeftAt(p) \in Nat /\ LeftAt(p) <= MaxSize
<1> SUFFICES ASSUME NEW v \in Values, NEW i \in Nat \ {0}
             PROVE  Left(v, i) \in Nat /\ Left(v, i) <= MaxSize
  BY DEF Buffers, LeftAt
<1>1. Len(v.subs) \in Nat /\ Size(v) \in Nat /\ Size(v) <= MaxSize /\ MaxSize \in Nat
  BY Layout, ValueAssumption
<1>2. CASE i > Len(v.subs)
  BY <1>1, <1>2 DEF Left
<1>3. CASE ~(i > Len(v.subs))
  <2>1. i \in 1..Len(v.subs) + 1
    BY <1>1, <1>3
  <2>2. Offset(v, i) \in Nat /\ Offset(v, i) <= Size(v)
    BY <2>1, Layout, OffsetsGrow
  <2>3. Left(v, i) = Size(v) - Offset(v, i)
    BY <1>3 DEF Left
  <2> QED
    BY <1>1, <2>2, <2>3
<1> QED
  BY <1>2, <1>3

\* One turn of the loop over sub-values asks only for buffers with less to write.
LEMMA TurnOfLoop ==
    ASSUME NEW f \in [Buffers -> Seq(Int)], NEW v \in Values, NEW i \in 1..Len(v.subs), NEW room \in Int
    PROVE  LET s == v.subs[i]
               first == WithSubs(f, s, room)
           IN  /\ <<s, 1, room - Len(Header(s))>> \in Buffers
               /\ first \in Seq(Int)
               /\ <<v, i + 1, room - Len(first)>> \in Buffers
               /\ AddSub(f, v, i, room) \in Seq(Int)
               /\ Left(s, 1) < Left(v, i) /\ Left(v, i + 1) < Left(v, i)
<1> DEFINE s == v.subs[i]
           first == WithSubs(f, s, room)
           p1 == <<s, 1, room - Len(Header(s))>>
           p2 == <<v, i + 1, room - Len(first)>>
<1>1. /\ s \in Values /\ Left(s, 1) < Left(v, i) /\ Left(v, i + 1) < Left(v, i)
  <2> HIDE DEF s
  <2>1. /\ s \in Values /\ Left(v, i) \in Nat /\ Left(v, i + 1) \in Nat /\ Left(s, 1) \in Nat
        /\ Offset(s, 1) \in Nat /\ Offset(s, 1) > 0 /\ Size(s) = Offset(s, 1) + Left(s, 1)
        /\ Left(v, i) = Size(s) + Left(v, i + 1)
    BY LeftStep DEF s
  <2> QED
    BY <2>1
<1> HIDE DEF s
<1>2. Header(s) \in Seq(Int) /\ Len(Header(s)) \in Nat /\ i \in Nat /\ i # 0
  <2>1. Header(s) \in Seq(Int) /\ Len(Header(s)) \in Nat
    BY <1>1, HeaderSize, SeqFacts
  <2>2. Len(v.subs) \in Nat
    BY Layout
  <2> QED
    BY <2>1, <2>2
<1>3. p1 \in Buffers
  BY <1>1, <1>2 DEF Buffers
<1>4. f[p1] \in Seq(Int)
  BY <1>3
<1>5. first = IF Len(Header(s)) > room \/ f[p1] = TooSmall THEN TooSmall ELSE Header(s) \o f[p1]
  BY DEF WithSubs
<1>6. first \in Seq(Int)
  <2> HIDE DEF first, p1
  <2>1. Header(s) \o f[p1] \in Seq(Int)
    BY <1>2, <1>4, ConcatProperties
  <2> QED
    BY <1>5, <2>1, SeqFacts
<1>7. p2 \in Buffers
  <2>1. Len(first) \in Nat
    BY <1>6, LenProperties
  <2> HIDE DEF first
  <2> QED
    BY <1>2, <2>1 DEF Buffers
<1>8. f[p2] \in Seq(Int)
  BY <1>7
<1>9. AddSub(f, v, i, room) = IF first = TooSmall \/ f[p2] = TooSmall THEN TooSmall ELSE first \o f[p2]
  BY DEF AddSub, s
<1>10. AddSub(f, v, i, room) \in Seq(Int)
  <2> HIDE DEF first, p2
  <2>1. first \o f[p2] \in Seq(Int)
    BY <1>6, <1>8, ConcatProperties
  <2> QED
    BY <1>9, <2>1, SeqFacts
<1> HIDE DEF first, p1, p2
<1> QED
  BY <1>1, <1>3, <1>6, <1>7, <1>10 DEF s, first, p1, p2

\* What a turn gives depends on the smaller buffers only.
LEMMA SubsBodyAgrees ==
    ASSUME NEW f \in [Buffers -> Seq(Int)], NEW g \in [Buffers -> Seq(Int)], NEW p \in Buffers,
           \A q \in Buffers : LeftAt(q) < LeftAt(p) => f[q] = g[q]
    PROVE  SubsBody(f, p) \in Seq(Int) /\ SubsBody(f, p) = SubsBody(g, p)
<1>1. PICK v \in Values, i \in Nat \ {0}, room \in Int : p = <<v, i, room>>
  BY DEF Buffers
<1>2. Len(v.subs) \in Nat
  BY Layout
<1>3. CASE i > Len(v.subs)
  BY <1>1, <1>3, SeqFacts DEF SubsBody
<1>4. CASE ~(i > Len(v.subs))
  <2>1. i \in 1..Len(v.subs)
    BY <1>2, <1>4
  <2>2. SubsBody(f, p) = AddSub(f, v, i, room) /\ SubsBody(g, p) = AddSub(g, v, i, room)
    BY <1>1, <1>4 DEF SubsBody
  <2> DEFINE s == v.subs[i]
             p1 == <<s, 1, room - Len(Header(s))>>
             first == WithSubs(f, s, room)
             p2 == <<v, i + 1, room - Len(first)>>
  <2>3. /\ p1 \in Buffers /\ p2 \in Buffers
        /\ AddSub(f, v, i, room) \in Seq(Int)
        /\ Left(s, 1) < Left(v, i) /\ Left(v, i + 1) < Left(v, i)
    BY <2>1, TurnOfLoop
  <2>4. f[p1] = g[p1]
    <3>1. LeftAt(p1) = Left(s, 1) /\ LeftAt(p) = Left(v, i)
      BY <1>1 DEF LeftAt
    <3> HIDE DEF p1
    <3> QED
      BY <2>3, <3>1
  <2>5. WithSubs(g, s, room) = first
    BY <2>4 DEF WithSubs
  <2>6. f[p2] = g[p2]
    <3>1. LeftAt(p2) = Left(v, i + 1) /\ LeftAt(p) = Left(v, i)
      BY <1>1 DEF LeftAt
    <3> HIDE DEF p2
    <3> QED
      BY <2>3, <3>1
  <2>7. AddSub(f, v, i, room) = AddSub(g, v, i, room)
    <3>1. AddSub(f, v, i, room) = IF first = TooSmall \/ f[p2] = TooSmall THEN TooSmall
                                  ELSE first \o f[p2]
      BY DEF AddSub
    <3>2. AddSub(g, v, i, room) = IF first = TooSmall \/ g[p2] = TooSmall THEN TooSmall
                                  ELSE first \o g[p2]
      BY <2>5 DEF AddSub
    <3> HIDE DEF first, p2
    <3> QED
      BY <2>6, <3>1, <3>2
  <2> QED
    BY <2>2, <2>3, <2>7
<1> QED
  BY <1>3, <1>4

\* Buffers with less than j bytes to write can all be filled by one function.
LEMMA SubsBytesExist ==
    \A j \in Nat : \E g \in [Buffers -> Seq(Int)] :
        \A p \in Buffers : LeftAt(p) < j => g[p] = SubsBody(g, p)
<1> DEFINE Good(g, j) == \A p \in Buffers : LeftAt(p) < j => g[p] = SubsBody(g, p)
           P(j) == \E g \in [Buffers -> Seq(Int)] : Good(g, j)
           S == {j \in Nat : P(j)}
<1>1. P(0)
  <2> DEFINE g == [p \in Buffers |-> <<>>]
  <2>1. g \in [Buffers -> Seq(Int)]
    BY SeqFacts
  <2>2. \A p \in Buffers : LeftAt(p) \in Nat
    BY LeftNumber
  <2>3. Good(g, 0)
    BY <2>2
  <2> QED
    BY <2>1, <2>3
<1>2. ASSUME NEW j \in Nat, P(j) PROVE P(j + 1)
  <2>1. PICK g \in [Buffers -> Seq(Int)] : Good(g, j)
    BY <1>2
  <2> DEFINE h == [p \in Buffers |-> SubsBody(g, p)]
  <2>2. \A p \in Buffers : SubsBody(g, p) \in Seq(Int)
    BY SubsBodyAgrees
  <2>3. h \in [Buffers -> Seq(Int)]
    BY <2>2
  <2>4. ASSUME NEW p \in Buffers, LeftAt(p) < j + 1 PROVE h[p] = SubsBody(h, p)
    <3>1. h[p] = SubsBody(g, p)
      OBVIOUS
    <3>2. ASSUME NEW q \in Buffers, LeftAt(q) < LeftAt(p) PROVE g[q] = h[q]
      <4>1. LeftAt(p) \in Nat /\ LeftAt(q) \in Nat
        BY LeftNumber
      <4>2. LeftAt(q) < j
        BY <2>4, <3>2, <4>1
      <4> QED
        BY <2>1, <4>2
    <3> HIDE DEF h
    <3>3. SubsBody(g, p) = SubsBody(h, p)
      BY <2>3, <3>2, SubsBodyAgrees
    <3> QED
      BY <3>1, <3>3
  <2>5. Good(h, j + 1)
    BY <2>4
  <2> HIDE DEF Good, h
  <2> QED
    BY <2>3, <2>5
<1> HIDE DEF P
<1>3. 0 \in S /\ \A j \in Nat : j \in S => j + 1 \in S
  BY <1>1, <1>2
<1>4. Nat \subseteq S
  <2> HIDE DEF S
  <2> QED
    BY <1>3, SetInduction
<1> QED
  BY <1>4 DEF P

\* subsBytes is what its definition says.
LEMMA SubsBytesDef ==
    /\ DOMAIN subsBytes = Buffers
    /\ \A p \in Buffers : subsBytes[p] = SubsBody(subsBytes, p)
<1>1. MaxSize + 1 \in Nat
  BY ValueAssumption
<1>2. PICK g \in [Buffers -> Seq(Int)] :
         \A p \in Buffers : LeftAt(p) < MaxSize + 1 => g[p] = SubsBody(g, p)
  BY <1>1, SubsBytesExist
<1>3. \A p \in Buffers : g[p] = SubsBody(g, p)
  BY <1>2, LeftNumber, ValueAssumption
<1>4. g = [p \in Buffers |-> SubsBody(g, p)]
  BY <1>3
<1>5. subsBytes = CHOOSE f : f = [p \in Buffers |-> SubsBody(f, p)]
  BY DEF subsBytes, SubsBody, Buffers
<1>6. subsBytes = [p \in Buffers |-> SubsBody(subsBytes, p)]
  BY <1>4, <1>5
<1> QED
  BY <1>6

-----------------------------------------------------------------------------
(* What serialize() writes.                                                *)

\* The bytes of v's sub-values from the i-th on, given enough room.
Below(v, i) == subsBytes[<<v, i, MaxSize>>]

\* The bytes of v.
Bytes(v) == Header(v) \o Below(v, 1)

\* From the i-th sub-value on, the bytes are the same in every buffer that has room for
\* them, and every other is too small.
FillsRoom(v, i) ==
    /\ Below(v, i) \in Seq(Nat) /\ Len(Below(v, i)) = Left(v, i)
    /\ \A room \in Nat :
          subsBytes[<<v, i, room>>] = IF Left(v, i) <= room THEN Below(v, i) ELSE TooSmall

\* A value fills its room when its sub-values do.
LEMMA ValueFillsRoom ==
    ASSUME NEW v \in Values, FillsRoom(v, 1)
    PROVE  /\ Bytes(v) \in Seq(Nat) /\ Len(Bytes(v)) = Size(v)
           /\ \A length \in Nat :
                 serialize(v, length) = IF Size(v) <= length THEN Bytes(v) ELSE TooSmall
<1>1. Header(v) \in Seq(Nat) /\ Len(Header(v)) = Offset(v, 1) /\ Offset(v, 1) \in Nat
  BY HeaderSize
<1>2. Below(v, 1) \in Seq(Nat) /\ Len(Below(v, 1)) = Left(v, 1)
  BY DEF FillsRoom
<1>3. Left(v, 1) \in Nat
  BY <1>2, LenProperties
<1>4. Size(v) = Offset(v, 1) + Left(v, 1)
  <2>1. Size(v) \in Nat /\ Len(v.subs) \in Nat
    BY Layout
  <2> QED
    BY <1>1, <2>1 DEF Left, Size
<1>5. Bytes(v) \in Seq(Nat) /\ Len(Bytes(v)) = Len(Header(v)) + Len(Below(v, 1))
  BY <1>1, <1>2, Joined DEF Bytes
<1>6. Len(Bytes(v)) = Size(v)
  BY <1>1, <1>2, <1>4, <1>5
<1>7. ASSUME NEW length \in Nat
      PROVE  serialize(v, length) = IF Size(v) <= length THEN Bytes(v) ELSE TooSmall
  <2> DEFINE below == subsBytes[<<v, 1, length - Len(Header(v))>>]
  <2>1. serialize(v, length) = IF Len(Header(v)) > length \/ below = TooSmall THEN TooSmall
                               ELSE Header(v) \o below
    BY DEF serialize, WithSubs
  <2>2. CASE Len(Header(v)) > length
    <3>1. ~(Size(v) <= length)
      BY <1>1, <1>3, <1>4, <2>2
    <3> QED
      BY <2>1, <2>2, <3>1
  <2>3. CASE ~(Len(Header(v)) > length)
    <3>1. length - Len(Header(v)) \in Nat
      BY <1>1, <2>3
    <3>2. below = IF Left(v, 1) <= length - Len(Header(v)) THEN Below(v, 1) ELSE TooSmall
      BY <3>1 DEF FillsRoom
    <3>3. Left(v, 1) <= length - Len(Header(v)) <=> Size(v) <= length
      BY <1>1, <1>3, <1>4
    <3>4. Below(v, 1) # TooSmall
      BY <1>2, SeqFacts
    <3> HIDE DEF below
    <3> QED
      BY <2>1, <2>3, <3>2, <3>3, <3>4 DEF Bytes
  <2> QED
    BY <2>2, <2>3
<1> QED
  BY <1>5, <1>6, <1>7

\* The bytes from the i-th sub-value on are its own, then those from the next on.
LEMMA RoomStep ==
    ASSUME NEW v \in Values, NEW i \in 1..Len(v.subs),
           FillsRoom(v.subs[i], 1), FillsRoom(v, i + 1)
    PROVE  FillsRoom(v, i) /\ Below(v, i) = Bytes(v.subs[i]) \o Below(v, i + 1)
<1> DEFINE s == v.subs[i]
<1>1. /\ s \in Values /\ Left(v, i) \in Nat /\ Left(v, i + 1) \in Nat
      /\ Left(v, i) = Size(s) + Left(v, i + 1)
  BY LeftStep
<1>2. FillsRoom(s, 1)
  OBVIOUS
<1>3. Len(v.subs) \in Nat /\ i \in Nat \ {0} /\ ~(i > Len(v.subs)) /\ MaxSize \in Nat
  <2>1. Len(v.subs) \in Nat
    BY Layout
  <2> QED
    BY <2>1, ValueAssumption
<1>4. \A room \in Nat : subsBytes[<<v, i, room>>] = AddSub(subsBytes, v, i, room)
  <2> SUFFICES ASSUME NEW room \in Nat
               PROVE  subsBytes[<<v, i, room>>] = AddSub(subsBytes, v, i, room)
    OBVIOUS
  <2>1. <<v, i, room>> \in Buffers
    BY <1>3 DEF Buffers
  <2> QED
    BY <1>3, <2>1, SubsBytesDef DEF SubsBody
<1> HIDE DEF s
<1>5. Size(s) \in Nat /\ Bytes(s) \in Seq(Nat) /\ Len(Bytes(s)) = Size(s) /\ Bytes(s) # TooSmall
  BY <1>1, <1>2, ValueFillsRoom, SeqFacts, Layout
<1>6. /\ Below(v, i + 1) \in Seq(Nat) /\ Len(Below(v, i + 1)) = Left(v, i + 1)
      /\ Below(v, i + 1) # TooSmall
  BY SeqFacts DEF FillsRoom
<1> DEFINE whole == Bytes(s) \o Below(v, i + 1)
<1>7. ASSUME NEW room \in Nat
      PROVE  subsBytes[<<v, i, room>>] = IF Left(v, i) <= room THEN whole ELSE TooSmall
  <2> DEFINE first == serialize(s, room)
             rest == subsBytes[<<v, i + 1, room - Len(first)>>]
  <2>1. subsBytes[<<v, i, room>>] = IF first = TooSmall \/ rest = TooSmall THEN TooSmall
                                    ELSE first \o rest
    BY <1>4 DEF AddSub, serialize, s
  <2>2. first = IF Size(s) <= room THEN Bytes(s) ELSE TooSmall
    BY <1>1, <1>2, ValueFillsRoom
  <2>3. CASE ~(Size(s) <= room)
    <3>1. ~(Left(v, i) <= room)
      BY <1>1, <1>5, <2>3
    <3> QED
      BY <2>1, <2>2, <2>3, <3>1
  <2>4. CASE Size(s) <= room
    <3>1. first = Bytes(s)
      BY <2>2, <2>4
    <3>2. rest = subsBytes[<<v, i + 1, room - Size(s)>>]
      BY <1>5, <3>1
    <3>3. room - Size(s) \in Nat
      BY <1>5, <2>4
    <3>4. rest = IF Left(v, i + 1) <= room - Size(s) THEN Below(v, i + 1) ELSE TooSmall
      BY <3>2, <3>3 DEF FillsRoom
    <3>5. Left(v, i + 1) <= room - Size(s) <=> Left(v, i) <= room
      BY <1>1, <1>5
    <3> HIDE DEF first, rest
    <3> QED
      BY <1>5, <1>6, <2>1, <3>1, <3>4, <3>5
  <2> QED
    BY <2>3, <2>4
<1>8. Below(v, i) = whole
  <2>1. Left(v, i) <= MaxSize
    <3>1. <<v, i, MaxSize>> \in Buffers /\ LeftAt(<<v, i, MaxSize>>) = Left(v, i)
      BY <1>3 DEF Buffers, LeftAt
    <3> QED
      BY <3>1, LeftNumber
  <2> QED
    BY <1>3, <1>7, <2>1 DEF Below
<1>9. whole \in Seq(Nat) /\ Len(whole) = Left(v, i)
  <2>1. whole \in Seq(Nat) /\ Len(whole) = Len(Bytes(s)) + Len(Below(v, i + 1))
    BY <1>5, <1>6, Joined
  <2> HIDE DEF whole
  <2> QED
    BY <1>1, <1>5, <1>6, <2>1
<1> HIDE DEF whole
<1>10. FillsRoom(v, i)
  BY <1>7, <1>8, <1>9 DEF FillsRoom
<1> QED
  BY <1>8, <1>10 DEF whole, s

\* So it is from every sub-value on.
LEMMA AllFillRoom == \A v \in Values : \A i \in 1..Len(v.subs) + 1 : FillsRoom(v, i)
<1> DEFINE P(n) == \A v \in Values : \A i \in 1..Len(v.subs) + 1 : Left(v, i) = n => FillsRoom(v, i)
           T == {n \in Nat : ~P(n)}
<1>1. ASSUME NEW v \in Values, NEW i \in 1..Len(v.subs) + 1 PROVE Left(v, i) \in Nat
  <2>1. Len(v.subs) \in Nat
    BY Layout
  <2>2. <<v, i, 0>> \in Buffers /\ LeftAt(<<v, i, 0>>) = Left(v, i)
    BY <2>1 DEF Buffers, LeftAt
  <2> QED
    BY <2>2, LeftNumber
<1>2. ASSUME NEW n \in Nat, \A m \in Nat : m < n => P(m) PROVE P(n)
  <2> SUFFICES ASSUME NEW v \in Values, NEW i \in 1..Len(v.subs) + 1, Left(v, i) = n
               PROVE  FillsRoom(v, i)
    OBVIOUS
  <2>1. Len(v.subs) \in Nat
    BY Layout
  <2>2. CASE i = Len(v.subs) + 1
    <3>1. \A room \in Int : subsBytes[<<v, i, room>>] = <<>>
      <4> SUFFICES ASSUME NEW room \in Int PROVE subsBytes[<<v, i, room>>] = <<>>
        OBVIOUS
      <4>1. <<v, i, room>> \in Buffers /\ i > Len(v.subs)
        BY <2>1, <2>2 DEF Buffers
      <4> QED
        BY <4>1, SubsBytesDef DEF SubsBody
    <3>2. Left(v, i) = 0
      BY <2>1, <2>2 DEF Left
    <3>3. Below(v, i) = <<>>
      BY <3>1, ValueAssumption DEF Below
    <3>4. <<>> \in Seq(Nat) /\ Len(<<>>) = 0
      BY SeqFacts
    <3>5. \A room \in Nat : subsBytes[<<v, i, room>>] = <<>> /\ 0 <= room
      BY <3>1
    <3> QED
      BY <3>2, <3>3, <3>4, <3>5 DEF FillsRoom
  <2>3. CASE i # Len(v.subs) + 1
    <3>1. i \in 1..Len(v.subs)
      BY <2>1, <2>3
    <3> DEFINE s == v.subs[i]
    <3>2. /\ s \in Values /\ Left(v, i + 1) \in Nat /\ Left(s, 1) \in Nat
          /\ Left(s, 1) < n /\ Left(v, i + 1) < n
      <4> HIDE DEF s
      <4>1. /\ s \in Values /\ Left(v, i) \in Nat /\ Left(v, i + 1) \in Nat /\ Left(s, 1) \in Nat
            /\ Offset(s, 1) \in Nat /\ Offset(s, 1) > 0 /\ Size(s) = Offset(s, 1) + Left(s, 1)
            /\ Left(v, i) = Size(s) + Left(v, i + 1)
        BY <3>1, LeftStep DEF s
      <4> QED
        BY <4>1
    <3>3. 1 \in 1..Len(s.subs) + 1 /\ i + 1 \in 1..Len(v.subs) + 1
      <4>1. Len(s.subs) \in Nat
        BY <3>2, Layout
      <4> QED
        BY <2>1, <3>1, <4>1
    <3>4. FillsRoom(s, 1) /\ FillsRoom(v, i + 1)
      <4>1. P(Left(s, 1)) /\ P(Left(v, i + 1))
        BY <1>2, <3>2
      <4> HIDE DEF s
      <4> QED
        BY <3>2, <3>3, <4>1
    <3> QED
      BY <3>1, <3>4, RoomStep
  <2> QED
    BY <2>2, <2>3
<1> HIDE DEF P
<1>3. T = {}
  <2> SUFFICES ASSUME T # {} PROVE FALSE
    OBVIOUS
  <2>1. PICK m \in T : \A n \in T : m <= n
    BY LeastNumber
  <2>2. \A n \in Nat : n < m => P(n)
    BY <2>1
  <2> QED
    BY <1>2, <2>2
<1> QED
  BY <1>1, <1>3 DEF P

-----------------------------------------------------------------------------
(* The equation of valuesAt has a solution too, whatever the bytes.        *)

\* The arguments of valuesAt: an offset and a number of values.
Reads == Nat \X Nat

\* The right-hand side of the equation.
ReadBody(d, b, p) ==
    IF p[2] = 0 THEN [values |-> <<>>, next |-> p[1]] ELSE NextValues(d, b, p[1], p[2])

\* The bytes from an offset on.
Unread(b, p) == IF p[1] > Len(b) THEN 0 ELSE Len(b) + 1 - p[1]

\* Reading goes forward, or beyond the end.
Advances(r, b, at) == r.next \in Nat /\ (r.next >= at \/ r.next > Len(b))

\* Numbers read from within a sequence of bytes.
LEMMA ByteAt ==
    ASSUME NEW b \in Seq(Nat), NEW at \in Nat, at + WordSize <= Len(b)
    PROVE  WordAt(b, at) \in Nat /\ Len(b) \in Nat
<1>1. Len(b) \in Nat /\ WordSize \in Nat /\ WordSize # 0
  BY LenProperties, ValueAssumption
<1>2. at + 1 \in 1..Len(b)
  BY <1>1
<1> QED
  BY <1>1, <1>2, ElementOfSeq DEF WordAt

\* The offsets of content and count, and that they are in order.
LEMMA HeaderOffsets ==
    ASSUME NEW b \in Seq(Nat), NEW at \in Nat,
           NEW contentAt, contentAt = StringEnd(b, at),
           NEW countAt, countAt = StringEnd(b, contentAt)
    PROVE  /\ contentAt \in Nat /\ countAt \in Nat
           /\ countAt + WordSize <= Len(b) =>
                 /\ at + WordSize <= contentAt /\ contentAt + WordSize <= countAt
                 /\ at < countAt + WordSize /\ at <= Len(b)
                 /\ WordAt(b, countAt) \in Nat
<1>1. Len(b) \in Nat /\ WordSize \in Nat /\ WordSize # 0
  BY LenProperties, ValueAssumption
<1>2. \A k \in Nat : /\ StringEnd(b, k) \in Nat
                     /\ StringEnd(b, k) > Len(b) \/ k + WordSize <= StringEnd(b, k)
  <2> SUFFICES ASSUME NEW k \in Nat
               PROVE  /\ StringEnd(b, k) \in Nat
                      /\ StringEnd(b, k) > Len(b) \/ k + WordSize <= StringEnd(b, k)
    OBVIOUS
  <2>1. CASE k + WordSize > Len(b)
    BY <1>1, <2>1 DEF StringEnd
  <2>2. CASE ~(k + WordSize > Len(b))
    <3>1. WordAt(b, k) \in Nat
      BY <1>1, <2>2, ByteAt
    <3> QED
      BY <1>1, <2>2, <3>1 DEF StringEnd
  <2> QED
    BY <2>1, <2>2
<1>3. contentAt \in Nat /\ countAt \in Nat
  BY <1>2
<1>4. ASSUME countAt + WordSize <= Len(b)
      PROVE  /\ at + WordSize <= contentAt /\ contentAt + WordSize <= countAt
             /\ at < countAt + WordSize /\ at <= Len(b)
             /\ WordAt(b, countAt) \in Nat
  <2>1. contentAt + WordSize <= countAt
    BY <1>1, <1>2, <1>3, <1>4
  <2>2. at + WordSize <= contentAt
    BY <1>1, <1>2, <1>3, <1>4, <2>1
  <2>3. WordAt(b, countAt) \in Nat
    BY <1>3, <1>4, ByteAt
  <2> QED
    BY <1>1, <1>3, <1>4, <2>1, <2>2, <2>3
<1> QED
  BY <1>3, <1>4

\* What is read depends only on what is read further on.
LEMMA ReadBodyAgrees ==
    ASSUME NEW b \in Seq(Nat), NEW p \in Reads, NEW f, NEW g,
           \A q \in Reads : Advances(f[q], b, q[1]),
           \A q \in Reads : Unread(b, q) < Unread(b, p) => f[q] = g[q]
    PROVE  Advances(ReadBody(f, b, p), b, p[1]) /\ ReadBody(f, b, p) = ReadBody(g, b, p)
<1>1. PICK at \in Nat, n \in Nat : p = <<at, n>>
  BY DEF Reads
<1>2. Len(b) \in Nat /\ WordSize \in Nat /\ WordSize # 0
  BY LenProperties, ValueAssumption
<1>3. CASE n = 0
  <2>1. /\ ReadBody(f, b, p) = [values |-> <<>>, next |-> at]
        /\ ReadBody(g, b, p) = [values |-> <<>>, next |-> at]
    BY <1>1, <1>3 DEF ReadBody
  <2> QED
    BY <1>1, <2>1 DEF Advances
<1>4. CASE n # 0
  <2> DEFINE contentAt == StringEnd(b, at)
             countAt == StringEnd(b, contentAt)
             p1 == <<countAt + WordSize, WordAt(b, countAt)>>
             p2 == <<f[p1].next, n - 1>>
             key == SubSeq(b, at + WordSize + 1, contentAt)
             content == SubSeq(b, contentAt + WordSize + 1, countAt)
  <2>1. /\ ReadBody(f, b, p) = NextValues(f, b, at, n)
        /\ ReadBody(g, b, p) = NextValues(g, b, at, n)
    BY <1>1, <1>4 DEF ReadBody
  <2>2. NextValues(f, b, at, n) =
           IF countAt + WordSize > Len(b) THEN Beyond(b)
           ELSE [values |-> <<Node(key, content, f[p1].values)>> \o f[p2].values,
                 next |-> f[p2].next]
    BY DEF NextValues
  <2>3. NextValues(g, b, at, n) =
           IF countAt + WordSize > Len(b) THEN Beyond(b)
           ELSE [values |-> <<Node(key, content, g[p1].values)>> \o g[<<g[p1].next, n - 1>>].values,
                 next |-> g[<<g[p1].next, n - 1>>].next]
    BY DEF NextValues
  <2>4. CASE countAt + WordSize > Len(b)
    <3>1. ReadBody(f, b, p) = Beyond(b) /\ ReadBody(g, b, p) = Beyond(b)
      BY <2>1, <2>2, <2>3, <2>4
    <3> QED
      BY <1>1, <1>2, <3>1 DEF Beyond, Advances
  <2>5. CASE ~(countAt + WordSize > Len(b))
    <3>1. /\ contentAt \in Nat /\ countAt \in Nat
          /\ countAt + WordSize <= Len(b) =>
                 /\ at < countAt + WordSize /\ at <= Len(b)
                 /\ WordAt(b, countAt) \in Nat
      BY HeaderOffsets
    <3>2. at < countAt + WordSize /\ at <= Len(b) /\ WordAt(b, countAt) \in Nat
      <4> HIDE DEF contentAt, countAt
      <4> QED
        BY <1>2, <2>5, <3>1
    <3>3. p1 \in Reads /\ p1[1] = countAt + WordSize
      <4> HIDE DEF contentAt, countAt
      <4> QED
        BY <1>2, <3>1, <3>2 DEF Reads
    <3> HIDE DEF contentAt, countAt, key, content
    <3>4. /\ f[p1].next \in Nat
          /\ f[p1].next >= countAt + WordSize \/ f[p1].next > Len(b)
      <4> HIDE DEF p1
      <4> QED
        BY <3>3 DEF Advances
    <3>5. Unread(b, p1) < Unread(b, p)
      <4> HIDE DEF p1
      <4>1. p[1] = at
        BY <1>1
      <4> QED
        BY <1>2, <3>1, <3>2, <3>3, <4>1 DEF Unread
    <3>6. f[p1] = g[p1]
      BY <3>3, <3>5
    <3> HIDE DEF p1
    <3>7. p2 \in Reads /\ p2[1] = f[p1].next
      BY <1>4, <3>4 DEF Reads
    <3>8. Unread(b, p2) < Unread(b, p)
      <4> HIDE DEF p2
      <4>1. p[1] = at
        BY <1>1
      <4> QED
        BY <1>2, <3>1, <3>2, <3>4, <3>7, <4>1 DEF Unread
    <3>9. g[<<g[p1].next, n - 1>>] = f[p2]
      <4>1. g[p2] = f[p2]
        BY <3>7, <3>8
      <4> QED
        BY <3>6, <4>1
    <3>10. f[p2].next \in Nat /\ (f[p2].next >= f[p1].next \/ f[p2].next > Len(b))
      <4> HIDE DEF p2
      <4> QED
        BY <3>7 DEF Advances
    <3> HIDE DEF p2
    <3> DEFINE r == [values |-> <<Node(key, content, f[p1].values)>> \o f[p2].values,
                     next |-> f[p2].next]
    <3>11. ReadBody(f, b, p) = r /\ ReadBody(g, b, p) = r
      BY <2>1, <2>2, <2>3, <2>5, <3>6, <3>9
    <3>12. r.next = f[p2].next
      OBVIOUS
    <3> HIDE DEF r
    <3>13. Advances(r, b, p[1])
      BY <1>1, <1>2, <3>1, <3>2, <3>4, <3>10, <3>12 DEF Advances
    <3> QED
      BY <3>11, <3>13
  <2> QED
    BY <2>4, <2>5
<1> QED
  BY <1>3, <1>4

\* Offsets with less than j bytes after them can all be read by one function.
LEMMA ReadsExist ==
    ASSUME NEW b \in Seq(Nat)
    PROVE  \A j \in Nat : \E g :
              /\ g = [p \in Reads |-> g[p]]
              /\ \A p \in Reads : Advances(g[p], b, p[1])
              /\ \A p \in Reads : Unread(b, p) < j => g[p] = ReadBody(g, b, p)
<1> DEFINE Good(g, j) ==
              /\ g = [p \in Reads |-> g[p]]
              /\ \A p \in Reads : Advances(g[p], b, p[1])
              /\ \A p \in Reads : Unread(b, p) < j => g[p] = ReadBody(g, b, p)
           P(j) == \E g : Good(g, j)
           S == {j \in Nat : P(j)}
<1>1. \A p \in Reads : p[1] \in Nat /\ Unread(b, p) \in Nat
  <2>1. Len(b) \in Nat
    BY LenProperties
  <2> QED
    BY <2>1 DEF Reads, Unread
<1>2. P(0)
  <2> DEFINE g == [p \in Reads |-> [values |-> <<>>, next |-> p[1]]]
  <2>1. \A p \in Reads : Advances(g[p], b, p[1])
    BY <1>1 DEF Advances
  <2>2. g = [p \in Reads |-> g[p]]
    OBVIOUS
  <2>3. \A p \in Reads : ~(Unread(b, p) < 0)
    BY <1>1
  <2> HIDE DEF g
  <2>4. Good(g, 0)
    BY <2>1, <2>2, <2>3
  <2> QED
    BY <2>4
<1>3. ASSUME NEW j \in Nat, P(j) PROVE P(j + 1)
  <2>1. PICK g : Good(g, j)
    BY <1>3
  <2> DEFINE h == [p \in Reads |-> ReadBody(g, b, p)]
  <2>2. \A p \in Reads : Advances(ReadBody(g, b, p), b, p[1])
    BY <2>1, ReadBodyAgrees
  <2>3. h = [p \in Reads |-> h[p]] /\ \A p \in Reads : h[p] = ReadBody(g, b, p)
    OBVIOUS
  <2> HIDE DEF h
  <2>4. ASSUME NEW p \in Reads, Unread(b, p) < j + 1 PROVE h[p] = ReadBody(h, b, p)
    <3>1. ASSUME NEW q \in Reads, Unread(b, q) < Unread(b, p) PROVE g[q] = h[q]
      <4>1. Unread(b, q) < j
        BY <1>1, <2>4, <3>1
      <4> QED
        BY <2>1, <2>3, <4>1
    <3>2. ReadBody(g, b, p) = ReadBody(h, b, p)
      BY <2>1, <3>1, ReadBodyAgrees
    <3> QED
      BY <2>3, <3>2
  <2>5. Good(h, j + 1)
    BY <2>2, <2>3, <2>4
  <2> HIDE DEF Good
  <2> QED
    BY <2>5
<1> HIDE DEF P
<1>4. 0 \in S /\ \A j \in Nat : j \in S => j + 1 \in S
  BY <1>2, <1>3
<1>5. Nat \subseteq S
  <2> HIDE DEF S
  <2> QED
    BY <1>4, SetInduction
<1> QED
  BY <1>5 DEF P

\* valuesAt is what its definition says.
LEMMA ValuesAtDef ==
    ASSUME NEW b \in Seq(Nat)
    PROVE  \A p \in Reads : valuesAt(b)[p] = ReadBody(valuesAt(b), b, p)
<1>1. Len(b) \in Nat
  BY LenProperties
<1>2. PICK g : /\ g = [p \in Reads |-> g[p]]
               /\ \A p \in Reads : Unread(b, p) < Len(b) + 2 => g[p] = ReadBody(g, b, p)
  BY <1>1, ReadsExist
<1>3. \A p \in Reads : Unread(b, p) < Len(b) + 2
  BY <1>1 DEF Reads, Unread
<1>4. \A p \in Reads : g[p] = ReadBody(g, b, p)
  BY <1>2, <1>3
<1>5. g = [p \in Reads |-> ReadBody(g, b, p)]
  BY <1>2, <1>4
<1>6. valuesAt(b) = CHOOSE d : d = [p \in Reads |-> ReadBody(d, b, p)]
  BY DEF valuesAt, ReadBody, Reads
<1>7. valuesAt(b) = [p \in Reads |-> ReadBody(valuesAt(b), b, p)]
  BY <1>5, <1>6
<1> QED
  BY <1>7

\* Reading leads to an offset, further on or beyond the end.
LEMMA ReadsAdvance ==
    ASSUME NEW b \in Seq(Nat)
    PROVE  \A p \in Reads : Advances(valuesAt(b)[p], b, p[1])
<1> DEFINE d == valuesAt(b)
           P(k) == \A p \in Reads : Unread(b, p) = k => Advances(d[p], b, p[1])
           T == {k \in Nat : ~P(k)}
<1>1. Len(b) \in Nat /\ \A p \in Reads : Unread(b, p) \in Nat
  BY LenProperties DEF Reads, Unread
<1>2. \A p \in Reads : d[p] = ReadBody(d, b, p)
  BY ValuesAtDef
<1> HIDE DEF d
<1>3. ASSUME NEW k \in Nat, \A m \in Nat : m < k => P(m) PROVE P(k)
  <2> SUFFICES ASSUME NEW p \in Reads, Unread(b, p) = k PROVE Advances(d[p], b, p[1])
    OBVIOUS
  <2> DEFINE f == [q \in Reads |-> IF Unread(b, q) < k THEN d[q] ELSE [next |-> q[1]]]
  <2>1. \A q \in Reads : Advances(f[q], b, q[1])
    <3> SUFFICES ASSUME NEW q \in Reads PROVE Advances(f[q], b, q[1])
      OBVIOUS
    <3>1. CASE Unread(b, q) < k
      BY <1>1, <1>3, <3>1
    <3>2. CASE ~(Unread(b, q) < k)
      BY <3>2 DEF Advances, Reads
    <3> QED
      BY <3>1, <3>2
  <2>2. \A q \in Reads : Unread(b, q) < Unread(b, p) => f[q] = d[q]
    OBVIOUS
  <2> HIDE DEF f
  <2>3. Advances(ReadBody(f, b, p), b, p[1]) /\ ReadBody(f, b, p) = ReadBody(d, b, p)
    BY <2>1, <2>2, ReadBodyAgrees
  <2> QED
    BY <1>2, <2>3
<1> HIDE DEF P
<1>4. T = {}
  <2> SUFFICES ASSUME T # {} PROVE FALSE
    OBVIOUS
  <2>1. PICK m \in T : \A n \in T : m <= n
    BY LeastNumber
  <2>2. \A n \in Nat : n < m => P(n)
    BY <2>1
  <2> QED
    BY <1>3, <2>2
<1> QED
  BY <1>1, <1>4 DEF P, d

\* Nothing is read beyond the end.
LEMMA BeyondEnd ==
    ASSUME NEW b \in Seq(Nat), NEW at \in Nat, NEW n \in Nat, at > Len(b)
    PROVE  valuesAt(b)[<<at, n>>].next > Len(b)
<1>1. Len(b) \in Nat /\ WordSize \in Nat /\ WordSize # 0
  BY LenProperties, ValueAssumption
<1>2. valuesAt(b)[<<at, n>>] = ReadBody(valuesAt(b), b, <<at, n>>)
  BY ValuesAtDef DEF Reads
<1>3. CASE n = 0
  <2>1. valuesAt(b)[<<at, n>>] = [values |-> <<>>, next |-> at]
    BY <1>2, <1>3 DEF ReadBody
  <2> QED
    BY <2>1
<1>4. CASE n # 0
  <2>1. StringEnd(b, at) = Len(b) + 1 /\ StringEnd(b, Len(b) + 1) = Len(b) + 1
    BY <1>1 DEF StringEnd
  <2>2. NextValues(valuesAt(b), b, at, n) = Beyond(b)
    BY <1>1, <2>1 DEF NextValues
  <2>3. valuesAt(b)[<<at, n>>] = Beyond(b)
    BY <1>2, <1>4, <2>2 DEF ReadBody
  <2> QED
    BY <1>1, <2>3 DEF Beyond
<1> QED
  BY <1>3, <1>4

-----------------------------------------------------------------------------
(* What deserialize() reads of what serialize() has written.               *)

\* From offset at on, b is x, as far as b goes.
Matches(b, at, x) == \A k \in 1..Len(x) : at + k <= Len(b) => b[at + k] = x[k]

\* Bytes that match a whole match its parts.
LEMMA MatchesParts ==
    ASSUME NEW b \in Seq(Nat), NEW at \in Nat, NEW x \in Seq(Nat), NEW y \in Seq(Nat),
           Matches(b, at, x \o y)
    PROVE  Matches(b, at, x) /\ Matches(b, at + Len(x), y)
<1>1. /\ Len(x) \in Nat /\ Len(y) \in Nat /\ Len(x \o y) = Len(x) + Len(y) /\ Len(b) \in Nat
      /\ \A k \in 1..Len(x) : (x \o y)[k] = x[k]
      /\ \A k \in 1..Len(y) : (x \o y)[Len(x) + k] = y[k]
  BY Joined, LenProperties
<1> DEFINE z == x \o y
<1> HIDE DEF z
<1>2. \A k \in 1..Len(x) + Len(y) : at + k <= Len(b) => b[at + k] = z[k]
  BY <1>1 DEF Matches, z
<1>3. ASSUME NEW k \in 1..Len(x), at + k <= Len(b) PROVE b[at + k] = x[k]
  <2>1. k \in 1..Len(x) + Len(y)
    BY <1>1
  <2>2. b[at + k] = z[k]
    BY <1>2, <1>3, <2>1
  <2> QED
    BY <1>1, <2>2 DEF z
<1>4. ASSUME NEW k \in 1..Len(y), at + Len(x) + k <= Len(b) PROVE b[at + Len(x) + k] = y[k]
  <2>1. Len(x) + k \in 1..Len(x) + Len(y) /\ at + (Len(x) + k) = at + Len(x) + k
    BY <1>1
  <2>2. b[at + (Len(x) + k)] = z[Len(x) + k]
    BY <1>2, <1>4, <2>1
  <2> QED
    BY <1>1, <2>1, <2>2 DEF z
<1> QED
  BY <1>3, <1>4 DEF Matches

\* A string behind its length.
LEMMA StringRead ==
    ASSUME NEW b \in Seq(Nat), NEW at \in Nat, NEW x \in Seq(Nat),
           Matches(b, at, Word(Len(x))), Matches(b, at + WordSize, x)
    PROVE  /\ StringEnd(b, at) = IF at + WordSize > Len(b) THEN Len(b) + 1
                                 ELSE at + WordSize + Len(x)
           /\ at + WordSize + Len(x) <= Len(b) =>
                 SubSeq(b, at + WordSize + 1, at + WordSize + Len(x)) = x
<1>1. Len(b) \in Nat /\ Len(x) \in Nat /\ WordSize \in Nat /\ WordSize # 0
  BY LenProperties, ValueAssumption
<1>2. Len(Word(Len(x))) = WordSize /\ Word(Len(x))[1] = Len(x)
  BY <1>1, Words
<1>3. ASSUME ~(at + WordSize > Len(b)) PROVE WordAt(b, at) = Len(x)
  <2>1. 1 \in 1..Len(Word(Len(x))) /\ at + 1 <= Len(b)
    BY <1>1, <1>2, <1>3
  <2> QED
    BY <1>2, <2>1 DEF Matches, WordAt
<1>4. ASSUME at + WordSize + Len(x) <= Len(b)
      PROVE  SubSeq(b, at + WordSize + 1, at + WordSize + Len(x)) = x
  <2> DEFINE m == at + WordSize
             y == SubSeq(b, m + 1, m + Len(x))
  <2>1. m \in Nat /\ m + Len(x) <= Len(b)
    BY <1>1, <1>4
  <2>2. \A k \in 1..Len(x) : b[m + k] = x[k]
    BY <1>1, <1>4 DEF Matches
  <2> HIDE DEF m
  <2>3. /\ y \in Seq(Nat) /\ Len(y) = Len(x)
        /\ \A k \in 1..Len(x) : y[k] = b[m + k]
    <3>1. m + 1 \in 1..Len(b) + 1 /\ m + Len(x) \in m..Len(b)
      BY <1>1, <2>1
    <3> QED
      BY <1>1, <2>1, <3>1, SubSeqProperties
  <2> HIDE DEF y
  <2>4. y = x
    BY <2>2, <2>3, SeqEqual
  <2> QED
    BY <2>4 DEF y, m
<1> QED
  BY <1>3, <1>4 DEF StringEnd

\* Everything of a value but what is below it, or that it is cut.
LEMMA HeaderRead ==
    ASSUME NEW b \in Seq(Nat), NEW at \in Nat, NEW s \in Values, Matches(b, at, Header(s)),
           NEW contentAt, contentAt = StringEnd(b, at),
           NEW countAt, countAt = StringEnd(b, contentAt)
    PROVE  /\ at + Offset(s, 1) > Len(b) => countAt + WordSize > Len(b)
           /\ at + Offset(s, 1) <= Len(b) =>
                 /\ countAt + WordSize = at + Offset(s, 1)
                 /\ WordAt(b, countAt) = Len(s.subs)
                 /\ SubSeq(b, at + WordSize + 1, contentAt) = s.key
                 /\ SubSeq(b, contentAt + WordSize + 1, countAt) = s.content
<1>1. /\ Len(s.key) \in Nat /\ Len(s.content) \in Nat /\ Len(s.subs) \in Nat
      /\ s.key \in Seq(Nat) /\ s.content \in Seq(Nat)
      /\ WordSize \in Nat /\ WordSize # 0 /\ Len(b) \in Nat
  BY Layout, ValueAssumption, LenProperties
<1> DEFINE k == Len(s.key)
           c == Len(s.content)
<1>0. k \in Nat /\ c \in Nat /\ Len(s.key) = k /\ Len(s.content) = c
  BY <1>1
<1> DEFINE x == Word(k) \o s.key
           y == x \o Word(c)
           z == y \o s.content
           w == Word(Len(s.subs))
<1>2. /\ Word(k) \in Seq(Nat) /\ Word(c) \in Seq(Nat) /\ w \in Seq(Nat)
      /\ Len(Word(k)) = WordSize /\ Len(Word(c)) = WordSize /\ Len(w) = WordSize
      /\ w[1] = Len(s.subs)
  BY <1>1, Words
<1>3. Header(s) = z \o w
  BY DEF Header
<1> HIDE DEF k, c
<1>4. x \in Seq(Nat) /\ Len(x) = WordSize + k
  <2>1. x \in Seq(Nat) /\ Len(x) = Len(Word(k)) + Len(s.key)
    BY <1>1, <1>2, Joined
  <2> QED
    BY <1>0, <1>1, <1>2, <2>1
<1>5. y \in Seq(Nat) /\ Len(y) = WordSize + k + WordSize
  <2> HIDE DEF x
  <2>1. y \in Seq(Nat) /\ Len(y) = Len(x) + Len(Word(c))
    BY <1>2, <1>4, Joined
  <2> QED
    BY <1>0, <1>1, <1>2, <1>4, <2>1
<1>6. z \in Seq(Nat) /\ Len(z) = WordSize + k + WordSize + c
  <2> HIDE DEF y
  <2>1. z \in Seq(Nat) /\ Len(z) = Len(y) + Len(s.content)
    BY <1>1, <1>5, Joined
  <2> QED
    BY <1>0, <1>1, <1>5, <2>1
<1> HIDE DEF w
<1>7. Matches(b, at, z) /\ Matches(b, at + Len(z), w)
  <2> HIDE DEF z
  <2> QED
    BY <1>2, <1>3, <1>6, MatchesParts
<1>8. Matches(b, at, y) /\ Matches(b, at + Len(y), s.content)
  <2> HIDE DEF y
  <2> QED
    BY <1>1, <1>5, <1>7, MatchesParts
<1>9. Matches(b, at, x) /\ Matches(b, at + Len(x), Word(c))
  <2> HIDE DEF x
  <2> QED
    BY <1>2, <1>4, <1>8, MatchesParts
<1>10. Matches(b, at, Word(k)) /\ Matches(b, at + WordSize, s.key)
  BY <1>1, <1>2, <1>9, MatchesParts
<1> HIDE DEF x, y, z
<1>11. /\ contentAt = IF at + WordSize > Len(b) THEN Len(b) + 1 ELSE at + WordSize + k
       /\ at + WordSize + k <= Len(b) =>
             SubSeq(b, at + WordSize + 1, at + WordSize + k) = s.key
  BY <1>0, <1>1, <1>10, StringRead
<1> DEFINE m == at + WordSize + k
<1>12. m \in Nat /\ m = at + Len(x) /\ m + WordSize = at + Len(y) /\ m + WordSize + c = at + Len(z)
  BY <1>0, <1>1, <1>4, <1>5, <1>6
<1>13. /\ StringEnd(b, m) = IF m + WordSize > Len(b) THEN Len(b) + 1 ELSE m + WordSize + c
       /\ m + WordSize + c <= Len(b) =>
             SubSeq(b, m + WordSize + 1, m + WordSize + c) = s.content
  <2>1. Matches(b, m, Word(c)) /\ Matches(b, m + WordSize, s.content)
    BY <1>8, <1>9, <1>12
  <2> HIDE DEF m
  <2> QED
    BY <1>0, <1>1, <1>12, <2>1, StringRead
<1>14. at + Offset(s, 1) = m + WordSize + c + WordSize
  <2>1. Offset(s, 1) = 3 * WordSize + k + c
    BY <1>0, Layout
  <2>2. \A i, j, l, n \in Nat : i + (3 * j + l + n) = i + j + l + j + n + j
    OBVIOUS
  <2> QED
    BY <1>0, <1>1, <2>1, <2>2
<1>15. c \in Nat /\ k \in Nat
  BY <1>0
<1>16. ASSUME at + Offset(s, 1) > Len(b) PROVE countAt + WordSize > Len(b)
  <2>1. CASE at + WordSize > Len(b)
    <3>1. contentAt = Len(b) + 1
      BY <1>11, <2>1
    <3>2. countAt = Len(b) + 1
      BY <1>1, <3>1 DEF StringEnd
    <3> QED
      BY <1>1, <3>2
  <2>2. CASE ~(at + WordSize > Len(b))
    <3>1. contentAt = m
      BY <1>11, <2>2
    <3> HIDE DEF m
    <3> QED
      BY <1>1, <1>12, <1>13, <1>14, <1>15, <1>16, <3>1
  <2> QED
    BY <2>1, <2>2
<1>17. ASSUME at + Offset(s, 1) <= Len(b)
       PROVE  /\ countAt + WordSize = at + Offset(s, 1)
              /\ WordAt(b, countAt) = Len(s.subs)
              /\ SubSeq(b, at + WordSize + 1, contentAt) = s.key
              /\ SubSeq(b, contentAt + WordSize + 1, countAt) = s.content
  <2>1. m <= Len(b) /\ ~(at + WordSize > Len(b)) /\ ~(m + WordSize > Len(b))
        /\ m + WordSize + c <= Len(b)
    BY <1>1, <1>14, <1>15, <1>17
  <2>2. contentAt = m /\ SubSeq(b, at + WordSize + 1, contentAt) = s.key
    BY <1>11, <2>1
  <2>3. countAt = m + WordSize + c /\ SubSeq(b, contentAt + WordSize + 1, countAt) = s.content
    <3> HIDE DEF m
    <3> QED
      BY <1>13, <2>1, <2>2
  <2> HIDE DEF m
  <2>4. countAt + WordSize = at + Offset(s, 1)
    BY <1>14, <2>3
  <2>5. WordAt(b, countAt) = Len(s.subs)
    <3>1. countAt = at + Len(z)
      BY <1>12, <2>3
    <3>2. 1 \in 1..Len(w) /\ countAt + 1 <= Len(b)
      BY <1>1, <1>2, <1>12, <1>14, <1>15, <1>17, <2>3
    <3>3. b[countAt + 1] = w[1]
      BY <1>7, <3>1, <3>2 DEF Matches
    <3> QED
      BY <1>2, <3>3 DEF WordAt
  <2> QED
    BY <2>2, <2>3, <2>4, <2>5
<1> QED
  BY <1>16, <1>17

\* The i-th sub-value of v and those after it are read where their bytes are, and
\* recognised as cut where their bytes are not all there.
ReadBack(v, i) ==
    \A b \in Seq(Nat), at \in Nat :
        Matches(b, at, Below(v, i)) =>
            LET r == valuesAt(b)[<<at, Len(v.subs) + 1 - i>>]
            IN  /\ at + Left(v, i) > Len(b) => r.next > Len(b)
                /\ at + Left(v, i) <= Len(b) =>
                      r = [values |-> SubSeq(v.subs, i, Len(v.subs)), next |-> at + Left(v, i)]

\* A value, with n others after it, is read when the values below it are.
LEMMA ValueRead ==
    ASSUME NEW s \in Values, ReadBack(s, 1), NEW b \in Seq(Nat), NEW at \in Nat, NEW n \in Nat,
           Matches(b, at, Bytes(s))
    PROVE  LET r == valuesAt(b)[<<at, n + 1>>]
               after == valuesAt(b)[<<at + Size(s), n>>]
           IN  /\ at + Size(s) > Len(b) => r.next > Len(b)
               /\ at + Size(s) <= Len(b) =>
                     r = [values |-> <<s>> \o after.values, next |-> after.next]
<1> DEFINE d == valuesAt(b)
           contentAt == StringEnd(b, at)
           countAt == StringEnd(b, contentAt)
           below == d[<<countAt + WordSize, WordAt(b, countAt)>>]
           after == d[<<below.next, n>>]
           first == Node(SubSeq(b, at + WordSize + 1, contentAt),
                         SubSeq(b, contentAt + WordSize + 1, countAt), below.values)
<1>1. Len(b) \in Nat /\ WordSize \in Nat /\ Len(s.subs) \in Nat /\ 1 \in 1..Len(s.subs) + 1
      /\ s.subs \in Seq(Values)
  <2>1. Len(b) \in Nat /\ WordSize \in Nat /\ Len(s.subs) \in Nat /\ s.subs \in Seq(Values)
    BY LenProperties, Layout, ValueAssumption
  <2> QED
    BY <2>1
<1>2. d[<<at, n + 1>>] = IF countAt + WordSize > Len(b) THEN Beyond(b)
                         ELSE [values |-> <<first>> \o after.values, next |-> after.next]
  <2>1. <<at, n + 1>> \in Reads /\ n + 1 # 0 /\ (n + 1) - 1 = n
    BY DEF Reads
  <2>2. d[<<at, n + 1>>] = NextValues(d, b, at, n + 1)
    <3>1. d[<<at, n + 1>>] = ReadBody(d, b, <<at, n + 1>>)
      BY <2>1, ValuesAtDef
    <3> QED
      BY <2>1, <3>1 DEF ReadBody
  <2>3. NextValues(d, b, at, n + 1) =
           IF countAt + WordSize > Len(b) THEN Beyond(b)
           ELSE [values |-> <<first>> \o after.values, next |-> after.next]
    <3> HIDE DEF d
    <3> QED
      BY <2>1 DEF NextValues
  <2> QED
    BY <2>2, <2>3
<1>3. FillsRoom(s, 1)
  BY <1>1, AllFillRoom
<1>4. /\ Header(s) \in Seq(Nat) /\ Len(Header(s)) = Offset(s, 1) /\ Offset(s, 1) \in Nat
      /\ Below(s, 1) \in Seq(Nat) /\ Len(Below(s, 1)) = Left(s, 1) /\ Left(s, 1) \in Nat
  <2>1. Below(s, 1) \in Seq(Nat) /\ Len(Below(s, 1)) = Left(s, 1)
    BY <1>3 DEF FillsRoom
  <2> QED
    BY <2>1, HeaderSize, LenProperties
<1>5. Size(s) = Offset(s, 1) + Left(s, 1)
  <2>1. Size(s) \in Nat
    BY Layout
  <2> QED
    BY <1>1, <1>4, <2>1 DEF Left, Size
<1>6. Matches(b, at, Header(s)) /\ Matches(b, at + Offset(s, 1), Below(s, 1))
  BY <1>4, MatchesParts DEF Bytes
<1>7. /\ at + Offset(s, 1) > Len(b) => countAt + WordSize > Len(b)
      /\ at + Offset(s, 1) <= Len(b) =>
             /\ countAt + WordSize = at + Offset(s, 1)
             /\ WordAt(b, countAt) = Len(s.subs)
             /\ SubSeq(b, at + WordSize + 1, contentAt) = s.key
             /\ SubSeq(b, contentAt + WordSize + 1, countAt) = s.content
  BY <1>6, HeaderRead
<1> DEFINE m == at + Offset(s, 1)
<1>8. m \in Nat /\ m + Left(s, 1) = at + Size(s) /\ at + Size(s) \in Nat
  BY <1>4, <1>5
<1>9. /\ m + Left(s, 1) > Len(b) => d[<<m, Len(s.subs)>>].next > Len(b)
      /\ m + Left(s, 1) <= Len(b) =>
            d[<<m, Len(s.subs)>>] = [values |-> s.subs, next |-> m + Left(s, 1)]
  <2>1. Len(s.subs) + 1 - 1 = Len(s.subs) /\ SubSeq(s.subs, 1, Len(s.subs)) = s.subs
    BY <1>1, SubSeqFull
  <2> HIDE DEF m, d
  <2> QED
    BY <1>6, <1>8, <2>1 DEF ReadBack, m, d
<1> HIDE DEF d, contentAt, countAt
<1>10. CASE at + Offset(s, 1) > Len(b)
  <2>1. d[<<at, n + 1>>] = Beyond(b) /\ at + Size(s) > Len(b)
    BY <1>1, <1>2, <1>4, <1>5, <1>7, <1>10
  <2>2. d[<<at, n + 1>>].next > Len(b)
    BY <1>1, <2>1 DEF Beyond
  <2> QED
    BY <1>1, <1>8, <2>1, <2>2 DEF d
<1>11. CASE ~(at + Offset(s, 1) > Len(b))
  <2>1. /\ countAt + WordSize = m /\ WordAt(b, countAt) = Len(s.subs) /\ m <= Len(b)
        /\ first = Node(s.key, s.content, below.values)
    <3>1. at + Offset(s, 1) <= Len(b)
      BY <1>1, <1>4, <1>11
    <3> HIDE DEF below
    <3> QED
      BY <1>7, <3>1
  <2>2. below = d[<<m, Len(s.subs)>>]
    BY <2>1
  <2>3. ~(countAt + WordSize > Len(b))
    BY <1>1, <1>8, <2>1
  <2>4. d[<<at, n + 1>>] = [values |-> <<first>> \o after.values, next |-> after.next]
    BY <1>2, <2>3
  <2>5. CASE at + Size(s) > Len(b)
    <3>1. below.next > Len(b)
      BY <1>8, <1>9, <2>2, <2>5
    <3>2. below.next \in Nat
      BY <2>2, ReadsAdvance, <1>1, <1>8 DEF d, Reads, Advances
    <3>3. after.next > Len(b)
      <4> HIDE DEF below
      <4> QED
        BY <3>1, <3>2, BeyondEnd DEF d
    <3> HIDE DEF after, first
    <3> QED
      BY <1>1, <1>8, <2>4, <2>5, <3>3 DEF d
  <2>6. CASE ~(at + Size(s) > Len(b))
    <3>1. below = [values |-> s.subs, next |-> at + Size(s)]
      BY <1>1, <1>8, <1>9, <2>2, <2>6
    <3>2. below.values = s.subs /\ below.next = at + Size(s)
      BY <3>1
    <3> HIDE DEF below
    <3>3. first = s
      BY <2>1, <3>2, Layout
    <3>4. after = d[<<at + Size(s), n>>]
      BY <3>2
    <3> HIDE DEF after, first
    <3> QED
      BY <1>1, <1>8, <2>4, <2>6, <3>3, <3>4 DEF d
  <2> QED
    BY <2>5, <2>6
<1> QED
  BY <1>10, <1>11

\* The rest of a sequence is its first element and the rest after that.
LEMMA RestOfSeq ==
    ASSUME NEW q \in Seq(Values), NEW i \in 1..Len(q)
    PROVE  SubSeq(q, i, Len(q)) = <<q[i]>> \o SubSeq(q, i + 1, Len(q))
<1>1. Len(q) \in Nat /\ q[i] \in Values /\ i \in Nat
  BY LenProperties, ElementOfSeq
<1>2. \A k \in i..Len(q) : q[k] \in Values
  BY <1>1, ElementOfSeq
<1> DEFINE x == SubSeq(q, i, Len(q))
           y == SubSeq(q, i + 1, Len(q))
           z == <<q[i]>> \o y
<1>3. /\ x \in Seq(Values) /\ Len(x) = Len(q) - i + 1
      /\ \A k \in 1..Len(q) - i + 1 : x[k] = q[i + k - 1]
  BY <1>1, <1>2, SubSeqProperties
<1>4. /\ y \in Seq(Values) /\ Len(y) = Len(q) - i
      /\ \A k \in 1..Len(q) - i : y[k] = q[i + k]
  <2>1. /\ y \in Seq(Values) /\ Len(y) = IF i + 1 <= Len(q) THEN Len(q) - (i + 1) + 1 ELSE 0
        /\ \A k \in 1..Len(q) - (i + 1) + 1 : y[k] = q[(i + 1) + k - 1]
    BY <1>1, <1>2, SubSeqProperties
  <2> HIDE DEF y
  <2> QED
    BY <1>1, <2>1
<1> HIDE DEF x, y
<1>5. <<q[i]>> \in Seq(Values) /\ Len(<<q[i]>>) = 1 /\ <<q[i]>>[1] = q[i]
  BY <1>1
<1>6. /\ z \in Seq(Values) /\ Len(z) = 1 + Len(y)
      /\ \A k \in 1..1 + Len(y) : z[k] = IF k <= 1 THEN <<q[i]>>[k] ELSE y[k - 1]
  BY <1>4, <1>5, ConcatProperties
<1> HIDE DEF z
<1>7. ASSUME NEW k \in 1..Len(x) PROVE x[k] = z[k]
  <2>1. k \in 1..1 + Len(y)
    BY <1>1, <1>3, <1>4
  <2>2. CASE k = 1
    BY <1>1, <1>3, <1>5, <1>6, <2>1, <2>2
  <2>3. CASE k # 1
    <3>1. k - 1 \in 1..Len(q) - i /\ ~(k <= 1) /\ k \in 1..Len(q) - i + 1
      BY <1>1, <1>3, <2>3
    <3>2. z[k] = y[k - 1] /\ y[k - 1] = q[i + (k - 1)]
      BY <1>4, <1>6, <2>1, <3>1
    <3>3. x[k] = q[i + k - 1] /\ i + (k - 1) = i + k - 1
      BY <1>1, <1>3, <3>1
    <3> QED
      BY <3>2, <3>3
  <2> QED
    BY <2>2, <2>3
<1>8. x = z
  <2>1. Len(x) = Len(z)
    BY <1>1, <1>3, <1>4, <1>6
  <2> QED
    BY <1>3, <1>6, <1>7, <2>1, SeqEqual
<1> QED
  BY <1>8 DEF x, y, z

\* The i-th sub-value is read, and then the others.
LEMMA ReadBackStep ==
    ASSUME NEW v \in Values, NEW i \in 1..Len(v.subs),
           ReadBack(v.subs[i], 1), ReadBack(v, i + 1)
    PROVE  ReadBack(v, i)
<1> DEFINE s == v.subs[i]
           n == Len(v.subs) - i
<1>1. /\ s \in Values /\ Left(v, i) \in Nat /\ Left(v, i + 1) \in Nat
      /\ Left(v, i) = Size(s) + Left(v, i + 1)
  BY LeftStep
<1>2. /\ Len(v.subs) \in Nat /\ v.subs \in Seq(Values) /\ Size(s) \in Nat
      /\ 1 \in 1..Len(s.subs) + 1
  <2>1. Len(v.subs) \in Nat /\ v.subs \in Seq(Values) /\ Size(s) \in Nat /\ Len(s.subs) \in Nat
    BY <1>1, Layout
  <2> QED
    BY <2>1
<1>3. /\ n \in Nat /\ Len(v.subs) + 1 - i = n + 1 /\ Len(v.subs) + 1 - (i + 1) = n
      /\ i + 1 \in 1..Len(v.subs) + 1
  <2>1. \A l \in Nat : \A k \in 1..l : /\ l - k \in Nat /\ l + 1 - k = (l - k) + 1
                                       /\ l + 1 - (k + 1) = l - k /\ k + 1 \in 1..l + 1
    OBVIOUS
  <2> QED
    BY <1>2, <2>1
<1>4. /\ Below(v, i) = Bytes(s) \o Below(v, i + 1)
      /\ Bytes(s) \in Seq(Nat) /\ Len(Bytes(s)) = Size(s) /\ Below(v, i + 1) \in Seq(Nat)
  <2>1. FillsRoom(s, 1) /\ FillsRoom(v, i + 1)
    BY <1>1, <1>2, <1>3, AllFillRoom
  <2>2. Below(v, i) = Bytes(s) \o Below(v, i + 1)
    BY <2>1, RoomStep
  <2>3. Below(v, i + 1) \in Seq(Nat)
    BY <2>1 DEF FillsRoom
  <2>4. Bytes(s) \in Seq(Nat) /\ Len(Bytes(s)) = Size(s)
    BY <1>1, <2>1, ValueFillsRoom
  <2> QED
    BY <2>2, <2>3, <2>4
<1> SUFFICES ASSUME NEW b \in Seq(Nat), NEW at \in Nat, Matches(b, at, Below(v, i))
             PROVE  LET r == valuesAt(b)[<<at, n + 1>>]
                    IN  /\ at + Left(v, i) > Len(b) => r.next > Len(b)
                        /\ at + Left(v, i) <= Len(b) =>
                              r = [values |-> SubSeq(v.subs, i, Len(v.subs)),
                                   next |-> at + Left(v, i)]
  BY <1>3 DEF ReadBack
<1>5. Matches(b, at, Bytes(s)) /\ Matches(b, at + Size(s), Below(v, i + 1))
  BY <1>4, MatchesParts
<1> DEFINE r == valuesAt(b)[<<at, n + 1>>]
           after == valuesAt(b)[<<at + Size(s), n>>]
           rest == SubSeq(v.subs, i + 1, Len(v.subs))
           m == at + Size(s)
<1>6. ReadBack(s, 1)
  OBVIOUS
<1> HIDE DEF s, n
<1>7. /\ at + Size(s) > Len(b) => r.next > Len(b)
      /\ at + Size(s) <= Len(b) => r = [values |-> <<s>> \o after.values, next |-> after.next]
  <2>1. s \in Values /\ n \in Nat /\ Matches(b, at, Bytes(s))
    BY <1>1, <1>3, <1>5
  <2> QED
    BY <1>6, <2>1, ValueRead
<1>8. m \in Nat /\ m + Left(v, i + 1) = at + Left(v, i) /\ Len(b) \in Nat
  BY <1>1, <1>2, LenProperties
<1>9. /\ m + Left(v, i + 1) > Len(b) => after.next > Len(b)
      /\ m + Left(v, i + 1) <= Len(b) =>
            after = [values |-> rest, next |-> m + Left(v, i + 1)]
  <2>1. Matches(b, m, Below(v, i + 1)) /\ after = valuesAt(b)[<<m, Len(v.subs) + 1 - (i + 1)>>]
    BY <1>3, <1>5
  <2> HIDE DEF m, after
  <2> QED
    BY <1>8, <2>1 DEF ReadBack
<1> HIDE DEF after, r
<1>10. SubSeq(v.subs, i, Len(v.subs)) = <<s>> \o rest
  BY <1>2, RestOfSeq DEF s
<1>11. CASE at + Size(s) > Len(b)
  <2>1. at + Left(v, i) > Len(b)
    BY <1>1, <1>2, <1>8, <1>11
  <2> QED
    BY <1>1, <1>7, <1>8, <1>11, <2>1 DEF r
<1>12. CASE ~(at + Size(s) > Len(b))
  <2>1. r = [values |-> <<s>> \o after.values, next |-> after.next]
    BY <1>7, <1>8, <1>12
  <2>2. CASE at + Left(v, i) > Len(b)
    <3>1. after.next > Len(b)
      BY <1>8, <1>9, <2>2
    <3>2. r.next = after.next
      BY <2>1
    <3> QED
      BY <1>1, <1>8, <2>2, <3>1, <3>2 DEF r
  <2>3. CASE ~(at + Left(v, i) > Len(b))
    <3>1. after = [values |-> rest, next |-> at + Left(v, i)]
      BY <1>1, <1>8, <1>9, <2>3
    <3> HIDE DEF rest
    <3>2. after.values = rest /\ after.next = at + Left(v, i)
      BY <3>1
    <3>3. r = [values |-> SubSeq(v.subs, i, Len(v.subs)), next |-> at + Left(v, i)]
      BY <1>10, <2>1, <3>2
    <3> QED
      BY <2>3, <3>3 DEF r
  <2> QED
    BY <2>2, <2>3
<1> QED
  BY <1>11, <1>12

\* Every value is read back from its bytes.
LEMMA AllReadBack == \A v \in Values : \A i \in 1..Len(v.subs) + 1 : ReadBack(v, i)
<1> DEFINE P(n) == \A v \in Values : \A i \in 1..Len(v.subs) + 1 : Left(v, i) = n => ReadBack(v, i)
           T == {n \in Nat : ~P(n)}
<1>1. ASSUME NEW v \in Values, NEW i \in 1..Len(v.subs) + 1 PROVE Left(v, i) \in Nat
  <2>1. Len(v.subs) \in Nat
    BY Layout
  <2>2. <<v, i, 0>> \in Buffers /\ LeftAt(<<v, i, 0>>) = Left(v, i)
    BY <2>1 DEF Buffers, LeftAt
  <2> QED
    BY <2>2, LeftNumber
<1>2. ASSUME NEW n \in Nat, \A m \in Nat : m < n => P(m) PROVE P(n)
  <2> SUFFICES ASSUME NEW v \in Values, NEW i \in 1..Len(v.subs) + 1, Left(v, i) = n
               PROVE  ReadBack(v, i)
    OBVIOUS
  <2>1. Len(v.subs) \in Nat
    BY Layout
  <2>2. CASE i = Len(v.subs) + 1
    <3>1. Left(v, i) = 0 /\ Len(v.subs) + 1 - i = 0
      BY <2>1, <2>2 DEF Left
    <3>2. SubSeq(v.subs, i, Len(v.subs)) = <<>>
      BY <2>1, <2>2, SubSeqEmpty
    <3>3. ASSUME NEW b \in Seq(Nat), NEW at \in Nat
          PROVE  valuesAt(b)[<<at, 0>>] = [values |-> <<>>, next |-> at] /\ at + 0 = at
      <4>1. <<at, 0>> \in Reads
        BY DEF Reads
      <4> QED
        BY <4>1, ValuesAtDef DEF ReadBody
    <3>4. \A b \in Seq(Nat), at \in Nat :
             valuesAt(b)[<<at, 0>>] = [values |-> <<>>, next |-> at] /\ at + 0 = at
      BY <3>3
    <3> QED
      BY <3>1, <3>2, <3>4 DEF ReadBack
  <2>3. CASE i # Len(v.subs) + 1
    <3>1. i \in 1..Len(v.subs)
      BY <2>1, <2>3
    <3> DEFINE s == v.subs[i]
    <3>2. /\ s \in Values /\ Left(v, i + 1) \in Nat /\ Left(s, 1) \in Nat
          /\ Left(s, 1) < n /\ Left(v, i + 1) < n
      <4> HIDE DEF s
      <4>1. /\ s \in Values /\ Left(v, i) \in Nat /\ Left(v, i + 1) \in Nat /\ Left(s, 1) \in Nat
            /\ Offset(s, 1) \in Nat /\ Offset(s, 1) > 0 /\ Size(s) = Offset(s, 1) + Left(s, 1)
            /\ Left(v, i) = Size(s) + Left(v, i + 1)
        BY <3>1, LeftStep DEF s
      <4> QED
        BY <4>1
    <3>3. 1 \in 1..Len(s.subs) + 1 /\ i + 1 \in 1..Len(v.subs) + 1
      <4>1. Len(s.subs) \in Nat
        BY <3>2, Layout
      <4> QED
        BY <2>1, <3>1, <4>1
    <3>4. ReadBack(s, 1) /\ ReadBack(v, i + 1)
      <4>1. P(Left(s, 1)) /\ P(Left(v, i + 1))
        BY <1>2, <3>2
      <4> HIDE DEF s
      <4> QED
        BY <3>2, <3>3, <4>1
    <3> QED
      BY <3>1, <3>4, ReadBackStep
  <2> QED
    BY <2>2, <2>3
<1> HIDE DEF P
<1>3. T = {}
  <2> SUFFICES ASSUME T # {} PROVE FALSE
    OBVIOUS
  <2>1. PICK m \in T : \A n \in T : m <= n
    BY LeastNumber
  <2>2. \A n \in Nat : n < m => P(n)
    BY <2>1
  <2> QED
    BY <1>2, <2>2
<1> QED
  BY <1>1, <1>3 DEF P

\* serialize() uses a buffer that is large enough, only then, and as many bytes of it
\* as the value has.
THEOREM Serialises ==
    \A v \in Values :
        /\ Bytes(v) \in Seq(Nat) /\ Len(Bytes(v)) = Size(v)
        /\ \A length \in Nat :
              serialize(v, length) = IF Size(v) <= length THEN Bytes(v) ELSE TooSmall
<1> SUFFICES ASSUME NEW v \in Values
             PROVE  /\ Bytes(v) \in Seq(Nat) /\ Len(Bytes(v)) = Size(v)
                    /\ \A length \in Nat :
                          serialize(v, length) = IF Size(v) <= length THEN Bytes(v) ELSE TooSmall
  OBVIOUS
<1>1. Len(v.subs) \in Nat
  BY Layout
<1>2. FillsRoom(v, 1)
  BY <1>1, AllFillRoom
<1> QED
  BY <1>2, ValueFillsRoom

\* deserialize() gives back the value a buffer begins with and the number of its bytes,
\* whatever follows; and looks beyond the end of a buffer that holds only a part of a
\* value, wherever the value is cut (Value::serialize(), Value::deserialize()).
THEOREM RoundTrip ==
    \A v \in Values, b \in Seq(Nat) :
        Matches(b, 0, Bytes(v)) =>
            IF Size(v) <= Len(b)
            THEN deserialize(b) = [values |-> <<v>>, next |-> Size(v)]
            ELSE deserialize(b).next > Len(b)
<1> SUFFICES ASSUME NEW v \in Values, NEW b \in Seq(Nat), Matches(b, 0, Bytes(v))
             PROVE  IF Size(v) <= Len(b)
                    THEN deserialize(b) = [values |-> <<v>>, next |-> Size(v)]
                    ELSE deserialize(b).next > Len(b)
  OBVIOUS
<1>1. Len(v.subs) \in Nat /\ Size(v) \in Nat /\ Len(b) \in Nat
  BY Layout, LenProperties
<1>2. ReadBack(v, 1)
  BY <1>1, AllReadBack
<1> DEFINE r == valuesAt(b)[<<0, 0 + 1>>]
           after == valuesAt(b)[<<0 + Size(v), 0>>]
<1>3. /\ 0 + Size(v) > Len(b) => r.next > Len(b)
      /\ 0 + Size(v) <= Len(b) => r = [values |-> <<v>> \o after.values, next |-> after.next]
  <2>1. 0 \in Nat
    OBVIOUS
  <2> QED
    BY <1>2, <2>1, ValueRead
<1>4. deserialize(b) = r /\ 0 + Size(v) = Size(v)
  BY <1>1 DEF deserialize
<1>5. after = [values |-> <<>>, next |-> Size(v)]
  <2>1. <<Size(v), 0>> \in Reads /\ after = valuesAt(b)[<<Size(v), 0>>]
    BY <1>1 DEF Reads
  <2> HIDE DEF after
  <2> QED
    BY <2>1, ValuesAtDef DEF ReadBody
<1>6. <<v>> \o <<>> = <<v>>
  BY ConcatEmptySeq
<1> HIDE DEF r, after
<1>7. after.values = <<>> /\ after.next = Size(v)
  BY <1>5
<1> QED
  BY <1>1, <1>3, <1>4, <1>6, <1>7

-----------------------------------------------------------------------------
(* The stream.                                                             *)

\* The value a message is sent as.
ValueOf(dir, m) == IF dir = "request" THEN ToValue(m) ELSE m

\* What the receiver makes of it.
MessageOf(dir, m) == IF dir = "request" THEN ToValue(m) ELSE ToPyObject(m)

\* The bytes x are at offset at of the stream.
Carries(stream, at, x) ==
    /\ at + Len(x) <= Len(stream)
    /\ \A k \in 1..Len(x) : stream[at + k] = x[k]

\* The stream is the bytes of the messages after the first done ones, one message after
\* the other: off says where each ends.
Follows(dir, stream, messages, done, off) ==
    /\ off \in [done..Len(messages) -> Nat]
    /\ off[done] = 0 /\ off[Len(messages)] = Len(stream)
    /\ \A i, j \in done..Len(messages) : i <= j => off[i] <= off[j]
    /\ \A i \in done + 1..Len(messages) :
          /\ off[i] = off[i - 1] + Size(ValueOf(dir, messages[i]))
          /\ Carries(stream, off[i - 1], Bytes(ValueOf(dir, messages[i])))

\* Offsets within two stretches.
LEMMA WithinBoth ==
    ASSUME NEW at \in Nat, NEW by \in Nat, NEW lx \in Nat, NEW ls \in Nat, NEW lt \in Nat,
           NEW k \in 1..lx, (at + by) + lx <= ls, at + lx <= lt
    PROVE  at + k \in 1..lt /\ (at + k) + by <= ls /\ (at + k) + by = (at + by) + k
  OBVIOUS

\* Ends of a stretch, counted from further on.
LEMMA ShiftedEnds ==
    ASSUME NEW at \in Nat, NEW end \in Nat, NEW size \in Nat, NEW l \in Nat, NEW lr \in Nat,
           size <= at, end = at + l, end - size <= lr
    PROVE  /\ at - size \in Nat /\ (at - size) + size = at
           /\ (at - size) + l <= lr /\ end - size = (at - size) + l
  OBVIOUS

\* Bytes are carried by every stretch of the stream that holds them all.
LEMMA CarriesElsewhere ==
    ASSUME NEW s \in Seq(Nat), NEW t \in Seq(Nat), NEW at \in Nat, NEW by \in Nat,
           NEW x \in Seq(Nat), Carries(s, at + by, x), at + Len(x) <= Len(t),
           \A k \in 1..Len(t) : k + by <= Len(s) => t[k] = s[k + by]
    PROVE  Carries(t, at, x)
<1> DEFINE ls == Len(s)
           lt == Len(t)
           lx == Len(x)
<1>1. ls \in Nat /\ lt \in Nat /\ lx \in Nat
  BY LenProperties
<1>2. /\ (at + by) + lx <= ls /\ at + lx <= lt
      /\ \A k \in 1..lx : s[(at + by) + k] = x[k]
      /\ \A k \in 1..lt : k + by <= ls => t[k] = s[k + by]
  BY DEF Carries
<1> HIDE DEF ls, lt, lx
<1>3. ASSUME NEW k \in 1..lx PROVE t[at + k] = x[k]
  <2>1. at + k \in 1..lt /\ (at + k) + by <= ls /\ (at + k) + by = (at + by) + k
    BY <1>1, <1>2, WithinBoth
  <2>2. t[at + k] = s[(at + k) + by]
    BY <1>2, <2>1
  <2> QED
    BY <1>2, <2>1, <2>2
<1> QED
  BY <1>2, <1>3 DEF Carries, ls, lt, lx

\* A message more at the end of the stream.
LEMMA FollowsSent ==
    ASSUME NEW dir, NEW S, \A m \in S : ValueOf(dir, m) \in Values,
           NEW messages \in Seq(S), NEW m \in S,
           NEW done \in Nat, done <= Len(messages), NEW stream \in Seq(Nat), NEW off,
           Follows(dir, stream, messages, done, off)
    PROVE  \E o : Follows(dir, stream \o Bytes(ValueOf(dir, m)), Append(messages, m), done, o)
<1> DEFINE n == Len(messages)
           x == Bytes(ValueOf(dir, m))
           more == Append(messages, m)
           longer == stream \o x
           o == [i \in done..n + 1 |-> IF i = n + 1 THEN Len(longer) ELSE off[i]]
<1>1. n \in Nat /\ x \in Seq(Nat) /\ Len(x) = Size(ValueOf(dir, m))
  BY LenProperties, Serialises
<1>2. /\ Len(more) = n + 1 /\ more[n + 1] = m
      /\ \A i \in 1..n : more[i] = messages[i]
  BY AppendProperties
<1> HIDE DEF x, more
<1>3. /\ longer \in Seq(Nat) /\ Len(longer) = Len(stream) + Len(x)
      /\ Len(stream) \in Nat /\ Len(x) \in Nat
      /\ \A k \in 1..Len(stream) : longer[k] = stream[k]
      /\ \A k \in 1..Len(x) : longer[Len(stream) + k] = x[k]
  BY <1>1, Joined
<1> HIDE DEF longer, n
<1>4. /\ off \in [done..n -> Nat] /\ off[done] = 0 /\ off[n] = Len(stream)
      /\ \A i, j \in done..n : i <= j => off[i] <= off[j]
      /\ \A i \in done + 1..n :
            /\ off[i] = off[i - 1] + Size(ValueOf(dir, messages[i]))
            /\ Carries(stream, off[i - 1], Bytes(ValueOf(dir, messages[i])))
  BY DEF Follows, n
<1>5. done <= n /\ n + 1 \in done..n + 1 /\ n \in done..n
  BY <1>1 DEF n
<1>6. /\ o \in [done..n + 1 -> Nat]
      /\ o[n + 1] = Len(longer)
      /\ \A i \in done..n : o[i] = off[i] /\ i \in done..n + 1
      /\ \A i \in done..n + 1 : i \in done..n \/ i = n + 1
  BY <1>1, <1>3, <1>4, <1>5
<1> HIDE DEF o
<1>7. ASSUME NEW i \in done..n + 1, NEW j \in done..n + 1, i <= j PROVE o[i] <= o[j]
  <2>1. \A k \in done..n : off[k] \in Nat /\ off[k] <= Len(stream)
    BY <1>1, <1>4, <1>5
  <2>2. CASE j = n + 1
    <3>1. CASE i = n + 1
      BY <1>3, <1>6, <2>2, <3>1
    <3>2. CASE i \in done..n
      <4>1. o[i] = off[i] /\ off[i] \in Nat /\ off[i] <= Len(stream) /\ o[j] = Len(longer)
        BY <1>6, <2>1, <2>2, <3>2
      <4> QED
        BY <1>3, <4>1
    <3> QED
      BY <1>6, <3>1, <3>2
  <2>3. CASE j \in done..n
    <3>1. i \in done..n
      BY <1>1, <1>7, <2>3
    <3> QED
      BY <1>4, <1>6, <1>7, <2>3, <3>1
  <2> QED
    BY <1>6, <2>2, <2>3
<1>8. ASSUME NEW i \in done + 1..n + 1
      PROVE  /\ o[i] = o[i - 1] + Size(ValueOf(dir, more[i]))
             /\ Carries(longer, o[i - 1], Bytes(ValueOf(dir, more[i])))
  <2>1. CASE i = n + 1
    <3>1. o[i - 1] = Len(stream) /\ o[i] = Len(stream) + Len(x)
      <4>1. i - 1 = n
        BY <1>1, <2>1
      <4> QED
        BY <1>3, <1>4, <1>5, <1>6, <2>1, <4>1
    <3>2. Carries(longer, Len(stream), x)
      BY <1>3 DEF Carries
    <3> QED
      BY <1>1, <1>2, <2>1, <3>1, <3>2 DEF x
  <2>2. CASE i # n + 1
    <3>1. i \in done + 1..n /\ i \in done..n /\ i - 1 \in done..n /\ i \in 1..n
      BY <1>1, <2>2
    <3>2. /\ off[i] = off[i - 1] + Size(ValueOf(dir, messages[i]))
          /\ Carries(stream, off[i - 1], Bytes(ValueOf(dir, messages[i])))
      BY <1>4, <3>1
    <3>3. off[i - 1] \in Nat /\ o[i] = off[i] /\ o[i - 1] = off[i - 1] /\ more[i] = messages[i]
      BY <1>2, <1>4, <1>6, <3>1
    <3> DEFINE y == Bytes(ValueOf(dir, messages[i]))
               at == off[i - 1]
    <3>4. y \in Seq(Nat) /\ Len(y) \in Nat
      <4>1. messages[i] \in S
        BY <3>1, ElementOfSeq DEF n
      <4> QED
        BY <4>1, Serialises, LenProperties
    <3>5. at + 0 = at /\ at + Len(y) <= Len(stream)
      BY <3>2, <3>3, <3>4 DEF Carries
    <3> HIDE DEF y
    <3>6. at + Len(y) <= Len(longer)
      BY <1>3, <3>3, <3>4, <3>5
    <3>7. \A k \in 1..Len(longer) : k + 0 <= Len(stream) => longer[k] = stream[k + 0]
      BY <1>3
    <3>8. Carries(longer, at, y)
      BY <1>3, <3>2, <3>3, <3>4, <3>5, <3>6, <3>7, CarriesElsewhere DEF y
    <3> QED
      BY <3>2, <3>3, <3>8 DEF y
  <2> QED
    BY <2>1, <2>2
<1>9. Follows(dir, longer, more, done, o)
  BY <1>2, <1>4, <1>5, <1>6, <1>7, <1>8 DEF Follows
<1> QED
  BY <1>9 DEF longer, x, more

\* The last message is taken back, with all its bytes.
LEMMA FollowsTakenBack ==
    ASSUME NEW dir, NEW S, \A m \in S : ValueOf(dir, m) \in Values,
           NEW messages \in Seq(S), messages # <<>>,
           NEW done \in Nat, done <= Len(messages),
           NEW stream \in Seq(Nat), NEW x \in Seq(Nat), x # <<>>,
           Len(x) = Size(ValueOf(dir, messages[Len(messages)])),
           NEW off, Follows(dir, stream \o x, messages, done, off)
    PROVE  /\ Front(messages) \in Seq(S) /\ Len(Front(messages)) = Len(messages) - 1
           /\ \A i \in 1..Len(messages) - 1 : Front(messages)[i] = messages[i]
           /\ done <= Len(Front(messages))
           /\ \E o : Follows(dir, stream, Front(messages), done, o)
<1> DEFINE n == Len(messages)
           fewer == Front(messages)
           longer == stream \o x
<1>1. n \in Nat /\ n # 0
  BY LenProperties, EmptySeq
<1>2. /\ Len(fewer) = n - 1 /\ (\A i \in 1..n - 1 : fewer[i] = messages[i])
      /\ fewer \in Seq(S)
  <2>1. \A i \in 1..n - 1 : messages[i] \in S
    BY <1>1, ElementOfSeq
  <2>2. /\ Len(fewer) = IF 1 <= n - 1 THEN (n - 1) - 1 + 1 ELSE 0
        /\ \A i \in 1..(n - 1) - 1 + 1 : fewer[i] = messages[1 + i - 1]
        /\ fewer \in Seq(S)
    BY <1>1, <2>1, SubSeqProperties DEF Front
  <2> HIDE DEF n, fewer
  <2> QED
    BY <1>1, <2>2
<1>3. /\ Len(longer) = Len(stream) + Len(x) /\ Len(stream) \in Nat /\ Len(x) \in Nat /\ Len(x) # 0
      /\ longer \in Seq(Nat)
      /\ \A k \in 1..Len(stream) : longer[k] = stream[k]
  BY Joined, EmptySeq
<1> HIDE DEF fewer, longer
<1>4. /\ off \in [done..n -> Nat] /\ off[done] = 0 /\ off[n] = Len(longer)
      /\ \A i, j \in done..n : i <= j => off[i] <= off[j]
      /\ \A i \in done + 1..n :
            /\ off[i] = off[i - 1] + Size(ValueOf(dir, messages[i]))
            /\ Carries(longer, off[i - 1], Bytes(ValueOf(dir, messages[i])))
  BY DEF Follows, longer
<1>5. done <= n
  OBVIOUS
<1>6. Len(x) = Size(ValueOf(dir, messages[n]))
  OBVIOUS
<1>0. \A i \in 1..n : messages[i] \in S
  BY ElementOfSeq
<1> HIDE DEF n
<1>7. done # n
  BY <1>3, <1>4
<1>8. done <= n - 1 /\ n \in done + 1..n /\ n - 1 \in done..n - 1
  BY <1>1, <1>5, <1>7
<1>9. off[n - 1] = Len(stream)
  <2>1. off[n] = off[n - 1] + Len(x) /\ off[n - 1] \in Nat
    BY <1>1, <1>4, <1>6, <1>8
  <2> QED
    BY <1>3, <1>4, <2>1
<1> DEFINE o == [i \in done..n - 1 |-> off[i]]
<1>10. /\ o \in [done..n - 1 -> Nat] /\ o[done] = 0 /\ o[n - 1] = Len(stream)
       /\ \A i \in done..n - 1 : o[i] = off[i] /\ i \in done..n /\ off[i] \in Nat
       /\ \A i, j \in done..n - 1 : i <= j => o[i] <= o[j]
  BY <1>1, <1>4, <1>8, <1>9
<1> HIDE DEF o
<1>11. ASSUME NEW i \in done + 1..n - 1
       PROVE  /\ o[i] = o[i - 1] + Size(ValueOf(dir, fewer[i]))
              /\ Carries(stream, o[i - 1], Bytes(ValueOf(dir, fewer[i])))
  <2>1. /\ i \in done + 1..n /\ i \in done..n - 1 /\ i - 1 \in done..n - 1 /\ i \in 1..n - 1
        /\ i \in 1..n
    BY <1>1
  <2>2. /\ off[i] = off[i - 1] + Size(ValueOf(dir, messages[i]))
        /\ Carries(longer, off[i - 1], Bytes(ValueOf(dir, messages[i])))
    BY <1>4, <2>1
  <2>3. /\ o[i] = off[i] /\ o[i - 1] = off[i - 1] /\ fewer[i] = messages[i]
        /\ off[i - 1] \in Nat /\ off[i] <= Len(stream)
    BY <1>2, <1>10, <1>8, <2>1
  <2> DEFINE y == Bytes(ValueOf(dir, messages[i]))
             at == off[i - 1]
  <2>4. y \in Seq(Nat) /\ Len(y) = Size(ValueOf(dir, messages[i]))
    BY <1>0, <2>1, Serialises
  <2>5. at + 0 = at /\ at + Len(y) <= Len(stream)
    BY <2>2, <2>3, <2>4
  <2>6. \A k \in 1..Len(stream) : k + 0 <= Len(longer) => stream[k] = longer[k + 0]
    BY <1>3
  <2> HIDE DEF y
  <2>7. Carries(stream, at, y)
    BY <1>3, <2>2, <2>3, <2>4, <2>5, <2>6, CarriesElsewhere DEF y
  <2> QED
    BY <2>2, <2>3, <2>7 DEF y
<1>12. Follows(dir, stream, fewer, done, o)
  BY <1>2, <1>8, <1>10, <1>11 DEF Follows
<1> QED
  BY <1>2, <1>8, <1>12 DEF n, fewer

\* The first message is taken from the front of the stream.
LEMMA FollowsTaken ==
    ASSUME NEW dir, NEW S, \A m \in S : ValueOf(dir, m) \in Values,
           NEW messages \in Seq(S), NEW done \in Nat, done < Len(messages),
           NEW stream \in Seq(Nat), NEW rest \in Seq(Nat), NEW size \in Nat,
           size = Size(ValueOf(dir, messages[done + 1])),
           Len(rest) + size = Len(stream), \A k \in 1..Len(rest) : rest[k] = stream[k + size],
           NEW off, Follows(dir, stream, messages, done, off)
    PROVE  \E o : Follows(dir, rest, messages, done + 1, o)
<1> DEFINE n == Len(messages)
<1>1. n \in Nat /\ Len(stream) \in Nat /\ Len(rest) \in Nat
  BY LenProperties
<1>2. /\ off \in [done..n -> Nat] /\ off[done] = 0 /\ off[n] = Len(stream)
      /\ \A i, j \in done..n : i <= j => off[i] <= off[j]
      /\ \A i \in done + 1..n :
            /\ off[i] = off[i - 1] + Size(ValueOf(dir, messages[i]))
            /\ Carries(stream, off[i - 1], Bytes(ValueOf(dir, messages[i])))
  BY DEF Follows
<1>3. done < n /\ \A i \in 1..n : messages[i] \in S
  BY ElementOfSeq
<1> HIDE DEF n
<1>4. /\ done + 1 \in done + 1..n /\ done + 1 \in done..n /\ (done + 1) - 1 = done
      /\ n \in done..n /\ n \in done + 1..n
  BY <1>1, <1>3
<1>5. off[done + 1] = size
  BY <1>2, <1>4
<1>6. \A i \in done + 1..n : i \in done..n /\ off[i] \in Nat /\ size <= off[i]
  <2> SUFFICES ASSUME NEW i \in done + 1..n PROVE i \in done..n /\ off[i] \in Nat /\ size <= off[i]
    OBVIOUS
  <2>1. i \in done..n /\ done + 1 <= i
    BY <1>1
  <2> QED
    BY <1>2, <1>4, <1>5, <2>1
<1> DEFINE o == [i \in done + 1..n |-> off[i] - size]
<1>7. /\ o \in [done + 1..n -> Nat]
      /\ \A i \in done + 1..n : o[i] = off[i] - size
  BY <1>6
<1> HIDE DEF o
<1>8. o[done + 1] = 0 /\ o[n] = Len(rest)
  BY <1>1, <1>2, <1>4, <1>5, <1>7
<1>9. ASSUME NEW i \in done + 1..n, NEW j \in done + 1..n, i <= j PROVE o[i] <= o[j]
  <2>1. off[i] <= off[j] /\ off[i] \in Nat /\ off[j] \in Nat
    BY <1>2, <1>6, <1>9
  <2> QED
    BY <1>7, <2>1
<1>10. ASSUME NEW i \in (done + 1) + 1..n
       PROVE  /\ o[i] = o[i - 1] + Size(ValueOf(dir, messages[i]))
              /\ Carries(rest, o[i - 1], Bytes(ValueOf(dir, messages[i])))
  <2>1. i \in done + 1..n /\ i - 1 \in done + 1..n /\ i \in 1..n
    BY <1>1
  <2> DEFINE y == Bytes(ValueOf(dir, messages[i]))
             at == o[i - 1]
  <2>2. y \in Seq(Nat) /\ Len(y) = Size(ValueOf(dir, messages[i])) /\ Len(y) \in Nat
    BY <1>3, <2>1, Serialises, LenProperties
  <2>3. off[i] = off[i - 1] + Len(y) /\ Carries(stream, off[i - 1], y)
    BY <1>2, <2>1, <2>2
  <2> HIDE DEF y
  <2>4. /\ at = off[i - 1] - size /\ off[i - 1] \in Nat /\ o[i] = off[i] - size
        /\ size <= off[i - 1] /\ off[i] \in Nat
    BY <1>6, <1>7, <2>1
  <2>5. off[i] - size <= Len(rest)
    BY <1>4, <1>8, <1>9, <2>1, <2>4
  <2>6. /\ at \in Nat /\ at + size = off[i - 1]
        /\ at + Len(y) <= Len(rest) /\ o[i] = at + Len(y)
    <3> HIDE DEF at
    <3> DEFINE p == off[i - 1]
               q == off[i]
               l == Len(y)
               lr == Len(rest)
    <3>1. /\ p \in Nat /\ q \in Nat /\ l \in Nat /\ lr \in Nat
          /\ size <= p /\ q = p + l /\ q - size <= lr
      BY <1>1, <2>2, <2>3, <2>4, <2>5
    <3> HIDE DEF p, q, l, lr
    <3>2. /\ p - size \in Nat /\ (p - size) + size = p
          /\ (p - size) + l <= lr /\ q - size = (p - size) + l
      BY <3>1, ShiftedEnds
    <3> QED
      BY <2>4, <3>2 DEF p, q, l, lr
  <2> HIDE DEF at
  <2>7. Carries(rest, at, y)
    <3>1. Carries(stream, at + size, y)
      BY <2>3, <2>6
    <3>2. \A k \in 1..Len(rest) : k + size <= Len(stream) => rest[k] = stream[k + size]
      OBVIOUS
    <3> QED
      BY <2>2, <2>4, <2>6, <3>1, <3>2, CarriesElsewhere
  <2> QED
    BY <2>2, <2>6, <2>7 DEF at, y
<1>11. Follows(dir, rest, messages, done + 1, o)
  BY <1>7, <1>8, <1>9, <1>10 DEF Follows, n
<1> QED
  BY <1>11

-----------------------------------------------------------------------------
(* The buffer of send().                                                   *)

\* Every value has bytes.
LEMMA SizeIsPositive ==
    ASSUME NEW v \in Values
    PROVE  Size(v) \in Nat \ {0}
<1>1. /\ Len(v.subs) \in Nat /\ Len(v.key) \in Nat /\ Len(v.content) \in Nat
      /\ Offset(v, 1) = 3 * WordSize + Len(v.key) + Len(v.content)
      /\ WordSize \in Nat /\ WordSize # 0 /\ Size(v) \in Nat
  BY Layout, ValueAssumption
<1>2. 1 \in 1..Len(v.subs) + 1
  BY <1>1
<1>3. Offset(v, 1) <= Size(v)
  BY <1>1, <1>2, OffsetsGrow
<1>4. Offset(v, 1) \in Nat /\ Offset(v, 1) > 0
  <2>1. 3 * WordSize \in Nat /\ 3 * WordSize > 0
    BY ValueAssumption
  <2>2. /\ Offset(v, 1) = 3 * WordSize + Len(v.key) + Len(v.content)
        /\ Len(v.key) \in Nat /\ Len(v.content) \in Nat
    BY Layout
  <2> QED
    BY <2>1, <2>2
<1> QED
  BY <1>1, <1>3, <1>4

\* A number of buffers is as large as the number, at least.
LEMMA ManyBuffers ==
    \A n \in Nat : n * BufferStep \in Nat /\ n <= n * BufferStep
<1> DEFINE S == {n \in Nat : n * BufferStep \in Nat /\ n <= n * BufferStep}
<1>1. BufferStep \in Nat /\ BufferStep >= 1
  BY PacketsAssumption
<1>2. 0 \in S
  BY <1>1
<1>3. ASSUME NEW n \in Nat, n \in S PROVE n + 1 \in S
  <2>1. (n + 1) * BufferStep = n * BufferStep + BufferStep
    BY <1>1
  <2> QED
    BY <1>1, <1>3, <2>1
<1>4. Nat \subseteq S
  <2> HIDE DEF S
  <2> QED
    BY <1>2, <1>3, SetInduction
<1> QED
  BY <1>4

\* send() ends with the smallest buffer that is large enough, and the whole value in it.
LEMMA Fits ==
    ASSUME NEW v \in Values
    PROVE  /\ Fitting(v) \in Nat /\ Size(v) \in Nat \ {0}
           /\ Size(v) <= Fitting(v) /\ Fitting(v) - BufferStep < Size(v)
           /\ serialize(v, Fitting(v)) = Bytes(v)
<1> DEFINE P(n) == /\ serialize(v, n * BufferStep) # TooSmall
                   /\ \A k \in 1..n - 1 : serialize(v, k * BufferStep) = TooSmall
           T == {n \in Nat : n # 0 /\ Size(v) <= n * BufferStep}
           c == CHOOSE n \in 1..Size(v) : P(n)
<1>1. Size(v) \in Nat \ {0}
  BY SizeIsPositive
<1>2. BufferStep \in Nat /\ BufferStep >= 1
  BY PacketsAssumption
<1>3. \A n \in Nat : serialize(v, n * BufferStep) =
                        IF Size(v) <= n * BufferStep THEN Bytes(v) ELSE TooSmall
  BY ManyBuffers, Serialises
<1>4. Bytes(v) # TooSmall
  BY Serialises, SeqFacts
<1>5. Size(v) \in T
  BY <1>1, ManyBuffers
<1>6. PICK m \in T : \A n \in T : m <= n
  BY <1>5, LeastNumber
<1>7. m \in Nat /\ m # 0 /\ Size(v) <= m * BufferStep /\ m <= Size(v)
  BY <1>5, <1>6
<1>8. P(m)
  <2>1. serialize(v, m * BufferStep) # TooSmall
    BY <1>3, <1>4, <1>7
  <2>2. ASSUME NEW k \in 1..m - 1 PROVE serialize(v, k * BufferStep) = TooSmall
    <3>1. k \in Nat /\ k # 0 /\ ~(m <= k)
      BY <1>7
    <3>2. k \notin T
      BY <1>6, <3>1
    <3> QED
      BY <1>3, <3>1, <3>2
  <2> QED
    BY <2>1, <2>2
<1>9. m \in 1..Size(v)
  BY <1>1, <1>7
<1>10. c \in 1..Size(v) /\ P(c)
  <2> HIDE DEF P
  <2> QED
    BY <1>8, <1>9
<1>11. Fitting(v) = c * BufferStep
  BY DEF Fitting
<1> HIDE DEF c
<1>12. c \in Nat /\ c # 0 /\ c - 1 \in Nat
  BY <1>1, <1>10
<1>13. c * BufferStep \in Nat /\ Size(v) <= c * BufferStep /\ serialize(v, c * BufferStep) = Bytes(v)
  BY <1>3, <1>10, <1>12, ManyBuffers
<1>14. (c - 1) * BufferStep < Size(v)
  <2>1. CASE c = 1
    <3>1. (c - 1) * BufferStep = 0
      BY <1>2, <2>1
    <3> QED
      BY <1>1, <3>1
  <2>2. CASE c # 1
    <3>1. c - 1 \in 1..c - 1
      BY <1>12, <2>2
    <3>2. serialize(v, (c - 1) * BufferStep) = TooSmall
      BY <1>10, <3>1
    <3>3. ~(Size(v) <= (c - 1) * BufferStep)
      BY <1>3, <1>4, <1>12, <3>2
    <3>4. (c - 1) * BufferStep \in Nat
      BY <1>12, ManyBuffers
    <3> QED
      BY <1>1, <3>3, <3>4
  <2> QED
    BY <2>1, <2>2
<1>15. (c - 1) * BufferStep = c * BufferStep - BufferStep
  BY <1>2, <1>12
<1> QED
  BY <1>1, <1>11, <1>13, <1>14, <1>15

-----------------------------------------------------------------------------
(* Pieces of the stream.                                                   *)

\* The first n bytes of a stream.
LEMMA Beginning ==
    ASSUME NEW s \in Seq(Nat), NEW n \in 0..Len(s)
    PROVE  /\ SubSeq(s, 1, n) \in Seq(Nat) /\ Len(SubSeq(s, 1, n)) = n
           /\ \A k \in 1..n : SubSeq(s, 1, n)[k] = s[k]
<1>1. Len(s) \in Nat /\ \A k \in 1..n : s[k] \in Nat
  <2>1. Len(s) \in Nat
    BY LenProperties
  <2>2. \A k \in 1..n : k \in 1..Len(s)
    BY <2>1
  <2> QED
    BY <2>1, <2>2, ElementOfSeq
<1> DEFINE t == SubSeq(s, 1, n)
<1>2. /\ t \in Seq(Nat) /\ Len(t) = IF 1 <= n THEN n - 1 + 1 ELSE 0
      /\ \A k \in 1..n - 1 + 1 : t[k] = s[1 + k - 1]
  <2>1. 1 \in Int /\ n \in Int
    BY <1>1
  <2> QED
    BY <1>1, <2>1, SubSeqProperties
<1> HIDE DEF t
<1>3. n \in Nat
  BY <1>1
<1>4. Len(t) = n
  BY <1>2, <1>3
<1>5. ASSUME NEW k \in 1..n PROVE t[k] = s[k]
  <2>1. k \in 1..n - 1 + 1 /\ 1 + k - 1 = k
    BY <1>3
  <2> QED
    BY <1>2, <2>1
<1> QED
  BY <1>2, <1>4, <1>5 DEF t

\* What is left of a stream without its first n bytes.
LEMMA Remainder ==
    ASSUME NEW s \in Seq(Nat), NEW n \in 0..Len(s)
    PROVE  /\ SubSeq(s, n + 1, Len(s)) \in Seq(Nat) /\ Len(SubSeq(s, n + 1, Len(s))) = Len(s) - n
           /\ \A k \in 1..Len(s) - n : SubSeq(s, n + 1, Len(s))[k] = s[k + n]
<1> DEFINE l == Len(s)
           t == SubSeq(s, n + 1, l)
<1>1. l \in Nat /\ n \in Nat /\ n <= l
  BY LenProperties
<1>2. \A k \in 1..l : s[k] \in Nat
  BY ElementOfSeq
<1> HIDE DEF l
<1>3. \A k \in n + 1..l : s[k] \in Nat
  <2>1. \A k \in n + 1..l : k \in 1..l
    BY <1>1
  <2> QED
    BY <1>2, <2>1
<1>4. /\ t \in Seq(Nat) /\ Len(t) = IF n + 1 <= l THEN l - (n + 1) + 1 ELSE 0
      /\ \A k \in 1..l - (n + 1) + 1 : t[k] = s[(n + 1) + k - 1]
  <2>1. n + 1 \in Int /\ l \in Int
    BY <1>1
  <2> QED
    BY <1>3, <2>1, SubSeqProperties
<1> HIDE DEF t
<1>5. Len(t) = l - n
  BY <1>1, <1>4
<1>6. ASSUME NEW k \in 1..l - n PROVE t[k] = s[k + n]
  <2>1. k \in 1..l - (n + 1) + 1 /\ (n + 1) + k - 1 = k + n
    BY <1>1
  <2> QED
    BY <1>4, <2>1
<1> QED
  BY <1>4, <1>5, <1>6 DEF t, l

\* Three sequences of bytes, one after the other.
LEMMA Grouped ==
    \A x, y, z \in Seq(Nat) : (x \o y) \o z = x \o (y \o z)
  BY ConcatAssociative

\* Bytes that move from the sender's buffer to the connection leave the stream as it is.
LEMMA Moved ==
    ASSUME NEW w \in Seq(Nat), NEW u \in Seq(Nat), NEW n \in 1..Len(u)
    PROVE  /\ w \o SubSeq(u, 1, n) \in Seq(Nat) /\ SubSeq(u, n + 1, Len(u)) \in Seq(Nat)
           /\ Len(w \o SubSeq(u, 1, n)) = Len(w) + n
           /\ Len(SubSeq(u, n + 1, Len(u))) = Len(u) - n
           /\ \A k \in 1..Len(w) : (w \o SubSeq(u, 1, n))[k] = w[k]
           /\ (w \o SubSeq(u, 1, n)) \o SubSeq(u, n + 1, Len(u)) = w \o u
<1> DEFINE lu == Len(u)
           a == SubSeq(u, 1, n)
           b == SubSeq(u, n + 1, lu)
<1>1. lu \in Nat /\ Len(w) \in Nat
  BY LenProperties
<1>2. n \in 0..lu
  BY <1>1
<1>3. /\ a \in Seq(Nat) /\ Len(a) = n /\ \A k \in 1..n : a[k] = u[k]
      /\ b \in Seq(Nat) /\ Len(b) = lu - n /\ \A k \in 1..lu - n : b[k] = u[k + n]
  BY <1>2, Beginning, Remainder
<1>4. n \in Nat /\ n <= lu /\ n >= 1
  BY <1>1
<1>5. u \in Seq(Nat)
  OBVIOUS
<1> HIDE DEF a, b
<1>6. a \o b = u
  <2>1. a \o b \in Seq(Nat) /\ Len(a \o b) = n + (lu - n)
    BY <1>3, Joined
  <2>2. n + (lu - n) = lu
    BY <1>1, <1>4
  <2>3. ASSUME NEW k \in 1..lu PROVE (a \o b)[k] = u[k]
    <3>1. CASE k <= n
      <4>1. k \in 1..n
        BY <1>1, <1>4, <3>1
      <4> QED
        BY <1>3, <4>1, Joined
    <3>2. CASE ~(k <= n)
      <4>1. k - n \in 1..lu - n /\ n + (k - n) = k /\ (k - n) + n = k
        BY <1>1, <1>4, <3>2
      <4>2. (a \o b)[n + (k - n)] = b[k - n]
        <5> DEFINE j == k - n
        <5>1. j \in 1..Len(b)
          BY <1>3, <4>1
        <5> HIDE DEF j
        <5>2. (a \o b)[Len(a) + j] = b[j]
          BY <1>3, <5>1, Joined
        <5> QED
          BY <1>3, <5>2 DEF j
      <4> QED
        BY <1>3, <4>1, <4>2
    <3> QED
      BY <3>1, <3>2
  <2> QED
    BY <1>5, <2>1, <2>2, <2>3, SeqEqual
<1>7. (w \o a) \o b = w \o u
  <2>0. w \in Seq(Nat) /\ a \in Seq(Nat) /\ b \in Seq(Nat)
    BY <1>3
  <2>1. (w \o a) \o b = w \o (a \o b)
    BY <2>0, Grouped, Zenon
  <2> QED
    BY <1>6, <2>1
<1> QED
  BY <1>3, <1>7, Joined DEF a, b

-----------------------------------------------------------------------------
(* The inductive invariant.                                                *)

\* Types, and a buffer never holds more than its size.
Types ==
    /\ direction \in {"request", "answer"} /\ cut \in BOOLEAN
    /\ sent \in Seq(Outgoing) /\ got \in Seq({MessageOf(direction, m) : m \in Outgoing})
    /\ wire \in Seq(Nat) /\ unsent \in Seq(Nat) /\ arrived \in 0..Len(wire)
    /\ recvBuffer \in Nat /\ peeked \in Nat /\ peeked <= recvBuffer

\* What was received is what was sent first.
InOrder ==
    /\ Len(got) <= Len(sent)
    /\ \A i \in 1..Len(got) : got[i] = MessageOf(direction, sent[i])

\* What is on its way is the rest, in the bytes of whole messages.
OnItsWay == ~cut => \E off : Follows(direction, wire \o unsent, sent, Len(got), off)

\* What send() has not written yet is of the last message.
Sending ==
    unsent # <<>> =>
        /\ sent # <<>> /\ sendBuffer = Fitting(AsValue(Last(sent)))
        /\ Len(unsent) <= Size(AsValue(Last(sent)))

\* What receive() looks at is the beginning of what has arrived.
Looking ==
    recvBuffer # 0 =>
        /\ peeked \in 1..arrived
        /\ seen = deserialize(SubSeq(wire, 1, peeked))

\* All of it.
Intact == Types /\ InOrder /\ OnItsWay /\ Sending /\ Looking

\* Every message that may be sent is a value, or made into one.
LEMMA Messages ==
    ASSUME direction \in {"request", "answer"}
    PROVE  \A m \in Outgoing :
              /\ ValueOf(direction, m) \in Values /\ AsValue(m) = ValueOf(direction, m)
              /\ MessageOf(direction, m) = AsMessage(AsValue(m))
  BY PacketsAssumption DEF Outgoing, ValueOf, MessageOf, AsValue, AsMessage

\* The connection begins with nothing.
LEMMA IntactInit == Init => Intact
<1> SUFFICES ASSUME Init PROVE Intact
  OBVIOUS
<1>1. Types
  <2> DEFINE received == {MessageOf(direction, m) : m \in Outgoing}
  <2>1. <<>> \in Seq(received) /\ <<>> \in Seq(Outgoing) /\ <<>> \in Seq(Nat) /\ Len(<<>>) = 0
    BY EmptySeq
  <2>2. 0 \in 0..0 /\ 0 <= 0 /\ 0 \in Nat
    OBVIOUS
  <2> HIDE DEF received
  <2>3. /\ direction \in {"request", "answer"} /\ cut \in BOOLEAN
        /\ sent \in Seq(Outgoing) /\ got \in Seq(received)
        /\ wire \in Seq(Nat) /\ unsent \in Seq(Nat) /\ arrived \in 0..Len(wire)
        /\ recvBuffer \in Nat /\ peeked \in Nat /\ peeked <= recvBuffer
    BY <2>1, <2>2 DEF Init
  <2> QED
    BY <2>3 DEF Types, received
<1>2. InOrder /\ Sending /\ Looking
  <2>1. got = <<>> /\ sent = <<>> /\ unsent = <<>> /\ recvBuffer = 0
    BY DEF Init
  <2>2. Len(<<>>) = 0 /\ 1..0 = {} /\ 0 <= 0
    OBVIOUS
  <2>3. InOrder
    BY <2>1, <2>2 DEF InOrder
  <2> QED
    BY <2>1, <2>3 DEF Sending, Looking
<1>3. OnItsWay
  <2> DEFINE off == [i \in 0..0 |-> 0]
             none == <<>> \o <<>>
  <2>1. none = <<>> /\ Len(<<>>) = 0
    OBVIOUS
  <2> HIDE DEF none
  <2>2. off \in [0..0 -> Nat] /\ off[0] = 0 /\ \A i, j \in 0..0 : off[i] <= off[j]
    OBVIOUS
  <2>3. 0 + 1..0 = {}
    OBVIOUS
  <2> HIDE DEF off
  <2>4. Follows(direction, none, <<>>, 0, off)
    BY <2>1, <2>2, <2>3 DEF Follows
  <2> QED
    BY <2>1, <2>4 DEF Init, OnItsWay, none
<1> QED
  BY <1>1, <1>2, <1>3 DEF Intact

\* A step that changes nothing.
LEMMA IntactStutter == Intact /\ UNCHANGED vars => Intact'
  BY DEF Intact, Types, InOrder, OnItsWay, Sending, Looking, vars, senderVars, receiverVars,
         Outgoing, AsValue

\* send() of a message.
LEMMA IntactSend ==
    ASSUME Intact, NEW m \in Outgoing, Send(m)
    PROVE  Intact'
<1>1. Types /\ InOrder /\ OnItsWay /\ Looking
  BY DEF Intact
<1>2. /\ UNCHANGED <<direction, wire, arrived, closed, recvBuffer, peeked, seen, got, ended, cut>>
      /\ ~cut /\ unsent = <<>> /\ sent' = Append(sent, m)
      /\ sendBuffer' = Fitting(AsValue(m)) /\ unsent' = serialize(AsValue(m), sendBuffer')
  BY DEF Send, receiverVars
<1>3. Outgoing' = Outgoing
  BY <1>2 DEF Outgoing
<1>4. direction \in {"request", "answer"} /\ sent \in Seq(Outgoing) /\ wire \in Seq(Nat)
  BY <1>1 DEF Types
<1> DEFINE v == ValueOf(direction, m)
<1>5. v \in Values /\ AsValue(m) = v /\ \A x \in Outgoing : ValueOf(direction, x) \in Values
  BY <1>4, Messages
<1>6. unsent' = Bytes(v) /\ Bytes(v) \in Seq(Nat) /\ Len(Bytes(v)) = Size(v) /\ Size(v) \in Nat
  BY <1>2, <1>5, Fits, Serialises
<1>7. /\ sent' \in Seq(Outgoing) /\ sent' # <<>> /\ Len(sent') = Len(sent) + 1 /\ Len(sent) \in Nat
      /\ sent'[Len(sent) + 1] = m /\ \A i \in 1..Len(sent) : sent'[i] = sent[i]
  BY <1>2, <1>4, AppendProperties, LenProperties
<1>8. Len(got) \in Nat /\ Len(got) <= Len(sent)
  BY <1>1, LenProperties DEF Types, InOrder
<1> HIDE DEF v
<1>9. Types'
  BY <1>1, <1>2, <1>3, <1>6, <1>7 DEF Types
<1>10. InOrder'
  BY <1>1, <1>2, <1>7, <1>8 DEF InOrder
<1>11. OnItsWay'
  <2>1. PICK off : Follows(direction, wire \o <<>>, sent, Len(got), off)
    BY <1>1, <1>2 DEF OnItsWay
  <2>2. wire \o <<>> = wire
    BY <1>4, ConcatEmptySeq
  <2>3. Follows(direction, wire, sent, Len(got), off)
    BY <2>1, <2>2
  <2>4. PICK o : Follows(direction, wire \o Bytes(ValueOf(direction, m)), Append(sent, m), Len(got), o)
    BY <1>4, <1>5, <1>8, <2>3, FollowsSent
  <2> QED
    BY <1>2, <1>6, <2>4 DEF OnItsWay, v
<1>12. Sending'
  <2>1. Last(sent') = m
    BY <1>7 DEF Last
  <2>2. AsValue(m)' = v
    BY <1>2, <1>5 DEF AsValue
  <2>3. Len(unsent') <= Size(v) /\ sendBuffer' = Fitting(v)
    BY <1>2, <1>5, <1>6
  <2>4. AsValue(Last(sent))' = v
    BY <1>2, <1>5, <2>1 DEF AsValue
  <2> QED
    BY <1>7, <2>3, <2>4 DEF Sending
<1>13. Looking'
  BY <1>1, <1>2 DEF Looking
<1> QED
  BY <1>9, <1>10, <1>11, <1>12, <1>13 DEF Intact

\* write() of a part of the buffer.
LEMMA IntactWrite ==
    ASSUME Intact, Write
    PROVE  Intact'
<1>1. Types /\ InOrder /\ OnItsWay /\ Sending /\ Looking
  BY DEF Intact
<1>2. PICK n \in 1..Len(unsent) :
        /\ wire' = wire \o SubSeq(unsent, 1, n)
        /\ unsent' = SubSeq(unsent, n + 1, Len(unsent))
  BY DEF Write
<1>3. /\ UNCHANGED <<direction, sent, sendBuffer, arrived, recvBuffer, peeked, seen, got, cut>>
      /\ unsent # <<>> /\ ~cut
  BY DEF Write, receiverVars
<1>4. /\ wire \in Seq(Nat) /\ unsent \in Seq(Nat) /\ arrived \in 0..Len(wire)
      /\ sent \in Seq(Outgoing) /\ recvBuffer \in Nat /\ peeked \in Nat
      /\ direction \in {"request", "answer"}
  BY <1>1 DEF Types
<1>5. /\ wire' \in Seq(Nat) /\ unsent' \in Seq(Nat)
      /\ Len(wire') = Len(wire) + n /\ Len(unsent') = Len(unsent) - n
      /\ \A k \in 1..Len(wire) : wire'[k] = wire[k]
      /\ wire' \o unsent' = wire \o unsent
  BY <1>2, <1>4, Moved
<1>6. Len(wire) \in Nat /\ Len(unsent) \in Nat /\ n \in Nat /\ Len(wire') \in Nat
  BY <1>4, <1>5, LenProperties
<1>7. Outgoing' = Outgoing
  BY <1>3 DEF Outgoing
<1>8. Types'
  <2>1. arrived' \in 0..Len(wire')
    BY <1>3, <1>4, <1>5, <1>6
  <2> QED
    BY <1>1, <1>3, <1>5, <1>7, <2>1 DEF Types
<1>9. InOrder'
  BY <1>1, <1>3 DEF InOrder
<1>10. OnItsWay'
  <2>1. PICK off : Follows(direction, wire \o unsent, sent, Len(got), off)
    BY <1>1, <1>3 DEF OnItsWay
  <2> QED
    BY <1>3, <1>5, <2>1 DEF OnItsWay
<1>11. Sending'
  <2>1. AsValue(Last(sent))' = AsValue(Last(sent))
    BY <1>3 DEF AsValue
  <2>2. /\ sent # <<>> /\ sendBuffer = Fitting(AsValue(Last(sent)))
        /\ Len(unsent) <= Size(AsValue(Last(sent)))
    BY <1>1, <1>3 DEF Sending
  <2>3. Size(AsValue(Last(sent))) \in Nat
    <3>1. Len(sent) \in 1..Len(sent)
      <4>1. Len(sent) \in Nat \ {0}
        BY <1>4, <2>2, EmptySeq
      <4> QED
        BY <4>1
    <3>2. Last(sent) \in Outgoing
      BY <1>4, <3>1, ElementOfSeq DEF Last
    <3> QED
      BY <1>4, <3>2, Messages, SizeIsPositive
  <2>4. Len(unsent') <= Size(AsValue(Last(sent)))
    BY <1>5, <1>6, <2>2, <2>3
  <2> QED
    BY <1>3, <2>1, <2>2, <2>4 DEF Sending
<1>12. Looking'
  <2> SUFFICES ASSUME recvBuffer # 0
               PROVE  SubSeq(wire', 1, peeked) = SubSeq(wire, 1, peeked)
    BY <1>1, <1>3 DEF Looking
  <2>1. peeked \in 1..arrived
    BY <1>1 DEF Looking
  <2>2. peeked \in 0..Len(wire) /\ peeked \in 0..Len(wire')
    <3>1. \A l, k \in Nat : \A a \in 0..l : \A p \in 1..a : p \in 0..l /\ p \in 0..l + k
      OBVIOUS
    <3>2. Len(wire') = Len(wire) + n
      BY <1>5
    <3> QED
      BY <1>4, <1>6, <2>1, <3>1, <3>2
  <2>3. /\ SubSeq(wire, 1, peeked) \in Seq(Nat) /\ Len(SubSeq(wire, 1, peeked)) = peeked
        /\ \A k \in 1..peeked : SubSeq(wire, 1, peeked)[k] = wire[k]
    BY <1>4, <2>2, Beginning
  <2>4. /\ SubSeq(wire', 1, peeked) \in Seq(Nat) /\ Len(SubSeq(wire', 1, peeked)) = peeked
        /\ \A k \in 1..peeked : SubSeq(wire', 1, peeked)[k] = wire'[k]
    BY <1>5, <2>2, Beginning
  <2>5. \A k \in 1..peeked : k \in 1..Len(wire)
    BY <1>6, <2>2
  <2>6. \A k \in 1..peeked : SubSeq(wire', 1, peeked)[k] = SubSeq(wire, 1, peeked)[k]
    BY <1>5, <2>3, <2>4, <2>5
  <2> QED
    BY <2>3, <2>4, <2>6, SeqEqual
<1> QED
  BY <1>8, <1>9, <1>10, <1>11, <1>12 DEF Intact

\* write() fails: the message is taken back, or the stream is cut.
LEMMA IntactWriteFails ==
    ASSUME Intact, WriteFails
    PROVE  Intact'
<1>1. Types /\ InOrder /\ OnItsWay /\ Sending /\ Looking
  BY DEF Intact
<1>2. /\ UNCHANGED <<direction, wire, arrived, recvBuffer, peeked, seen, got>>
      /\ unsent # <<>> /\ ~cut /\ unsent' = <<>>
  BY DEF WriteFails, receiverVars
<1>3. Outgoing' = Outgoing
  BY <1>2 DEF Outgoing
<1>4. <<>> \in Seq(Nat)
  BY EmptySeq
<1>5. Sending' /\ Looking'
  BY <1>1, <1>2 DEF Sending, Looking
<1>6. CASE Len(unsent) = Size(AsValue(Last(sent)))
  <2>1. sent' = Front(sent) /\ cut' = cut
    BY <1>6 DEF WriteFails
  <2>2. /\ wire \in Seq(Nat) /\ unsent \in Seq(Nat) /\ sent \in Seq(Outgoing)
        /\ direction \in {"request", "answer"} /\ sent # <<>>
    BY <1>1, <1>2 DEF Types, Sending
  <2>3. \A m \in Outgoing : ValueOf(direction, m) \in Values
    BY <2>2, Messages
  <2>4. Len(unsent) = Size(ValueOf(direction, sent[Len(sent)]))
    BY <1>6 DEF AsValue, ValueOf, Last
  <2>5. Len(got) \in Nat /\ Len(got) <= Len(sent) /\ Len(sent) \in Nat
    BY <1>1, LenProperties DEF Types, InOrder
  <2>6. PICK off : Follows(direction, wire \o unsent, sent, Len(got), off)
    BY <1>1, <1>2 DEF OnItsWay
  <2>7. /\ Front(sent) \in Seq(Outgoing) /\ Len(Front(sent)) = Len(sent) - 1
        /\ \A i \in 1..Len(sent) - 1 : Front(sent)[i] = sent[i]
        /\ Len(got) <= Len(Front(sent))
        /\ \E o : Follows(direction, wire, Front(sent), Len(got), o)
    BY <1>2, <2>2, <2>3, <2>4, <2>5, <2>6, FollowsTakenBack
  <2>8. Types'
    BY <1>1, <1>2, <1>3, <1>4, <2>1, <2>7 DEF Types
  <2>9. InOrder'
    <3>1. \A i \in 1..Len(got) : i \in 1..Len(sent) - 1
      BY <2>5, <2>7
    <3>2. \A i \in 1..Len(got) : sent'[i] = sent[i]
      BY <2>1, <2>7, <3>1
    <3> QED
      BY <1>1, <1>2, <2>1, <2>7, <3>2 DEF InOrder
  <2>10. OnItsWay'
    <3>1. wire \o <<>> = wire
      BY <2>2, ConcatEmptySeq
    <3> QED
      BY <1>2, <2>1, <2>7, <3>1 DEF OnItsWay
  <2> QED
    BY <1>5, <2>8, <2>9, <2>10 DEF Intact
<1>7. CASE Len(unsent) # Size(AsValue(Last(sent)))
  <2>1. sent' = sent /\ cut' = TRUE
    BY <1>7 DEF WriteFails
  <2>2. Types'
    BY <1>1, <1>2, <1>3, <1>4, <2>1 DEF Types
  <2>3. InOrder' /\ OnItsWay'
    BY <1>1, <1>2, <2>1 DEF InOrder, OnItsWay
  <2> QED
    BY <1>5, <2>2, <2>3 DEF Intact
<1> QED
  BY <1>6, <1>7

\* Steps that leave the stream and what was taken of it as they are.
LEMMA IntactElsewhere ==
    ASSUME Intact, UNCHANGED <<direction, sent, sendBuffer, unsent, wire, got, cut>>,
           arrived' \in 0..Len(wire), recvBuffer' \in Nat, peeked' \in Nat, peeked' <= recvBuffer',
           Looking'
    PROVE  Intact'
<1>1. Types /\ InOrder /\ OnItsWay /\ Sending
  BY DEF Intact
<1>2. Outgoing' = Outgoing /\ AsValue(Last(sent))' = AsValue(Last(sent))
  BY DEF Outgoing, AsValue
<1>3. Types'
  BY <1>1, <1>2 DEF Types
<1>4. InOrder' /\ OnItsWay'
  BY <1>1 DEF InOrder, OnItsWay
<1>5. Sending'
  BY <1>1, <1>2 DEF Sending
<1> QED
  BY <1>3, <1>4, <1>5 DEF Intact

\* More bytes arrive, the sender closes its end, or receive() finds that end.
LEMMA IntactWaiting ==
    ASSUME Intact, Arrive \/ Close \/ ReceiveEnd
    PROVE  Intact'
<1>1. /\ UNCHANGED <<direction, sent, sendBuffer, unsent, wire, got, cut, recvBuffer, peeked, seen>>
      /\ arrived' = arrived \/ arrived' \in arrived + 1..Len(wire)
  BY DEF Arrive, Close, ReceiveEnd, senderVars, receiverVars
<1>2. /\ arrived \in 0..Len(wire) /\ wire \in Seq(Nat) /\ recvBuffer \in Nat /\ peeked \in Nat
      /\ peeked <= recvBuffer
  BY DEF Intact, Types
<1>3. Len(wire) \in Nat
  BY <1>2, LenProperties
<1>4. arrived' \in 0..Len(wire) /\ arrived' >= arrived
  BY <1>1, <1>2, <1>3
<1>5. Looking'
  <2> SUFFICES ASSUME recvBuffer # 0 PROVE peeked \in 1..arrived'
    BY <1>1 DEF Looking, Intact
  <2>1. peeked \in 1..arrived
    BY DEF Looking, Intact
  <2> QED
    BY <1>2, <1>3, <1>4, <2>1
<1> QED
  BY <1>1, <1>2, <1>4, <1>5, IntactElsewhere

\* recv() with a larger buffer.
LEMMA IntactPeek ==
    ASSUME Intact, Peek
    PROVE  Intact'
<1>1. /\ UNCHANGED <<direction, sent, sendBuffer, unsent, wire, got, cut, arrived>>
      /\ arrived > 0 /\ recvBuffer' = recvBuffer + BufferStep
      /\ peeked' = IF arrived < recvBuffer' THEN arrived ELSE recvBuffer'
      /\ seen' = deserialize(SubSeq(wire, 1, peeked'))
  BY DEF Peek, senderVars
<1>2. arrived \in 0..Len(wire) /\ wire \in Seq(Nat) /\ recvBuffer \in Nat
  BY DEF Intact, Types
<1>3. Len(wire) \in Nat /\ BufferStep \in Nat \ {0}
  BY <1>2, LenProperties, PacketsAssumption
<1>4. recvBuffer' \in Nat /\ recvBuffer' > 0 /\ arrived \in Nat
  BY <1>1, <1>2, <1>3
<1>5. peeked' \in 1..arrived /\ peeked' <= recvBuffer' /\ peeked' \in Nat
  BY <1>1, <1>4
<1>6. Looking'
  BY <1>1, <1>5 DEF Looking
<1> QED
  BY <1>1, <1>2, <1>4, <1>5, <1>6, IntactElsewhere

\* deserialize() looked beyond the bytes.
LEMMA IntactPullPart ==
    ASSUME Intact, PullPart
    PROVE  Intact'
<1>1. /\ UNCHANGED <<direction, sent, sendBuffer, unsent, wire, got, arrived, recvBuffer, peeked, seen>>
      /\ cut' = TRUE
  BY DEF PullPart, senderVars
<1>2. Types /\ InOrder /\ Sending /\ Looking
  BY DEF Intact
<1>3. Outgoing' = Outgoing /\ AsValue(Last(sent))' = AsValue(Last(sent))
  BY <1>1 DEF Outgoing, AsValue
<1>4. Types'
  BY <1>1, <1>2, <1>3 DEF Types
<1>5. InOrder' /\ OnItsWay'
  BY <1>1, <1>2 DEF InOrder, OnItsWay
<1>6. Sending' /\ Looking'
  BY <1>1, <1>2, <1>3 DEF Sending, Looking
<1> QED
  BY <1>4, <1>5, <1>6 DEF Intact

\* What is peeked is the beginning of the first message that was not received.
LEMMA PeekedMessage ==
    ASSUME Intact, ~cut, recvBuffer # 0
    PROVE  /\ Len(got) \in Nat /\ Len(got) < Len(sent) /\ Len(got) + 1 \in 1..Len(sent)
           /\ sent[Len(got) + 1] \in Outgoing
           /\ Matches(SubSeq(wire, 1, peeked), 0, Bytes(ValueOf(direction, sent[Len(got) + 1])))
<1>1. /\ wire \in Seq(Nat) /\ unsent \in Seq(Nat) /\ sent \in Seq(Outgoing)
      /\ arrived \in 0..Len(wire) /\ direction \in {"request", "answer"}
      /\ Len(got) \in Nat /\ Len(got) <= Len(sent) /\ Len(sent) \in Nat
      /\ peeked \in 1..arrived
  BY LenProperties DEF Intact, Types, InOrder, Looking
<1> DEFINE stream == wire \o unsent
           done == Len(got)
           n == Len(sent)
           lw == Len(wire)
<1>2. PICK off : Follows(direction, stream, sent, done, off)
  BY DEF Intact, OnItsWay
<1>3. /\ Len(stream) = lw + Len(unsent) /\ lw \in Nat /\ Len(unsent) \in Nat
      /\ \A k \in 1..lw : stream[k] = wire[k]
  BY <1>1, Joined
<1>4. /\ off[done] = 0 /\ off[n] = Len(stream)
      /\ \A i \in done + 1..n : Carries(stream, off[i - 1], Bytes(ValueOf(direction, sent[i])))
  BY <1>2 DEF Follows
<1>5. arrived \in Nat /\ peeked \in Nat /\ 1 <= peeked /\ peeked <= lw /\ peeked \in 0..lw
  BY <1>1, <1>3
<1> HIDE DEF stream, lw
<1>6. done # n
  BY <1>3, <1>4, <1>5
<1>7. done < n /\ done + 1 \in 1..n /\ done + 1 \in done + 1..n /\ (done + 1) - 1 = done
  BY <1>1, <1>6
<1>8. sent[done + 1] \in Outgoing
  BY <1>1, <1>7, ElementOfSeq
<1> DEFINE x == Bytes(ValueOf(direction, sent[done + 1]))
           b == SubSeq(wire, 1, peeked)
<1>9. Carries(stream, 0, x)
  BY <1>4, <1>7
<1>10. b \in Seq(Nat) /\ Len(b) = peeked /\ \A k \in 1..peeked : b[k] = wire[k]
  BY <1>1, <1>5, Beginning DEF lw
<1>11. x \in Seq(Nat) /\ Len(x) \in Nat
  BY <1>1, <1>8, Messages, Serialises, LenProperties
<1> HIDE DEF x, b
<1>12. ASSUME NEW k \in 1..Len(x), 0 + k <= Len(b) PROVE b[0 + k] = x[k]
  <2>1. 0 + k = k /\ k \in 1..peeked /\ k \in 1..lw
    BY <1>3, <1>5, <1>10, <1>11, <1>12
  <2>2. stream[0 + k] = x[k]
    BY <1>9 DEF Carries
  <2> QED
    BY <1>3, <1>10, <2>1, <2>2
<1>13. Matches(b, 0, x)
  BY <1>12 DEF Matches
<1> QED
  BY <1>1, <1>7, <1>8, <1>13 DEF x, b

\* receive() takes a value, and no more bytes than it has.
LEMMA IntactPullValue ==
    ASSUME Intact, PullValue
    PROVE  Intact'
<1> DEFINE done == Len(got)
           m == sent[done + 1]
           v == ValueOf(direction, m)
           size == Size(v)
           b == SubSeq(wire, 1, peeked)
           answer == MessageOf(direction, m)
           received == {MessageOf(direction, x) : x \in Outgoing}
<1>1. /\ UNCHANGED <<direction, sent, sendBuffer, unsent, cut>>
      /\ ~cut /\ peeked < recvBuffer /\ seen.next <= peeked
      /\ wire' = SubSeq(wire, seen.next + 1, Len(wire)) /\ arrived' = arrived - seen.next
      /\ got' = Append(got, AsMessage(seen.values[1])) /\ recvBuffer' = 0 /\ peeked' = 0
  BY DEF PullValue, Peeked, Consume, senderVars
<1>2. /\ wire \in Seq(Nat) /\ unsent \in Seq(Nat) /\ sent \in Seq(Outgoing)
      /\ arrived \in 0..Len(wire) /\ direction \in {"request", "answer"} /\ cut \in BOOLEAN
      /\ got \in Seq(received) /\ recvBuffer \in Nat /\ peeked \in Nat /\ Len(wire) \in Nat
  BY LenProperties DEF Intact, Types
<1>3. recvBuffer # 0
  BY <1>1, <1>2
<1>4. peeked \in 1..arrived /\ seen = deserialize(b)
  BY <1>3 DEF Intact, Looking
<1>5. done \in Nat /\ done < Len(sent) /\ done + 1 \in 1..Len(sent) /\ m \in Outgoing
      /\ Matches(b, 0, Bytes(v))
  BY <1>1, <1>3, PeekedMessage
<1>6. /\ \A x \in Outgoing : ValueOf(direction, x) \in Values
      /\ v \in Values /\ AsMessage(v) = answer /\ size \in Nat
  BY <1>2, <1>5, Messages, SizeIsPositive
<1>7. b \in Seq(Nat) /\ Len(b) = peeked /\ peeked \in 0..Len(wire)
  <2>1. peeked \in 0..Len(wire)
    BY <1>2, <1>4
  <2> QED
    BY <1>2, <2>1, Beginning
<1> HIDE DEF v, b, m, answer, received
<1>8. size <= peeked /\ seen = [values |-> <<v>>, next |-> size]
  <2>1. IF size <= Len(b) THEN deserialize(b) = [values |-> <<v>>, next |-> size]
                          ELSE deserialize(b).next > Len(b)
    BY <1>5, <1>6, <1>7, RoundTrip
  <2>2. ASSUME ~(size <= Len(b)) PROVE FALSE
    <3>1. seen.next > peeked /\ seen.next <= peeked
      BY <1>1, <1>4, <1>7, <2>1, <2>2
    <3>2. seen.next \in Nat
      <4>1. valuesAt(b)[<<0, 1>>].next \in Nat
        BY <1>7, ReadsAdvance DEF Reads, Advances
      <4> QED
        BY <1>4, <4>1 DEF deserialize
    <3> QED
      BY <1>2, <3>1, <3>2
  <2> QED
    BY <1>4, <1>7, <2>1, <2>2
<1>9. seen.next = size /\ seen.values[1] = v
  BY <1>8
<1> HIDE DEF size
<1>10. size \in 0..Len(wire) /\ size <= arrived
  BY <1>2, <1>4, <1>6, <1>7, <1>8
<1>11. /\ wire' \in Seq(Nat) /\ Len(wire') = Len(wire) - size
       /\ \A k \in 1..Len(wire) - size : wire'[k] = wire[k + size]
  BY <1>1, <1>2, <1>9, <1>10, Remainder
<1>12. Outgoing' = Outgoing
  BY <1>1 DEF Outgoing
<1>13. got' = Append(got, answer) /\ answer \in received
  BY <1>1, <1>5, <1>6, <1>9 DEF answer, received
<1>14. /\ got' \in Seq(received) /\ Len(got') = done + 1 /\ got'[done + 1] = answer
       /\ \A i \in 1..done : got'[i] = got[i]
  BY <1>2, <1>13, AppendProperties
<1>15. Types'
  <2>1. arrived' \in 0..Len(wire')
    BY <1>1, <1>2, <1>6, <1>9, <1>10, <1>11
  <2>2. got' \in Seq({MessageOf(direction', x) : x \in Outgoing'})
    BY <1>1, <1>12, <1>14 DEF received
  <2>3. 0 \in Nat /\ 0 <= 0
    OBVIOUS
  <2> QED
    BY <1>1, <1>2, <1>11, <1>12, <2>1, <2>2, <2>3 DEF Types
<1>16. InOrder'
  <2>1. ASSUME NEW i \in 1..done + 1 PROVE got'[i] = MessageOf(direction, sent[i])
    <3>1. CASE i = done + 1
      BY <1>14, <3>1 DEF answer, m
    <3>2. CASE i # done + 1
      <4>1. i \in 1..done
        BY <1>5, <3>2
      <4> QED
        BY <1>14, <4>1 DEF Intact, InOrder
    <3> QED
      BY <3>1, <3>2
  <2> QED
    BY <1>1, <1>2, <1>5, <1>14, <2>1 DEF InOrder
<1>17. OnItsWay'
  <2> DEFINE stream == wire \o unsent
             rest == wire' \o unsent
             lw == Len(wire)
             lu == Len(unsent)
             lr == Len(wire')
  <2>1. PICK off : Follows(direction, stream, sent, done, off)
    BY <1>1 DEF Intact, OnItsWay
  <2>2. /\ stream \in Seq(Nat) /\ Len(stream) = lw + lu
        /\ \A k \in 1..lw : stream[k] = wire[k]
        /\ \A k \in 1..lu : stream[lw + k] = unsent[k]
    BY <1>2, Joined
  <2>3. /\ rest \in Seq(Nat) /\ Len(rest) = lr + lu
        /\ \A k \in 1..lr : rest[k] = wire'[k]
        /\ \A k \in 1..lu : rest[lr + k] = unsent[k]
    BY <1>2, <1>11, Joined
  <2>4. lw \in Nat /\ lu \in Nat /\ lr \in Nat /\ lr = lw - size /\ size <= lw
    BY <1>2, <1>10, <1>11, LenProperties
  <2>5. \A k \in 1..lr : wire'[k] = wire[k + size]
    BY <1>11
  <2> HIDE DEF stream, rest, lw, lu, lr
  <2>6. ASSUME NEW k \in 1..lr + lu PROVE rest[k] = stream[k + size]
    <3>1. CASE k <= lr
      <4>1. k \in 1..lr /\ k + size \in 1..lw
        BY <1>6, <2>4, <3>1
      <4> QED
        BY <2>2, <2>3, <2>5, <4>1
    <3>2. CASE ~(k <= lr)
      <4> DEFINE j == k - lr
      <4>1. j \in 1..lu /\ lr + j = k /\ lw + j = k + size
        BY <1>6, <2>4, <3>2
      <4> HIDE DEF j
      <4>2. rest[lr + j] = unsent[j] /\ stream[lw + j] = unsent[j]
        BY <2>2, <2>3, <4>1
      <4> QED
        BY <4>1, <4>2
    <3> QED
      BY <3>1, <3>2
  <2>7. Len(rest) + size = Len(stream)
    BY <1>6, <2>2, <2>3, <2>4
  <2>8. size = Size(ValueOf(direction, sent[done + 1]))
    BY DEF size, v, m
  <2>9. \E o : Follows(direction, rest, sent, done + 1, o)
    <3>1. \A k \in 1..Len(rest) : rest[k] = stream[k + size]
      BY <2>3, <2>6
    <3>2. /\ sent \in Seq(Outgoing) /\ done \in Nat /\ done < Len(sent) /\ size \in Nat
          /\ \A x \in Outgoing : ValueOf(direction, x) \in Values
          /\ stream \in Seq(Nat) /\ rest \in Seq(Nat)
      BY <1>2, <1>5, <1>6, <2>2, <2>3
    <3> HIDE DEF done
    <3> QED
      BY <2>1, <2>7, <2>8, <3>1, <3>2, FollowsTaken
  <2> QED
    BY <1>1, <1>14, <2>9 DEF OnItsWay, rest
<1>18. Sending'
  <2>1. AsValue(Last(sent))' = AsValue(Last(sent))
    BY <1>1 DEF AsValue
  <2> QED
    BY <1>1, <2>1 DEF Intact, Sending
<1>19. Looking'
  BY <1>1 DEF Looking
<1> QED
  BY <1>15, <1>16, <1>17, <1>18, <1>19 DEF Intact

-----------------------------------------------------------------------------
(* What is proved of the connection.                                       *)

\* The inductive invariant: at any time what was received is the beginning of what was
\* sent, and what is on its way the bytes of the rest.
THEOREM StreamIsIntact == Spec => []Intact
<1>1. Intact /\ [Next]_vars => Intact'
  <2> SUFFICES ASSUME Intact, [Next]_vars PROVE Intact'
    OBVIOUS
  <2>1. ASSUME NEW m \in Outgoing, Send(m) PROVE Intact'
    BY <2>1, IntactSend
  <2>2. CASE Write
    BY <2>2, IntactWrite
  <2>3. CASE WriteFails
    BY <2>3, IntactWriteFails
  <2>4. CASE Arrive \/ Close \/ ReceiveEnd
    BY <2>4, IntactWaiting
  <2>5. CASE Peek
    BY <2>5, IntactPeek
  <2>6. CASE PullValue
    BY <2>6, IntactPullValue
  <2>7. CASE PullPart
    BY <2>7, IntactPullPart
  <2>8. CASE UNCHANGED vars
    BY <2>8, IntactStutter
  <2> QED
    BY <2>1, <2>2, <2>3, <2>4, <2>5, <2>6, <2>7, <2>8
    DEF Next, Sender, Receiver, ReceiveNothing, Over
<1> QED
  BY <1>1, IntactInit, PTL DEF Spec

\* serialize() writes within the buffer send() has given it, and that buffer is the
\* smallest number of steps the value fits in, for all values and every step.
THEOREM SendBufferAlwaysFits == Spec => []SendBufferFits
<1>1. Intact => SendBufferFits
  <2> SUFFICES ASSUME Intact, unsent # <<>>
               PROVE  /\ Len(unsent) <= sendBuffer
                      /\ Size(AsValue(Last(sent))) \in sendBuffer - BufferStep + 1..sendBuffer
    BY DEF SendBufferFits
  <2> DEFINE v == AsValue(Last(sent))
  <2>1. sent # <<>> /\ sendBuffer = Fitting(v) /\ Len(unsent) <= Size(v)
    BY DEF Intact, Sending
  <2>2. sent \in Seq(Outgoing) /\ direction \in {"request", "answer"} /\ Len(unsent) \in Nat
    BY LenProperties DEF Intact, Types
  <2>3. v \in Values
    <3>1. Len(sent) \in Nat \ {0}
      BY <2>1, <2>2, EmptySeq
    <3>2. Len(sent) \in 1..Len(sent)
      BY <3>1
    <3>3. Last(sent) \in Outgoing
      BY <2>2, <3>2, ElementOfSeq DEF Last
    <3> QED
      BY <2>2, <3>3, Messages
  <2> HIDE DEF v
  <2>4. /\ sendBuffer \in Nat /\ Size(v) \in Nat /\ Size(v) <= sendBuffer
        /\ sendBuffer - BufferStep < Size(v) /\ BufferStep \in Nat
    BY <2>1, <2>3, Fits, PacketsAssumption
  <2>5. Len(unsent) <= sendBuffer /\ Size(v) \in sendBuffer - BufferStep + 1..sendBuffer
    BY <2>1, <2>2, <2>4
  <2> QED
    BY <2>5 DEF v
<1> QED
  BY <1>1, StreamIsIntact, PTL

\* However the requests of a Python program are cut in pieces, the daemon gets them
\* whole and in order, as long as nothing was sent or looked at in part.  All that is
\* asked of pyObjectToValue() is that a value says what its dictionary says.
THEOREM RequestsArriveIntact ==
    ASSUME \A m \in Requests : SameRequest(ToValue(m), m)
    PROVE  Spec => []RequestsIntact
<1>1. Intact => RequestsIntact
  <2> SUFFICES ASSUME Intact, direction = "request", ~cut
               PROVE  Len(got) <= Len(sent) /\ \A i \in 1..Len(got) : SameRequest(got[i], sent[i])
    BY DEF RequestsIntact
  <2>1. /\ Len(got) <= Len(sent) /\ Len(got) \in Nat /\ Len(sent) \in Nat
        /\ \A i \in 1..Len(got) : got[i] = MessageOf(direction, sent[i])
        /\ sent \in Seq(Requests)
    BY LenProperties DEF Intact, InOrder, Types, Outgoing
  <2>2. ASSUME NEW i \in 1..Len(got) PROVE SameRequest(got[i], sent[i])
    <3>1. i \in 1..Len(sent)
      BY <2>1
    <3>2. sent[i] \in Requests
      BY <2>1, <3>1, ElementOfSeq
    <3>3. got[i] = ToValue(sent[i])
      BY <2>1 DEF MessageOf
    <3>4. SameRequest(ToValue(sent[i]), sent[i])
      BY <3>2
    <3> QED
      BY <3>3, <3>4
  <2> QED
    BY <2>1, <2>2
<1> QED
  BY <1>1, StreamIsIntact, PTL

\* And a Python program gets the daemon's answers; of valueToPyObject() is asked that a
\* dictionary says what its value says.
THEOREM AnswersArriveIntact ==
    ASSUME \A v \in Answers : SameAnswer(ToPyObject(v), v)
    PROVE  Spec => []AnswersIntact
<1>1. Intact => AnswersIntact
  <2> SUFFICES ASSUME Intact, direction = "answer", ~cut
               PROVE  Len(got) <= Len(sent) /\ \A i \in 1..Len(got) : SameAnswer(got[i], sent[i])
    BY DEF AnswersIntact
  <2>1. /\ Len(got) <= Len(sent) /\ Len(got) \in Nat /\ Len(sent) \in Nat
        /\ \A i \in 1..Len(got) : got[i] = MessageOf(direction, sent[i])
        /\ sent \in Seq(Answers)
    BY LenProperties DEF Intact, InOrder, Types, Outgoing
  <2>2. ASSUME NEW i \in 1..Len(got) PROVE SameAnswer(got[i], sent[i])
    <3>1. i \in 1..Len(sent)
      BY <2>1
    <3>2. sent[i] \in Answers
      BY <2>1, <3>1, ElementOfSeq
    <3>3. got[i] = ToPyObject(sent[i])
      BY <2>1 DEF MessageOf
    <3>4. SameAnswer(ToPyObject(sent[i]), sent[i])
      BY <3>2
    <3> QED
      BY <3>3, <3>4
  <2> QED
    BY <2>1, <2>2
<1> QED
  BY <1>1, StreamIsIntact, PTL

\* receive() makes up a value, or crashes, only when the bytes it has peeked end within
\* the next value that was sent: never on a value that is there, whatever follows it.
FailsOnlyOnParts == PullPart => peeked < Size(AsValue(sent[Len(got) + 1]))

\* So the loss of step that receive() is open to is that of a value that arrives in
\* pieces, and no other (PacketEntity::receive(), Value::deserialize()).
THEOREM ReceiveFailsOnlyOnParts == Spec => [][FailsOnlyOnParts]_vars
<1>1. Intact /\ [Next]_vars => [FailsOnlyOnParts]_vars
  <2> SUFFICES ASSUME Intact, PullPart PROVE peeked < Size(AsValue(sent[Len(got) + 1]))
    BY DEF FailsOnlyOnParts
  <2> DEFINE m == sent[Len(got) + 1]
             v == ValueOf(direction, m)
             b == SubSeq(wire, 1, peeked)
  <2>1. ~cut /\ peeked < recvBuffer /\ seen.next > peeked
    BY DEF PullPart, Peeked
  <2>2. /\ recvBuffer \in Nat /\ peeked \in Nat /\ direction \in {"request", "answer"}
        /\ wire \in Seq(Nat) /\ arrived \in 0..Len(wire) /\ Len(wire) \in Nat
    BY LenProperties DEF Intact, Types
  <2>3. recvBuffer # 0
    BY <2>1, <2>2
  <2>4. peeked \in 1..arrived /\ seen = deserialize(b)
    BY <2>3 DEF Intact, Looking
  <2>5. m \in Outgoing /\ Matches(b, 0, Bytes(v))
    BY <2>1, <2>3, PeekedMessage
  <2>6. v \in Values /\ AsValue(m) = v /\ Size(v) \in Nat
    BY <2>2, <2>5, Messages, SizeIsPositive
  <2>7. b \in Seq(Nat) /\ Len(b) = peeked
    <3>1. peeked \in 0..Len(wire)
      BY <2>2, <2>4
    <3> QED
      BY <2>2, <3>1, Beginning
  <2> HIDE DEF v, b, m
  <2>8. ~(Size(v) <= peeked)
    <3> SUFFICES ASSUME Size(v) <= peeked PROVE FALSE
      OBVIOUS
    <3>1. deserialize(b) = [values |-> <<v>>, next |-> Size(v)]
      BY <2>5, <2>6, <2>7, RoundTrip
    <3> QED
      BY <2>1, <2>2, <2>4, <2>6, <3>1
  <2> QED
    BY <2>2, <2>6, <2>8 DEF m
<1> QED
  BY <1>1, StreamIsIntact, PTL DEF Spec
=============================================================================
