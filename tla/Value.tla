------------------------------- MODULE Value -------------------------------
(***************************************************************************)
(* The messages of macdetect, trees of keys and contents, and the bytes    *)
(* they are sent as (utils/src/Value.cpp).                                 *)
(*                                                                         *)
(* A value is a record of key, content and the sequence subs; a string is  *)
(* the sequence of its bytes.  Buffer offsets count from 0, as in C++.     *)
(***************************************************************************)
EXTENDS Integers, Sequences

CONSTANTS
    WordSize,       \* sizeof(unsigned int)
    Values,         \* the values that are sent, and those below them
    Offset(_, _),   \* where the i-th sub-value of a value begins in its bytes
    MaxSize         \* what an unsigned int can count: the size of no value is greater

Node(key, content, subs) == [key |-> key, content |-> content, subs |-> subs]

\* The number of bytes of a value: where a further sub-value would begin.
Size(v) == Offset(v, Len(v.subs) + 1)

\* Values are finite trees, laid out one part after the other.
ASSUME ValueAssumption ==
    /\ WordSize \in Nat \ {0} /\ MaxSize \in Nat
    /\ \A v \in Values :
          /\ v = Node(v.key, v.content, v.subs)
          /\ v.key \in Seq(Nat) /\ v.content \in Seq(Nat) /\ v.subs \in Seq(Values)
          /\ \A i \in 1..Len(v.subs) + 1 : Offset(v, i) \in Nat
          /\ Offset(v, 1) = 3 * WordSize + Len(v.key) + Len(v.content)
          /\ \A i \in 1..Len(v.subs) : Offset(v, i + 1) = Offset(v, i) + Size(v.subs[i])
          /\ Size(v) <= MaxSize

-----------------------------------------------------------------------------
(* Serialisation.                                                          *)

\* An unsigned int as it lies in memory, lowest byte first: that byte stands for the
\* whole number here, also for one of 256 and more, and the others are zero.
Word(n) == [i \in 1..WordSize |-> IF i = 1 THEN n ELSE 0]

WordAt(b, at) == b[at + 1]

\* serialize() returns -1 when its buffer is too small.
TooSmall == <<-1>>

Header(v) == Word(Len(v.key)) \o v.key \o Word(Len(v.content)) \o v.content
                \o Word(Len(v.subs))

\* The bytes of v in a buffer of that length, given those of its sub-values.
WithSubs(subs, v, length) ==
    LET below == subs[<<v, 1, length - Len(Header(v))>>]
    IN  IF Len(Header(v)) > length \/ below = TooSmall THEN TooSmall ELSE Header(v) \o below

\* Fault: a sub-value may fill the buffer as if nothing had been written before it.
AddSubUnbounded(subs, v, i, room) ==
    LET first == WithSubs(subs, v.subs[i], room)
        rest == subs[<<v, i + 1, room>>]
    IN  IF first = TooSmall \/ rest = TooSmall THEN TooSmall ELSE first \o rest

\* One turn of the loop over the sub-values, and the turns after it.
AddSub(subs, v, i, room) ==
    LET first == WithSubs(subs, v.subs[i], room)
        rest == subs[<<v, i + 1, room - Len(first)>>]
    IN  IF first = TooSmall \/ rest = TooSmall THEN TooSmall ELSE first \o rest

\* The bytes of v's sub-values from the i-th on, in what room the buffer has left.
subsBytes[p \in Values \X (Nat \ {0}) \X Int] ==
    IF p[2] > Len(p[1].subs) THEN <<>> ELSE AddSub(subsBytes, p[1], p[2], p[3])

serialize(v, length) == WithSubs(subsBytes, v, length)

-----------------------------------------------------------------------------
(* Deserialisation.  The code has no regard for the length it is given; an *)
(* offset greater than Len(b) says that bytes beyond b were looked at.     *)

StringEnd(b, at) ==
    IF at + WordSize > Len(b) THEN Len(b) + 1 ELSE at + WordSize + WordAt(b, at)

Beyond(b) == [values |-> <<>>, next |-> Len(b) + 1]

\* A value and those after it, n in all: what is below the first comes before them.
NextValues(d, b, at, n) ==
    LET contentAt == StringEnd(b, at)
        countAt == StringEnd(b, contentAt)
        below == d[<<countAt + WordSize, WordAt(b, countAt)>>]
        after == d[<<below.next, n - 1>>]
        first == Node(SubSeq(b, at + WordSize + 1, contentAt),
                      SubSeq(b, contentAt + WordSize + 1, countAt), below.values)
    IN  IF countAt + WordSize > Len(b)
        THEN Beyond(b)
        ELSE [values |-> <<first>> \o after.values, next |-> after.next]

\* The values at an offset, as many as are asked for, and the offset after them.
valuesAt(b) ==
    LET d[p \in Nat \X Nat] ==
            IF p[2] = 0 THEN [values |-> <<>>, next |-> p[1]] ELSE NextValues(d, b, p[1], p[2])
    IN  d

\* The value a buffer begins with.
deserialize(b) == valuesAt(b)[<<0, 1>>]
=============================================================================
