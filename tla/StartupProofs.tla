--------------------------- MODULE StartupProofs ---------------------------
(***************************************************************************)
(* Proofs about Startup.  What the parsers make of one text is TLC's       *)
(* (ReadAsMeant, a hypothesis here).  Proved is the rest: how the command  *)
(* line is taken apart, artifact by artifact; which file is in force and   *)
(* which servings its entries lead to; how a name travels from the         *)
(* settings through datagrams, two sockets' queues and several runs of the *)
(* daemon to the rows of the connection manager; and how a signal reaches  *)
(* the loop.                                                               *)
(***************************************************************************)
EXTENDS Startup, SequenceTheorems, FiniteSetTheorems, WellFoundedInduction, TLAPS

\* Datagrams that name a server only as some run was configured.
Datagrams ==
    [from : Members, to : Members, value : {Request} \cup {Response(n) : n \in called}]

Rows == [name : called, ip : Members]

\* The inductive invariant: the names in the air, in the queues and in the list.
NamesInv ==
    /\ case \in Cases
    /\ phase = "loop" => Meant(case).name \in called
    /\ air \subseteq Datagrams
    /\ inbox \in [Members -> Seq(Datagrams)]
    /\ listed \in Seq(Rows)
    /\ ListedAsConfigured

-----------------------------------------------------------------------------
(* The operators.                                                          *)

\* The first of the candidates there are is one of them, and every meaning has a name.
LEMMA MeantHasName == \A c \in Cases : "name" \in DOMAIN Meant(c)
<1> SUFFICES ASSUME NEW c \in Cases PROVE "name" \in DOMAIN Meant(c)
  OBVIOUS
<1> DEFINE there == {i \in 1..4 : Candidates(MeantFile(c))[i] \in DOMAIN c.files}
<1>1. CASE there = {}
  BY <1>1 DEF Meant, Unconfigured
<1>2. CASE there # {}
  <2>1. \E x \in there : \A y \in there : x =< y
    <3>1. there \subseteq {1, 2, 3, 4}
      OBVIOUS
    <3> HIDE DEF there
    <3>2. CASE 1 \in there
      BY <3>1, <3>2
    <3>3. CASE 1 \notin there /\ 2 \in there
      BY <3>1, <3>3
    <3>4. CASE 1 \notin there /\ 2 \notin there /\ 3 \in there
      BY <3>1, <3>4
    <3>5. CASE 1 \notin there /\ 2 \notin there /\ 3 \notin there
      <4>1. \A y \in there : y = 4
        BY <3>1, <3>5
      <4>2. 4 \in there
        BY <1>2, <4>1
      <4> QED
        BY <4>1, <4>2
    <3> QED
      BY <3>2, <3>3, <3>4, <3>5
  <2>2. Min(there) \in there
    BY <2>1 DEF Min
  <2>3. Candidates(MeantFile(c))[Min(there)] \in DOMAIN c.files
    BY <2>2
  <2>4. Meant(c) = c.files[Candidates(MeantFile(c))[Min(there)]].means
    BY <1>2 DEF Meant
  <2> QED
    BY <2>3, <2>4, StartupAssumption
<1> QED
  BY <1>1, <1>2

\* Names are only ever added, so a datagram or a row stays one.
LEMMA NamesGrow ==
    ASSUME called \subseteq called'
    PROVE  /\ Datagrams \subseteq Datagrams' /\ Rows \subseteq Rows'
           /\ \A s : /\ s \in Seq(Datagrams) => s \in Seq(Datagrams')
                     /\ s \in Seq(Rows) => s \in Seq(Rows')
<1>1. Datagrams \subseteq Datagrams' /\ Rows \subseteq Rows'
  BY DEF Datagrams, Rows
<1> QED
  BY <1>1, SeqMonotonic

\* A step that leaves the list alone.
LEMMA Names_Kept ==
    ASSUME NamesInv, called \subseteq called', case' \in Cases,
           phase' = "loop" => Meant(case').name \in called',
           air' \subseteq Datagrams', inbox' \in [Members -> Seq(Datagrams')],
           listed' = listed
    PROVE  NamesInv'
<1>1. listed' \in Seq(Rows')
  BY NamesGrow DEF NamesInv
<1>2. ListedAsConfigured'
  BY DEF NamesInv, ListedAsConfigured
<1> QED
  BY <1>1, <1>2 DEF NamesInv

\* A step of a process that sends and takes nothing, its end included.
LEMMA Names_Quiet ==
    ASSUME NamesInv, called \subseteq called', case' \in Cases,
           phase' = "loop" => Meant(case').name \in called',
           UNCHANGED discoveryVars \/ serverLeaves \/ serverJoins
    PROVE  NamesInv'
<1>1. air' = air /\ listed' = listed
  BY DEF discoveryVars, serverLeaves, serverJoins
<1>2. inbox \in [Members -> Seq(Datagrams)] /\ <<>> \in Seq(Datagrams)
  BY EmptySeq DEF NamesInv
<1>3. inbox' \in [Members -> Seq(Datagrams)]
  BY <1>2 DEF discoveryVars, serverLeaves, serverJoins
<1>4. air' \subseteq Datagrams' /\ inbox' \in [Members -> Seq(Datagrams')]
  BY <1>1, <1>3, NamesGrow DEF NamesInv
<1> QED
  BY <1>1, <1>4, Names_Kept

-----------------------------------------------------------------------------
(* The steps.                                                              *)

\* Nothing has been sent or listed when the first run starts.
LEMMA Names_Init == Init => NamesInv
<1> SUFFICES ASSUME Init PROVE NamesInv
  OBVIOUS
<1>1. /\ case \in Cases /\ phase = "static" /\ air = {} /\ listed = <<>>
      /\ inbox = [m \in Members |-> <<>>]
  BY DEF Init, InitDiscovery
<1>2. listed \in Seq(Rows) /\ inbox \in [Members -> Seq(Datagrams)]
  BY <1>1, EmptySeq
<1>3. ListedAsConfigured
  BY <1>1 DEF ListedAsConfigured
<1> QED
  BY <1>1, <1>2, <1>3 DEF NamesInv

\* The steps of main() before the loop, a signal, and the next run.
LEMMA Names_Process ==
    NamesInv /\ (Construct \/ InstallHandlers \/ ParseArtifact \/ CheckPrivileges \/ Fork
                 \/ Signal \/ Restart \/ Done \/ UNCHANGED vars)
      => NamesInv'
<1> SUFFICES ASSUME NamesInv,
                    Construct \/ InstallHandlers \/ ParseArtifact \/ CheckPrivileges \/ Fork
                       \/ Signal \/ Restart \/ Done \/ UNCHANGED vars
             PROVE  NamesInv'
  OBVIOUS
<1>1. called' = called
  BY DEF Construct, InstallHandlers, ParseArtifact, CheckPrivileges, Fork, Signal, Restart, Done,
         vars
<1>2. UNCHANGED discoveryVars \/ serverLeaves \/ serverJoins
  BY DEF Construct, InstallHandlers, ParseArtifact, CheckPrivileges, Fork, Signal, Restart, Done,
         vars, End
<1>3. case' \in Cases
  BY DEF Construct, InstallHandlers, ParseArtifact, CheckPrivileges, Fork, Signal, Restart, Done,
         vars, NamesInv
<1>4. phase' = "loop" => phase = "loop" /\ case' = case
  BY DEF Construct, InstallHandlers, ParseArtifact, CheckPrivileges, Fork, Signal, Restart, Done,
         vars, End
<1> QED
  BY <1>1, <1>2, <1>3, <1>4, Names_Quiet DEF NamesInv

\* A run enters the loop under the name its files give it.
LEMMA Names_TryConfig == NamesInv /\ TryConfig => NamesInv'
<1> SUFFICES ASSUME NamesInv, TryConfig PROVE NamesInv'
  OBVIOUS
<1>1. /\ case' = case
      /\ called' = IF phase' = "loop" THEN called \cup {Meant(case).name} ELSE called
  BY DEF TryConfig
<1>2. UNCHANGED discoveryVars \/ serverLeaves
  BY DEF TryConfig, End
<1> QED
  BY <1>1, <1>2, Names_Quiet DEF NamesInv

\* A turn of the loop: a request is answered with the name in the settings.
LEMMA Names_Cycle == NamesInv /\ ConfiguredAsWritten /\ Cycle => NamesInv'
<1> SUFFICES ASSUME NamesInv, ConfiguredAsWritten, Cycle PROVE NamesInv'
  OBVIOUS
<1>1. UNCHANGED <<case, called>> /\ phase = "loop"
  BY DEF Cycle
<1>2. CASE ~run
  <2>1. serverLeaves /\ phase' = "ended"
    BY <1>2 DEF Cycle, End
  <2> QED
    BY <1>1, <2>1, Names_Quiet DEF NamesInv
<1>3. CASE run
  <2>1. phase' = phase /\ serverCycle(settings.name)
    BY <1>3 DEF Cycle
  <2>2. settings.name = Meant(case).name
    BY <1>1, MeantHasName DEF ConfiguredAsWritten, NamesInv
  <2>3. settings.name \in called
    BY <1>1, <2>2 DEF NamesInv
  <2>4. Sent("daemon", Response(settings.name)) \subseteq Datagrams
    BY <2>3 DEF Sent, Datagrams, Members
  <2>5. air' \subseteq Datagrams /\ listed' = listed
    BY <2>1, <2>4 DEF serverCycle, NamesInv
  <2>6. inbox' \in [Members -> Seq(Datagrams)]
    BY <2>1, HeadTailProperties DEF serverCycle, Remaining, NamesInv
  <2>7. Datagrams' = Datagrams
    BY <1>1 DEF Datagrams
  <2> QED
    BY <1>1, <2>1, <2>5, <2>6, <2>7, Names_Kept DEF NamesInv
<1> QED
  BY <1>2, <1>3

\* The desktop asks, and a datagram arrives.
LEMMA Names_Air == NamesInv /\ (DetectServers \/ DeliverOne) => NamesInv'
<1> SUFFICES ASSUME NamesInv, DetectServers \/ DeliverOne PROVE NamesInv'
  OBVIOUS
<1>1. UNCHANGED <<case, called, phase>>
  BY DEF DetectServers, DeliverOne, Others
<1>2. Datagrams' = Datagrams /\ listed' = listed
  BY <1>1 DEF Datagrams, DetectServers, detectServers, DeliverOne, Deliver
<1>3. CASE DetectServers
  <2>1. Sent("desktop", Request) \subseteq Datagrams
    BY DEF Sent, Datagrams, Members
  <2>2. air' \subseteq Datagrams /\ inbox' = inbox
    BY <1>3, <2>1 DEF DetectServers, detectServers, NamesInv
  <2> QED
    BY <1>1, <1>2, <2>2, Names_Kept DEF NamesInv
<1>4. CASE DeliverOne
  <2>1. PICK d \in air : Deliver(d)
    BY <1>4 DEF DeliverOne
  <2>2. d \in Datagrams
    BY DEF NamesInv
  <2>3. inbox' \in [Members -> Seq(Datagrams)] /\ air' = air
    BY <2>1, <2>2, AppendProperties DEF Deliver, NamesInv
  <2> QED
    BY <1>1, <1>2, <2>3, Names_Kept DEF NamesInv
<1> QED
  BY <1>3, <1>4

\* The window's timer takes a datagram and may add a row.
LEMMA Names_Check == NamesInv /\ CheckServerInfo => NamesInv'
<1> SUFFICES ASSUME NamesInv, CheckServerInfo PROVE NamesInv'
  OBVIOUS
<1> DEFINE d == Head(inbox["desktop"])
           info == [name |-> d.value.name, ip |-> d.from]
<1>1. UNCHANGED <<case, called, phase, air>>
  BY DEF CheckServerInfo, checkServerInfo, Others
<1>2. Datagrams' = Datagrams /\ Rows' = Rows
  BY <1>1 DEF Datagrams, Rows
<1>3. inbox["desktop"] \in Seq(Datagrams) /\ inbox["desktop"] # <<>>
  BY DEF NamesInv, CheckServerInfo, checkServerInfo, Members
<1>4. d \in Datagrams
  BY <1>3, HeadTailProperties
<1>5. inbox' \in [Members -> Seq(Datagrams)]
  BY HeadTailProperties DEF CheckServerInfo, checkServerInfo, Remaining, NamesInv
<1>6. \/ listed' = listed
      \/ d.value.key = "response" /\ listed' = addServer(info)
  BY DEF CheckServerInfo, checkServerInfo, detectedServers, receive
<1>7. d.value.key = "response" => info \in Rows /\ info.name \in called
  BY <1>4 DEF Datagrams, Rows, Request, Response
<1>8. CASE listed' = listed
  BY <1>1, <1>2, <1>5, <1>8, Names_Kept DEF NamesInv
<1>9. CASE d.value.key = "response" /\ listed' # listed
  <2>1. /\ listed' = Append(listed, info) /\ info \in Rows /\ info.name \in called
        /\ \A i \in DOMAIN listed : listed[i].ip # info.ip
    BY <1>6, <1>7, <1>9 DEF addServer, ipInList
  <2> HIDE DEF d, info
  <2> DEFINE n == Len(listed)
  <2>2. /\ listed' \in Seq(Rows) /\ n \in Nat /\ DOMAIN listed = 1..n /\ DOMAIN listed' = 1..(n + 1)
        /\ \A i \in 1..n : listed'[i] = listed[i]
        /\ listed'[n + 1] = info
    BY <2>1, AppendProperties, LenProperties DEF NamesInv
  <2> HIDE DEF n
  <2>3. \A i \in DOMAIN listed' : i \in 1..n \/ i = n + 1
    BY <2>2
  <2>4. ListedAsConfigured'
    BY <1>1, <2>1, <2>2, <2>3 DEF NamesInv, ListedAsConfigured
  <2> QED
    BY <1>1, <1>2, <1>5, <2>2, <2>4 DEF NamesInv
<1> QED
  BY <1>6, <1>8, <1>9

-----------------------------------------------------------------------------
(* Signals.                                                                *)

\* A signal is never forgotten: from its handler on, the flags the loop looks at are
\* down in a process that has not ended, wherever in main() it arrived
\* (catchHandler(), Daemon::shutdown()).
SignalKept == /\ signalled /\ phase # "ended" => ~run
              /\ phase \in {"static", "main"} => ~signalled

\* Startup never forgets a signal, whatever its command line and files.
THEOREM StartupSignalKept == Spec => []SignalKept
<1>1. Init => SignalKept
  BY DEF Init, SignalKept
<1>2. SignalKept /\ [Next]_vars => SignalKept'
  <2> SUFFICES ASSUME SignalKept, [Next]_vars PROVE SignalKept'
    OBVIOUS
  <2>1. CASE Main
    <3>1. signalled' = signalled /\ run' = run
      BY <2>1 DEF Main, Construct, InstallHandlers, ParseArtifact, CheckPrivileges, Fork,
                  TryConfig, Cycle, runVars
    <3>2. /\ phase' \in {"static", "main"} => phase \in {"static", "main"}
          /\ phase # "ended"
      BY <2>1 DEF Main, Construct, InstallHandlers, ParseArtifact, CheckPrivileges, Fork,
                  TryConfig, Cycle, End
    <3> QED
      BY <3>1, <3>2 DEF SignalKept
  <2>2. CASE Signal
    BY <2>2 DEF Signal, End, SignalKept
  <2>3. CASE Restart
    BY <2>3 DEF Restart, SignalKept
  <2>4. CASE DetectServers \/ CheckServerInfo \/ DeliverOne \/ Done \/ UNCHANGED vars
    <3>1. UNCHANGED <<phase, run, signalled>>
      BY <2>4 DEF DetectServers, CheckServerInfo, DeliverOne, Others, Done, vars, runVars
    <3> QED
      BY <3>1 DEF SignalKept
  <2> QED
    BY <2>1, <2>2, <2>3, <2>4 DEF Next
<1> QED
  BY <1>1, <1>2, PTL DEF Spec

-----------------------------------------------------------------------------
(* Induction.                                                              *)

\* A nonempty set of numbers has a least one.
LEMMA SmallestNumber ==
    ASSUME NEW T \in SUBSET Nat, T # {}
    PROVE  \E m \in T : \A n \in T : m <= n
<1>1. IsWellFoundedOn(OpToRel(<, Nat), Nat)
  BY NatLessThanWellFounded
<1>2. PICK x \in T : \A y \in T : <<y, x>> \notin OpToRel(<, Nat)
  BY <1>1, WFMin
<1>3. \A y \in T : ~(y < x)
  <2> SUFFICES ASSUME NEW y \in T, y < x PROVE FALSE
    OBVIOUS
  <2>1. <<y, x>> \in OpToRel(<, Nat)
    BY DEF OpToRel
  <2> QED
    BY <1>2, <2>1
<1> QED
  BY <1>3

\* The smallest member of a set of numbers.
LEMMA MinIsLeast ==
    ASSUME NEW T \in SUBSET Nat, T # {}
    PROVE  Min(T) \in T /\ \A n \in T : Min(T) <= n
  BY SmallestNumber DEF Min

\* The states of a loop from its first to its n-th turn.
Runs(f, n, base, step) == f[0] = base /\ \A i \in 1..n : f[i] = step[<<i, f[i - 1]>>]

\* A loop whose turns keep its state within S runs to its end.
LEMMA LoopRuns ==
    ASSUME NEW n \in Nat, NEW S, NEW base \in S, NEW step \in [(1..n) \X S -> S]
    PROVE  \E f \in [0..n -> S] : Runs(f, n, base, step)
<1> DEFINE P(k) == \E f \in [0..k -> S] :
                      f[0] = base /\ \A i \in 1..k : f[i] = step[<<i, f[i - 1]>>]
           T == {k \in Nat : k <= n /\ ~P(k)}
<1> SUFFICES ASSUME ~P(n) PROVE FALSE
  BY DEF Runs
<1>1. PICK m \in T : \A k \in T : m <= k
  <2>1. n \in T
    OBVIOUS
  <2> HIDE DEF T
  <2>2. T \in SUBSET Nat
    BY DEF T
  <2> QED
    BY <2>1, <2>2, SmallestNumber
<1>2. m \in Nat /\ m <= n /\ ~P(m)
  OBVIOUS
<1>3. CASE m = 0
  <2> DEFINE f == [i \in 0..0 |-> base]
  <2>1. f \in [0..0 -> S] /\ f[0] = base /\ 1..0 = {}
    OBVIOUS
  <2>2. P(0)
    BY <2>1
  <2> QED
    BY <1>2, <1>3, <2>2
<1>4. CASE m # 0
  <2>1. m - 1 \in Nat /\ m - 1 <= n /\ ~(m <= m - 1)
    BY <1>2, <1>4
  <2>2. P(m - 1)
    BY <1>1, <2>1
  <2>3. PICK f \in [0..m - 1 -> S] :
          f[0] = base /\ \A i \in 1..m - 1 : f[i] = step[<<i, f[i - 1]>>]
    BY <2>2
  <2> DEFINE last == step[<<m, f[m - 1]>>]
             g == [i \in 0..m |-> IF i = m THEN last ELSE f[i]]
  <2>4. last \in S
    <3>1. f[m - 1] \in S /\ m \in 1..n
      BY <1>2, <1>4, <2>1
    <3> QED
      BY <3>1
  <2> HIDE DEF last
  <2>5. /\ g \in [0..m -> S] /\ g[0] = base /\ g[m] = last
        /\ \A i \in 0..m - 1 : g[i] = f[i]
    BY <1>2, <1>4, <2>1, <2>3, <2>4
  <2> HIDE DEF g
  <2>6. ASSUME NEW i \in 1..m PROVE g[i] = step[<<i, g[i - 1]>>]
    <3>1. i - 1 \in 0..m - 1
      BY <1>2
    <3>2. g[i - 1] = f[i - 1]
      BY <2>5, <3>1
    <3>3. CASE i = m
      BY <2>5, <3>2, <3>3 DEF last
    <3>4. CASE i # m
      <4>1. i \in 1..m - 1 /\ i \in 0..m - 1
        BY <1>2, <3>4
      <4> QED
        BY <2>3, <2>5, <3>2, <4>1
    <3> QED
      BY <3>3, <3>4
  <2>7. P(m)
    BY <2>5, <2>6
  <2> QED
    BY <1>2, <2>7
<1> QED
  BY <1>3, <1>4

-----------------------------------------------------------------------------
(* The command line.                                                       *)

\* Artifact i is the value of an option: its number of tokens right before it is odd.
IsValueAt(arts, i) ==
    \E j \in 1..i - 1 : /\ \A k \in j..i - 1 : IsToken(arts[k])
                        /\ j = 1 \/ ~IsToken(arts[j - 1])
                        /\ (i - j) % 2 = 1

\* Parity.
LEMMA OddNext == \A n \in Nat : (n + 1) % 2 = 1 <=> n % 2 # 1
  OBVIOUS

\* The first artifact is no value, and any other is one iff the artifact before it is a
\* token and no value itself.
LEMMA ValueAfterToken ==
    ASSUME NEW arts, NEW i \in Nat \ {0}
    PROVE  /\ ~IsValueAt(arts, 1)
           /\ IsValueAt(arts, i + 1) <=> IsToken(arts[i]) /\ ~IsValueAt(arts, i)
<1>1. ~IsValueAt(arts, 1)
  <2>1. 1..1 - 1 = {}
    OBVIOUS
  <2> QED
    BY <2>1 DEF IsValueAt
<1>2. ASSUME IsValueAt(arts, i + 1) PROVE IsToken(arts[i]) /\ ~IsValueAt(arts, i)
  <2>1. PICK j \in 1..(i + 1) - 1 :
          /\ \A k \in j..(i + 1) - 1 : IsToken(arts[k])
          /\ j = 1 \/ ~IsToken(arts[j - 1])
          /\ ((i + 1) - j) % 2 = 1
    BY <1>2 DEF IsValueAt
  <2>2. (i + 1) - 1 = i /\ j \in 1..i /\ i \in j..i /\ j \in Nat
    BY <2>1
  <2>3. \A k \in j..i : IsToken(arts[k])
    BY <2>1, <2>2
  <2>4. ASSUME IsValueAt(arts, i) PROVE FALSE
    <3>1. PICK l \in 1..i - 1 : /\ \A k \in l..i - 1 : IsToken(arts[k])
                                /\ l = 1 \/ ~IsToken(arts[l - 1])
                                /\ (i - l) % 2 = 1
      BY <2>4 DEF IsValueAt
    <3>2. CASE l = j
      <4>1. i - j \in Nat /\ (i + 1) - j = (i - j) + 1
        BY <2>2
      <4> QED
        BY <2>1, <3>1, <3>2, <4>1, OddNext
    <3>3. CASE l < j
      <4>1. j - 1 \in l..i - 1 /\ j # 1
        BY <2>2, <3>1, <3>3
      <4> QED
        BY <2>1, <3>1, <4>1
    <3>4. CASE j < l
      <4>1. l - 1 \in j..i /\ l # 1
        BY <2>2, <3>1, <3>4
      <4> QED
        BY <2>3, <3>1, <4>1
    <3> QED
      BY <2>2, <3>1, <3>2, <3>3, <3>4
  <2> QED
    BY <2>2, <2>3, <2>4
<1>3. ASSUME IsToken(arts[i]), ~IsValueAt(arts, i) PROVE IsValueAt(arts, i + 1)
  <2> DEFINE T == {j \in Nat : 1 <= j /\ j <= i /\ \A k \in j..i : IsToken(arts[k])}
  <2>1. i \in T
    <3>1. \A k \in i..i : k = i
      OBVIOUS
    <3> QED
      BY <1>3, <3>1
  <2>2. PICK m \in T : \A n \in T : m <= n
    <3>1. T \in SUBSET Nat
      OBVIOUS
    <3> HIDE DEF T
    <3> QED
      BY <2>1, <3>1, SmallestNumber
  <2>3. m \in Nat /\ 1 <= m /\ m <= i /\ \A k \in m..i : IsToken(arts[k])
    OBVIOUS
  <2>4. m = 1 \/ ~IsToken(arts[m - 1])
    <3> SUFFICES ASSUME m # 1, IsToken(arts[m - 1]) PROVE FALSE
      OBVIOUS
    <3>1. m - 1 \in Nat /\ 1 <= m - 1 /\ m - 1 <= i /\ ~(m <= m - 1)
      BY <2>3
    <3>2. \A k \in m - 1..i : k = m - 1 \/ k \in m..i
      BY <2>3
    <3>3. m - 1 \in T
      BY <2>3, <3>1, <3>2
    <3> QED
      BY <2>2, <3>1, <3>3
  <2> HIDE DEF T
  <2>5. ((i + 1) - m) % 2 = 1
    <3> SUFFICES ASSUME ((i + 1) - m) % 2 # 1 PROVE FALSE
      OBVIOUS
    <3>1. i - m \in Nat /\ (i + 1) - m = (i - m) + 1
      BY <2>3
    <3>2. (i - m) % 2 = 1
      BY <3>1, OddNext
    <3>3. m # i
      <4> SUFFICES ASSUME m = i PROVE FALSE
        OBVIOUS
      <4>1. (i - m) % 2 = 0
        BY <2>3
      <4> QED
        BY <3>2, <4>1
    <3>4. m \in 1..i - 1 /\ \A k \in m..i - 1 : k \in m..i
      BY <2>3, <3>3
    <3>5. IsValueAt(arts, i)
      BY <2>3, <2>4, <3>2, <3>4 DEF IsValueAt
    <3> QED
      BY <1>3, <3>5
  <2>6. m \in 1..(i + 1) - 1 /\ m..(i + 1) - 1 = m..i
    BY <2>3
  <2> QED
    BY <2>3, <2>4, <2>5, <2>6 DEF IsValueAt
<1> QED
  BY <1>1, <1>2, <1>3

-----------------------------------------------------------------------------
(* The arguments that were parsed.                                         *)

\* Two loops begin alike and take the same turns.
SameTurns(f, g, n) ==
    f[0] = g[0] /\ \A i \in 1..n : f[i - 1] = g[i - 1] => f[i] = g[i]

\* Such loops are alike.
LEMMA LoopsAgree ==
    ASSUME NEW n \in Nat, NEW f, NEW g, SameTurns(f, g, n)
    PROVE  \A i \in 0..n : f[i] = g[i]
<1> DEFINE T == {i \in 0..n : f[i] # g[i]}
<1> SUFFICES ASSUME T # {} PROVE FALSE
  OBVIOUS
<1>1. T \in SUBSET Nat
  OBVIOUS
<1>2. PICK m \in T : \A k \in T : m <= k
  <2> HIDE DEF T
  <2> QED
    BY <1>1, SmallestNumber
<1>3. m \in 0..n /\ f[m] # g[m] /\ m # 0
  BY DEF SameTurns
<1>4. m \in 1..n /\ m - 1 \in 0..n /\ ~(m <= m - 1)
  BY <1>3
<1>5. f[m - 1] = g[m - 1]
  BY <1>2, <1>4
<1> QED
  BY <1>3, <1>4, <1>5 DEF SameTurns

\* What a turn of the loop of parameters() makes of what it has pushed so far.
Pushed(parsed, i, p) == IF i \in OfType(parsed, "Parameter") THEN Append(p, parsed[i].value) ELSE p

\* The loop of parameters() runs to its end.
LEMMA ParametersLoop ==
    ASSUME NEW V, NEW parsed \in Seq(V)
    PROVE  \E f \in [0..Len(parsed) -> Seq({a.value : a \in V})] :
              /\ f[0] = <<>> /\ parameters(parsed) = f[Len(parsed)]
              /\ \A i \in 1..Len(parsed) : f[i] = Pushed(parsed, i, f[i - 1])
<1> DEFINE n == Len(parsed)
           W == {a.value : a \in V}
           S == Seq(W)
           step == [q \in (1..n) \X S |-> Pushed(parsed, q[1], q[2])]
           body(f) == [i \in 0..n |-> IF i = 0 THEN <<>>
                                      ELSE IF i \in OfType(parsed, "Parameter")
                                           THEN Append(f[i - 1], parsed[i].value)
                                           ELSE f[i - 1]]
           g == CHOOSE f : f = body(f)
<1>1. n \in Nat /\ <<>> \in S /\ \A i \in 1..n : parsed[i].value \in W
  BY LenProperties, EmptySeq, ElementOfSeq
<1>2. ASSUME NEW q \in (1..n) \X S PROVE Pushed(parsed, q[1], q[2]) \in S
  <2>1. q[1] \in 1..n /\ q[2] \in S /\ parsed[q[1]].value \in W
    BY <1>1
  <2> HIDE DEF W, n
  <2> QED
    BY <2>1, AppendProperties DEF Pushed
<1>3. step \in [(1..n) \X S -> S]
  <2> HIDE DEF n, S
  <2> QED
    BY <1>2
<1>4. \A i \in 1..n : \A p \in S : step[<<i, p>>] = Pushed(parsed, i, p)
  <2> HIDE DEF n, S
  <2> QED
    OBVIOUS
<1> HIDE DEF step
<1>5. PICK f \in [0..n -> S] : f[0] = <<>> /\ \A i \in 1..n : f[i] = step[<<i, f[i - 1]>>]
  <2>1. n \in Nat /\ <<>> \in S
    BY <1>1
  <2> HIDE DEF n, S, body, g
  <2>2. PICK f \in [0..n -> S] : Runs(f, n, <<>>, step)
    BY <1>3, <2>1, LoopRuns
  <2> QED
    BY <2>2 DEF Runs
<1> HIDE DEF S, n
<1>6. \A i \in 1..n : f[i] = Pushed(parsed, i, f[i - 1])
  <2> SUFFICES ASSUME NEW i \in 1..n PROVE f[i] = Pushed(parsed, i, f[i - 1])
    OBVIOUS
  <2>1. i - 1 \in 0..n
    BY <1>1
  <2> QED
    BY <1>4, <1>5, <2>1
<1>7. f = body(f)
  <2>1. \A i \in 0..n : f[i] = body(f)[i]
    <3> SUFFICES ASSUME NEW i \in 0..n PROVE f[i] = body(f)[i]
      OBVIOUS
    <3>1. CASE i = 0
      BY <1>5, <3>1
    <3>2. CASE i # 0
      <4>1. i \in 1..n
        BY <1>1, <3>2
      <4> QED
        BY <1>6, <3>2, <4>1 DEF Pushed
    <3> QED
      BY <3>1, <3>2
  <2>2. DOMAIN f = 0..n /\ DOMAIN body(f) = 0..n
    BY <1>5
  <2>3. f = [i \in 0..n |-> f[i]] /\ body(f) = [i \in 0..n |-> body(f)[i]]
    BY <2>2
  <2> HIDE DEF body
  <2> QED
    BY <2>1, <2>3
<1>8. g = body(g)
  <2> HIDE DEF body
  <2> QED
    BY <1>7
<1>9. parameters(parsed) = g[n]
  BY DEF parameters, n
<1> HIDE DEF g
<1>10. \A i \in 0..n : g[i] = IF i = 0 THEN <<>> ELSE Pushed(parsed, i, g[i - 1])
  <2>1. \A i \in 0..n : body(g)[i] = IF i = 0 THEN <<>> ELSE Pushed(parsed, i, g[i - 1])
    BY DEF Pushed
  <2> HIDE DEF body
  <2> QED
    BY <1>8, <2>1
<1>11. \A i \in 0..n : f[i] = g[i]
  <2>1. f[0] = g[0]
    BY <1>1, <1>5, <1>10
  <2>2. ASSUME NEW i \in 1..n, f[i - 1] = g[i - 1] PROVE f[i] = g[i]
    <3>1. i \in 0..n /\ i # 0
      BY <1>1
    <3> QED
      BY <1>6, <1>10, <2>2, <3>1
  <2>3. SameTurns(f, g, n)
    BY <2>1, <2>2 DEF SameTurns
  <2>4. n \in Nat
    BY <1>1
  <2> HIDE DEF body
  <2> QED
    BY <2>3, <2>4, LoopsAgree
<1>12. parameters(parsed) = f[n]
  BY <1>1, <1>9, <1>11
<1> QED
  BY <1>5, <1>6, <1>12 DEF S, n

\* One argument more.
LEMMA OneMore ==
    ASSUME NEW V, NEW parsed \in Seq(V), NEW a \in V
    PROVE  /\ \A type : OfType(Append(parsed, a), type) =
                           OfType(parsed, type) \cup (IF a.type = type THEN {Len(parsed) + 1} ELSE {})
           /\ \A type : OfType(parsed, type) \in SUBSET (1..Len(parsed))
           /\ \A i \in 1..Len(parsed) : Append(parsed, a)[i] = parsed[i]
           /\ Append(parsed, a)[Len(parsed) + 1] = a /\ Len(parsed) \in Nat
           /\ Append(parsed, a) \in Seq(V) /\ Len(Append(parsed, a)) = Len(parsed) + 1
<1> DEFINE more == Append(parsed, a)
           n == Len(parsed)
<1>1. /\ more \in Seq(V) /\ Len(more) = n + 1 /\ n \in Nat /\ more[n + 1] = a
      /\ \A i \in 1..n : more[i] = parsed[i]
  BY AppendProperties, LenProperties
<1>2. DOMAIN parsed = 1..n /\ DOMAIN more = 1..n + 1
  BY <1>1, LenProperties
<1> HIDE DEF more, n
<1>3. 1..n + 1 = 1..n \cup {n + 1}
  BY <1>1
<1>4. ASSUME NEW type PROVE OfType(more, type) = OfType(parsed, type) \cup (IF a.type = type THEN {n + 1} ELSE {})
  <2>1. OfType(more, type) = {i \in 1..n : more[i].type = type} \cup {i \in {n + 1} : more[i].type = type}
    BY <1>2, <1>3 DEF OfType
  <2>2. {i \in 1..n : more[i].type = type} = OfType(parsed, type)
    BY <1>1, <1>2 DEF OfType
  <2>3. {i \in {n + 1} : more[i].type = type} = IF a.type = type THEN {n + 1} ELSE {}
    BY <1>1
  <2> QED
    BY <2>1, <2>2, <2>3
<1>5. ASSUME NEW type PROVE OfType(parsed, type) \in SUBSET (1..n)
  BY <1>2 DEF OfType
<1> QED
  BY <1>1, <1>4, <1>5 DEF more, n

\* What one argument more means for switched() and value().
LEMMA OneMoreOption ==
    ASSUME NEW V, NEW parsed \in Seq(V), NEW a \in V
    PROVE  /\ switched(Append(parsed, a)) <=> switched(parsed) \/ a.type = "Switch"
           /\ OfType(Append(parsed, a), "Token") = {} <=> OfType(parsed, "Token") = {} /\ a.type # "Token"
           /\ tokenValue(Append(parsed, a)) =
                 IF OfType(parsed, "Token") = {} /\ a.type = "Token" THEN a.value ELSE tokenValue(parsed)
<1> DEFINE more == Append(parsed, a)
           n == Len(parsed)
           T == OfType(parsed, "Token")
           U == OfType(more, "Token")
<1>1. /\ OfType(more, "Switch") = OfType(parsed, "Switch") \cup (IF a.type = "Switch" THEN {n + 1} ELSE {})
      /\ U = T \cup (IF a.type = "Token" THEN {n + 1} ELSE {})
      /\ T \in SUBSET (1..n) /\ n \in Nat /\ more[n + 1] = a
      /\ \A i \in 1..n : more[i] = parsed[i]
  BY OneMore
<1>2. switched(more) <=> switched(parsed) \/ a.type = "Switch"
  BY <1>1 DEF switched
<1>3. U = {} <=> T = {} /\ a.type # "Token"
  BY <1>1
<1>4. tokenValue(parsed) = IF T = {} THEN <<0, "">> ELSE parsed[Min(T)].value
  BY DEF tokenValue
<1>5. tokenValue(more) = IF U = {} THEN <<0, "">> ELSE more[Min(U)].value
  BY DEF tokenValue
<1> HIDE DEF more, n, T, U
<1>6. tokenValue(more) = IF T = {} /\ a.type = "Token" THEN a.value ELSE tokenValue(parsed)
  <2>1. CASE T = {} /\ a.type # "Token"
    BY <1>3, <1>4, <1>5, <2>1
  <2>2. CASE T = {} /\ a.type = "Token"
    <3>1. U = {n + 1} /\ U # {} /\ U \in SUBSET Nat
      BY <1>1, <2>2
    <3>2. Min(U) = n + 1
      BY <3>1, MinIsLeast
    <3> QED
      BY <1>1, <1>5, <2>2, <3>1, <3>2
  <2>3. CASE T # {}
    <3>1. T \in SUBSET Nat /\ U \in SUBSET Nat /\ U # {}
      BY <1>1, <2>3
    <3>2. Min(T) \in T /\ Min(U) \in U /\ (\A k \in T : Min(T) <= k) /\ \A k \in U : Min(U) <= k
      BY <2>3, <3>1, MinIsLeast
    <3>3. Min(T) \in 1..n /\ Min(T) \in U
      BY <1>1, <3>2
    <3> DEFINE u == Min(U)
               t == Min(T)
    <3> HIDE DEF u, t
    <3>4. u <= t /\ u # n + 1
      <4>1. u <= t /\ t \in 1..n
        BY <3>2, <3>3 DEF u, t
      <4> QED
        BY <1>1, <4>1
    <3>5. u \in T
      BY <1>1, <3>2, <3>4 DEF u
    <3>6. u = t
      <4>1. t <= u /\ u \in Nat /\ t \in Nat
        BY <3>1, <3>2, <3>5 DEF t
      <4> QED
        BY <3>4, <4>1
    <3> QED
      BY <1>1, <1>4, <1>5, <2>3, <3>1, <3>3, <3>6 DEF u, t
  <2> QED
    BY <2>1, <2>2, <2>3
<1> QED
  BY <1>2, <1>3, <1>6 DEF more, T, U

\* And for parameters().
LEMMA OneMoreParameter ==
    ASSUME NEW V, NEW parsed \in Seq(V), NEW a \in V
    PROVE  /\ parameters(parsed) \in Seq({x.value : x \in V})
           /\ parameters(Append(parsed, a)) =
                 IF a.type = "Parameter" THEN Append(parameters(parsed), a.value) ELSE parameters(parsed)
<1> DEFINE more == Append(parsed, a)
           n == Len(parsed)
           P == OfType(parsed, "Parameter")
           Q == OfType(more, "Parameter")
           W == {x.value : x \in V}
<1>1. /\ Q = P \cup (IF a.type = "Parameter" THEN {n + 1} ELSE {})
      /\ P \in SUBSET (1..n) /\ n \in Nat /\ more[n + 1] = a
      /\ \A i \in 1..n : more[i] = parsed[i]
      /\ more \in Seq(V) /\ Len(more) = n + 1
  BY OneMore
<1>2. PICK f \in [0..n -> Seq(W)] :
        /\ f[0] = <<>> /\ parameters(parsed) = f[n]
        /\ \A i \in 1..n : f[i] = Pushed(parsed, i, f[i - 1])
  BY ParametersLoop
<1>3. PICK g \in [0..Len(more) -> Seq(W)] :
        /\ g[0] = <<>> /\ parameters(more) = g[Len(more)]
        /\ \A i \in 1..Len(more) : g[i] = Pushed(more, i, g[i - 1])
  BY <1>1, ParametersLoop
<1> HIDE DEF more, n, P, Q, W
<1>4. /\ \A i \in 1..n : g[i] = Pushed(more, i, g[i - 1])
      /\ g[n + 1] = Pushed(more, n + 1, g[n]) /\ parameters(more) = g[n + 1]
  <2>1. (n + 1) - 1 = n /\ n + 1 \in 1..n + 1 /\ \A i \in 1..n : i \in 1..n + 1
    BY <1>1
  <2> QED
    BY <1>1, <1>3, <2>1
<1>5. \A i \in 0..n : f[i] = g[i]
  <2>1. ASSUME NEW i \in 1..n, f[i - 1] = g[i - 1] PROVE f[i] = g[i]
    <3>1. i \in P <=> i \in Q
      BY <1>1
    <3> QED
      BY <1>1, <1>2, <1>4, <2>1, <3>1 DEF Pushed, P, Q
  <2>2. f[0] = g[0]
    BY <1>2, <1>3
  <2>3. SameTurns(f, g, n)
    BY <2>1, <2>2 DEF SameTurns
  <2>4. n \in Nat
    BY <1>1
  <2> QED
    BY <2>3, <2>4, LoopsAgree
<1>6. f[n] = g[n] /\ f[n] \in Seq(W)
  BY <1>1, <1>2, <1>5
<1>7. n + 1 \in Q <=> a.type = "Parameter"
  BY <1>1
<1>8. parameters(more) = IF a.type = "Parameter" THEN Append(parameters(parsed), a.value) ELSE parameters(parsed)
  BY <1>1, <1>2, <1>4, <1>6, <1>7 DEF Pushed, Q
<1> QED
  BY <1>2, <1>6, <1>8 DEF W, more

\* One element more, from a place after the others.
LEMMA PickOneMore ==
    ASSUME NEW W, NEW s \in Seq(W), NEW from, NEW places \in SUBSET Nat, NEW p \in Nat,
           \A q \in places : q < p, from[p] \in W, PickedInOrder(s, from, places)
    PROVE  PickedInOrder(Append(s, from[p]), from, places \cup {p})
<1> DEFINE n == Len(s)
           t == Append(s, from[p])
<1>1. n \in Nat /\ DOMAIN s = 1..n
  BY LenProperties
<1>2. /\ t \in Seq(W) /\ Len(t) = n + 1 /\ t[n + 1] = from[p]
      /\ \A i \in 1..n : t[i] = s[i]
  BY AppendProperties
<1>3. DOMAIN t = 1..n + 1
  BY <1>2, LenProperties
<1> HIDE DEF n, t
<1>4. PICK place \in [1..n -> places] :
        /\ \A i, j \in 1..n : i < j => place[i] < place[j]
        /\ \A q \in places : \E i \in 1..n : place[i] = q
        /\ \A i \in 1..n : s[i] = from[place[i]]
  BY <1>1 DEF PickedInOrder
<1> DEFINE more == places \cup {p}
           pl == [i \in 1..n + 1 |-> IF i = n + 1 THEN p ELSE place[i]]
<1>5. /\ pl \in [1..n + 1 -> more] /\ pl[n + 1] = p /\ n + 1 \in 1..n + 1
      /\ \A i \in 1..n : pl[i] = place[i] /\ i \in 1..n + 1
      /\ \A i \in 1..n + 1 : i = n + 1 \/ i \in 1..n
  BY <1>1, <1>4
<1> HIDE DEF pl
<1>6. ASSUME NEW i \in 1..n + 1, NEW j \in 1..n + 1, i < j PROVE pl[i] < pl[j]
  <2>1. i \in 1..n
    BY <1>1, <1>6
  <2>2. pl[i] = place[i] /\ place[i] \in places
    BY <1>4, <1>5, <2>1
  <2>3. CASE j = n + 1
    BY <1>5, <2>2, <2>3
  <2>4. CASE j \in 1..n
    BY <1>4, <1>5, <1>6, <2>1, <2>4
  <2> QED
    BY <1>5, <2>3, <2>4
<1>7. ASSUME NEW q \in more PROVE \E i \in 1..n + 1 : pl[i] = q
  <2>1. CASE q = p
    BY <1>5, <2>1
  <2>2. CASE q \in places
    <3>1. PICK i \in 1..n : place[i] = q
      BY <1>4, <2>2
    <3> QED
      BY <1>5, <3>1
  <2> QED
    BY <2>1, <2>2
<1>8. ASSUME NEW i \in 1..n + 1 PROVE t[i] = from[pl[i]]
  BY <1>2, <1>4, <1>5
<1> QED
  BY <1>3, <1>5, <1>6, <1>7, <1>8 DEF PickedInOrder, t

\* An artifact, as a Case has it.
Artifact == Nat \X STRING

\* What the parser adds.
Arguments == [type : {"Switch", "Token", "Parameter"}, value : Artifact \cup {<<>>}]

\* The artifacts before the n-th that are values, that are switches, and that are
\* parameters.
ValuesBefore(arts, n) == {i \in 1..n - 1 : IsValueAt(arts, i)}
SwitchesBefore(arts, n) == {i \in 1..n - 1 : ~IsValueAt(arts, i) /\ IsSwitch(arts[i])}
PlainBefore(arts, n) == {i \in 1..n - 1 : ~IsValueAt(arts, i) /\ arts[i][1] = 0}

\* The arguments say what the artifacts before the n-th say.
Understood(arts, parsed, n) ==
    /\ parsed \in Seq(Arguments) /\ n \in 1..Len(arts) + 1
    /\ switched(parsed) <=> SwitchesBefore(arts, n) # {}
    /\ OfType(parsed, "Token") = {} <=> ValuesBefore(arts, n) = {}
    /\ tokenValue(parsed) = IF ValuesBefore(arts, n) = {} THEN <<0, "">>
                            ELSE arts[Min(ValuesBefore(arts, n))]
    /\ PickedInOrder(parameters(parsed), arts, PlainBefore(arts, n))

\* What an artifact that is no value adds to each of the three.
LEMMA BeforeNext ==
    ASSUME NEW arts, NEW n \in Nat \ {0}, ~IsValueAt(arts, n)
    PROVE  /\ ValuesBefore(arts, n + 1) = ValuesBefore(arts, n)
           /\ SwitchesBefore(arts, n + 1) =
                 SwitchesBefore(arts, n) \cup (IF IsSwitch(arts[n]) THEN {n} ELSE {})
           /\ PlainBefore(arts, n + 1) =
                 PlainBefore(arts, n) \cup (IF arts[n][1] = 0 THEN {n} ELSE {})
<1>1. 1..(n + 1) - 1 = 1..n - 1 \cup {n}
  OBVIOUS
<1> QED
  BY <1>1 DEF ValuesBefore, SwitchesBefore, PlainBefore

\* And a value.
LEMMA BeforeNextValue ==
    ASSUME NEW arts, NEW n \in Nat \ {0}, IsValueAt(arts, n)
    PROVE  /\ ValuesBefore(arts, n + 1) = ValuesBefore(arts, n) \cup {n}
           /\ SwitchesBefore(arts, n + 1) = SwitchesBefore(arts, n)
           /\ PlainBefore(arts, n + 1) = PlainBefore(arts, n)
<1>1. 1..(n + 1) - 1 = 1..n - 1 \cup {n}
  OBVIOUS
<1> QED
  BY <1>1 DEF ValuesBefore, SwitchesBefore, PlainBefore

\* Options and parameters are different artifacts.
LEMMA KindsDiffer ==
    ASSUME NEW a
    PROVE  /\ ~(IsSwitch(a) /\ IsToken(a))
           /\ IsSwitch(a) \/ IsToken(a) => a[1] # 0
  BY DEF IsSwitch, IsToken

\* A value after all the others is not the first, unless there is no other.
LEMMA FirstOfMore ==
    ASSUME NEW S \in SUBSET Nat, NEW n \in Nat, \A i \in S : i < n
    PROVE  Min(S \cup {n}) = IF S = {} THEN n ELSE Min(S)
<1> DEFINE U == S \cup {n}
           u == Min(U)
<1>1. U \in SUBSET Nat /\ U # {}
  OBVIOUS
<1>2. u \in U /\ \A k \in U : u <= k
  BY <1>1, MinIsLeast
<1>3. CASE S = {}
  BY <1>2, <1>3
<1>4. CASE S # {}
  <2> DEFINE m == Min(S)
  <2>1. m \in S /\ \A k \in S : m <= k
    BY <1>4, MinIsLeast
  <2> HIDE DEF u, m
  <2>2. u <= m /\ m < n /\ m \in Nat /\ u \in Nat
    BY <1>1, <1>2, <2>1
  <2>3. u \in S
    BY <1>2, <2>2
  <2>4. m <= u
    BY <2>1, <2>3
  <2>5. u = m
    BY <2>2, <2>4
  <2> QED
    BY <1>4, <2>5 DEF u, m
<1> QED
  BY <1>3, <1>4

\* A turn of parse(): what it adds is right, and the next turn begins at an artifact that
\* is no value.
LEMMA ParseTurn ==
    ASSUME NEW arts \in Seq(Artifact), NEW parsed, NEW n \in 1..Len(arts),
           Understood(arts, parsed, n), ~IsValueAt(arts, n)
    PROVE  LET p == parseArtifact(arts, n)
           IN  /\ Understood(arts, parsed \o p.add, p.next)
               /\ p.next <= Len(arts) => ~IsValueAt(arts, p.next)
<1> DEFINE a == arts[n]
           p == parseArtifact(arts, n)
           W == {x.value : x \in Arguments}
<1>1. Len(arts) \in Nat /\ n \in Nat \ {0} /\ a \in Artifact /\ n <= Len(arts)
  BY LenProperties, ElementOfSeq
<1>2. /\ parsed \in Seq(Arguments)
      /\ switched(parsed) <=> SwitchesBefore(arts, n) # {}
      /\ OfType(parsed, "Token") = {} <=> ValuesBefore(arts, n) = {}
      /\ tokenValue(parsed) = IF ValuesBefore(arts, n) = {} THEN <<0, "">>
                              ELSE arts[Min(ValuesBefore(arts, n))]
      /\ PickedInOrder(parameters(parsed), arts, PlainBefore(arts, n))
  BY DEF Understood
<1>3. n + 1 \in 1..Len(arts) + 1
  BY <1>1
<1>4. /\ ValuesBefore(arts, n + 1) = ValuesBefore(arts, n)
      /\ SwitchesBefore(arts, n + 1) =
            SwitchesBefore(arts, n) \cup (IF IsSwitch(a) THEN {n} ELSE {})
      /\ PlainBefore(arts, n + 1) = PlainBefore(arts, n) \cup (IF a[1] = 0 THEN {n} ELSE {})
  BY <1>1, BeforeNext
<1>5. IsValueAt(arts, n + 1) <=> IsToken(a)
  BY <1>1, ValueAfterToken
<1>6. /\ ~(IsSwitch(a) /\ IsToken(a)) /\ (IsSwitch(a) \/ IsToken(a) => a[1] # 0)
  BY KindsDiffer
<1>7. \A x \in Arguments : parsed \o <<x>> = Append(parsed, x) /\ Append(parsed, x) \in Seq(Arguments)
  BY <1>2, AppendProperties, AppendIsConcat
<1>8. ASSUME IsSwitch(a)
      PROVE  Understood(arts, parsed \o p.add, p.next) /\ (p.next <= Len(arts) => ~IsValueAt(arts, p.next))
  <2> DEFINE x == Argument("Switch", <<>>)
  <2>1. p.add = <<x>> /\ p.next = n + 1
    BY <1>6, <1>8 DEF parseArtifact
  <2>2. x \in Arguments /\ x.type = "Switch"
    BY DEF Argument, Arguments
  <2> HIDE DEF x, a, p
  <2>3. /\ switched(Append(parsed, x)) /\ tokenValue(Append(parsed, x)) = tokenValue(parsed)
        /\ OfType(Append(parsed, x), "Token") = {} <=> OfType(parsed, "Token") = {}
    BY <1>2, <2>2, OneMoreOption
  <2>4. parameters(Append(parsed, x)) = parameters(parsed)
    BY <1>2, <2>2, OneMoreParameter
  <2>5. PlainBefore(arts, n + 1) = PlainBefore(arts, n) /\ SwitchesBefore(arts, n + 1) # {}
    BY <1>4, <1>6, <1>8
  <2>6. Understood(arts, Append(parsed, x), n + 1)
    BY <1>2, <1>3, <1>4, <1>7, <2>2, <2>3, <2>4, <2>5 DEF Understood
  <2> QED
    BY <1>5, <1>6, <1>7, <1>8, <2>1, <2>2, <2>6
<1>9. ASSUME IsToken(a), n < Len(arts)
      PROVE  Understood(arts, parsed \o p.add, p.next) /\ (p.next <= Len(arts) => ~IsValueAt(arts, p.next))
  <2> DEFINE v == arts[n + 1]
             x == Argument("Token", v)
             m == n + 1
  <2>1. p.add = <<x>> /\ p.next = n + 2
    BY <1>6, <1>9 DEF parseArtifact
  <2>2. v \in Artifact /\ m \in Nat \ {0} /\ n + 2 = m + 1 /\ n + 2 \in 1..Len(arts) + 1
    <3>1. n + 1 \in 1..Len(arts)
      BY <1>1, <1>9
    <3> QED
      BY <1>1, <1>9, <3>1, ElementOfSeq
  <2>3. x \in Arguments /\ x.type = "Token" /\ x.value = v
    BY <2>2 DEF Argument, Arguments
  <2>4. IsValueAt(arts, m)
    BY <1>5, <1>9
  <2>5. ~IsValueAt(arts, m + 1)
    BY <2>2, <2>4, ValueAfterToken
  <2>6. /\ ValuesBefore(arts, m + 1) = ValuesBefore(arts, n) \cup {m}
        /\ SwitchesBefore(arts, m + 1) = SwitchesBefore(arts, n)
        /\ PlainBefore(arts, m + 1) = PlainBefore(arts, n)
    <3>1. /\ ValuesBefore(arts, m + 1) = ValuesBefore(arts, m) \cup {m}
          /\ SwitchesBefore(arts, m + 1) = SwitchesBefore(arts, m)
          /\ PlainBefore(arts, m + 1) = PlainBefore(arts, m)
      <4> HIDE DEF m
      <4> QED
        BY <2>2, <2>4, BeforeNextValue
    <3>2. ~IsSwitch(a) /\ a[1] # 0
      BY <1>6, <1>9
    <3> QED
      BY <1>4, <3>1, <3>2
  <2>7. ValuesBefore(arts, n) \in SUBSET Nat /\ \A i \in ValuesBefore(arts, n) : i < m
    BY <1>1 DEF ValuesBefore
  <2> HIDE DEF x, a, p, v
  <2>8. /\ switched(Append(parsed, x)) <=> switched(parsed)
        /\ tokenValue(Append(parsed, x)) =
              IF OfType(parsed, "Token") = {} THEN v ELSE tokenValue(parsed)
        /\ OfType(Append(parsed, x), "Token") # {}
    BY <1>2, <2>3, OneMoreOption
  <2>9. parameters(Append(parsed, x)) = parameters(parsed)
    BY <1>2, <2>3, OneMoreParameter
  <2> DEFINE S == ValuesBefore(arts, n)
  <2>10. Min(S \cup {m}) = IF S = {} THEN m ELSE Min(S)
    BY <2>2, <2>7, FirstOfMore
  <2>11. tokenValue(Append(parsed, x)) = arts[Min(S \cup {m})]
    BY <1>2, <2>8, <2>10 DEF v
  <2> HIDE DEF S, m
  <2>12. S \cup {m} # {}
    OBVIOUS
  <2>13. Understood(arts, Append(parsed, x), m + 1)
    BY <1>2, <1>7, <2>2, <2>3, <2>6, <2>8, <2>9, <2>11, <2>12 DEF Understood, S
  <2> QED
    BY <1>7, <2>1, <2>2, <2>3, <2>5, <2>13
<1>10. ASSUME a[1] = 0
       PROVE  Understood(arts, parsed \o p.add, p.next) /\ (p.next <= Len(arts) => ~IsValueAt(arts, p.next))
  <2> DEFINE x == Argument("Parameter", a)
             s == parameters(parsed)
             places == PlainBefore(arts, n)
  <2>1. p.add = <<x>> /\ p.next = n + 1
    BY <1>6, <1>10 DEF parseArtifact
  <2>2. x \in Arguments /\ x.type = "Parameter" /\ x.value = a
    BY <1>1 DEF Argument, Arguments
  <2>3. a \in W
    BY <2>2
  <2>4. places \in SUBSET Nat /\ \A q \in places : q < n
    BY <1>1 DEF PlainBefore
  <2> HIDE DEF x, p, W
  <2>5. /\ switched(Append(parsed, x)) <=> switched(parsed)
        /\ tokenValue(Append(parsed, x)) = tokenValue(parsed)
        /\ OfType(Append(parsed, x), "Token") = {} <=> OfType(parsed, "Token") = {}
    BY <1>2, <2>2, OneMoreOption
  <2>6. parameters(Append(parsed, x)) = Append(s, arts[n]) /\ s \in Seq(W)
    BY <1>2, <2>2, OneMoreParameter DEF W
  <2>7. SwitchesBefore(arts, n + 1) = SwitchesBefore(arts, n) /\ PlainBefore(arts, n + 1) = places \cup {n}
    BY <1>4, <1>6, <1>10
  <2> HIDE DEF s, places
  <2>8. PickedInOrder(Append(s, arts[n]), arts, places \cup {n})
    <3>1. PickedInOrder(s, arts, places)
      BY <1>2 DEF s, places
    <3> QED
      BY <1>1, <2>3, <2>4, <2>6, <3>1, PickOneMore
  <2>9. Understood(arts, Append(parsed, x), n + 1)
    BY <1>2, <1>3, <1>4, <1>7, <2>2, <2>5, <2>6, <2>7, <2>8 DEF Understood
  <2> QED
    BY <1>5, <1>6, <1>7, <1>10, <2>1, <2>2, <2>9
<1>11. ASSUME ~IsSwitch(a), a[1] # 0, ~(IsToken(a) /\ n < Len(arts))
       PROVE  Understood(arts, parsed \o p.add, p.next) /\ (p.next <= Len(arts) => ~IsValueAt(arts, p.next))
  <2>1. p.add = <<>> /\ p.next = n + 1
    BY <1>11 DEF parseArtifact
  <2>2. parsed \o <<>> = parsed
    BY <1>2, ConcatEmptySeq
  <2>3. SwitchesBefore(arts, n + 1) = SwitchesBefore(arts, n) /\ PlainBefore(arts, n + 1) = PlainBefore(arts, n)
    BY <1>4, <1>11
  <2>4. Understood(arts, parsed, n + 1)
    BY <1>2, <1>3, <1>4, <2>3 DEF Understood
  <2>5. ASSUME n + 1 <= Len(arts) PROVE ~IsValueAt(arts, n + 1)
    <3>1. n < Len(arts)
      BY <1>1, <2>5
    <3> QED
      BY <1>5, <1>11, <3>1
  <2> QED
    BY <2>1, <2>2, <2>4, <2>5
<1> QED
  BY <1>8, <1>9, <1>10, <1>11

-----------------------------------------------------------------------------
(* The command line, in a run.                                             *)

\* The inductive invariant: parse() has understood what it has passed, it stands at no
\* option's value, and what it has understood is kept to the loop.
ParsedInv ==
    /\ case \in Cases
    /\ phase \in {"static", "main", "parse"} =>
          /\ Understood(case.args, args, at)
          /\ at <= Len(case.args) => ~IsValueAt(case.args, at)
    /\ phase \in {"privileges", "fork"} => at = 1
    /\ phase \in {"privileges", "fork", "config", "loop"} =>
          Understood(case.args, args, Len(case.args) + 1)
    /\ phase \in {"config", "loop"} => background = switched(args)

\* The whole of a command line is what is before its end.
LEMMA WholeCommandLine ==
    ASSUME NEW arts \in Seq(Artifact)
    PROVE  /\ ValuesAmong(arts) = ValuesBefore(arts, Len(arts) + 1)
           /\ PlainAmong(arts) = PlainBefore(arts, Len(arts) + 1)
           /\ {i \in DOMAIN arts \ ValuesAmong(arts) : IsSwitch(arts[i])} =
                 SwitchesBefore(arts, Len(arts) + 1)
<1>1. DOMAIN arts = 1..Len(arts) /\ Len(arts) \in Nat
  BY LenProperties
<1>2. 1..(Len(arts) + 1) - 1 = DOMAIN arts
  BY <1>1
<1>3. ValuesAmong(arts) = {i \in DOMAIN arts : IsValueAt(arts, i)}
  BY DEF ValuesAmong, IsValueAt
<1> QED
  BY <1>2, <1>3 DEF ValuesBefore, PlainBefore, SwitchesBefore, PlainAmong

\* Before the first turn there is nothing to understand.
LEMMA NothingParsed ==
    ASSUME NEW arts \in Seq(Artifact)
    PROVE  Understood(arts, <<>>, 1) /\ ~IsValueAt(arts, 1)
<1>1. Len(arts) \in Nat /\ 1 \in 1..Len(arts) + 1
  BY LenProperties
<1>2. 1..1 - 1 = {}
  OBVIOUS
<1>3. ValuesBefore(arts, 1) = {} /\ SwitchesBefore(arts, 1) = {} /\ PlainBefore(arts, 1) = {}
  BY <1>2 DEF ValuesBefore, SwitchesBefore, PlainBefore
<1>4. <<>> \in Seq(Arguments) /\ Len(<<>>) = 0 /\ DOMAIN <<>> = {}
  BY EmptySeq, <1>2
<1>5. \A type : OfType(<<>>, type) = {}
  BY <1>4 DEF OfType
<1>6. ~switched(<<>>) /\ tokenValue(<<>>) = <<0, "">>
  BY <1>5 DEF switched, tokenValue
<1>7. parameters(<<>>) = <<>>
  <2>1. PICK f \in [0..Len(<<>>) -> Seq({a.value : a \in Arguments})] :
          f[0] = <<>> /\ parameters(<<>>) = f[Len(<<>>)]
    BY <1>4, ParametersLoop
  <2> QED
    BY <1>4, <2>1
<1>8. PickedInOrder(<<>>, arts, {})
  <2> DEFINE place == [i \in DOMAIN <<>> |-> 0]
  <2>1. place \in [DOMAIN <<>> -> {}]
    BY <1>4
  <2> QED
    BY <1>4, <2>1 DEF PickedInOrder
<1>9. ~IsValueAt(arts, 1)
  BY ValueAfterToken
<1> QED
  BY <1>1, <1>3, <1>4, <1>5, <1>6, <1>7, <1>8, <1>9 DEF Understood

\* A run begins with nothing parsed.
LEMMA Parsed_Start ==
    ASSUME NEW c \in Cases
    PROVE  Understood(c.args, <<>>, 1) /\ (1 <= Len(c.args) => ~IsValueAt(c.args, 1))
<1>1. c.args \in Seq(Artifact)
  BY StartupAssumption DEF Artifact
<1> QED
  BY <1>1, NothingParsed

\* The first run.
LEMMA Parsed_Init == Init => ParsedInv
<1> SUFFICES ASSUME Init PROVE ParsedInv
  OBVIOUS
<1>1. case \in Cases /\ phase = "static" /\ at = 1 /\ args = <<>>
  BY DEF Init
<1> QED
  BY <1>1, Parsed_Start DEF ParsedInv

\* A turn of parse(), or its end.
LEMMA Parsed_ParseArtifact == ParsedInv /\ ParseArtifact => ParsedInv'
<1> SUFFICES ASSUME ParsedInv, ParseArtifact PROVE ParsedInv'
  OBVIOUS
<1>1. /\ case \in Cases /\ case' = case /\ phase = "parse"
      /\ Understood(case.args, args, at)
      /\ at <= Len(case.args) => ~IsValueAt(case.args, at)
  BY DEF ParsedInv, ParseArtifact
<1>2. case.args \in Seq(Artifact)
  BY <1>1, StartupAssumption DEF Artifact
<1>3. Len(case.args) \in Nat /\ at \in 1..Len(case.args) + 1
  BY <1>1, <1>2, LenProperties DEF Understood
<1>4. CASE at > Len(case.args)
  <2>1. at = Len(case.args) + 1
    BY <1>3, <1>4
  <2>2. phase' = "privileges" /\ at' = 1 /\ args' = args
    BY <1>4 DEF ParseArtifact
  <2>3. Understood(case'.args, args', Len(case'.args) + 1)
    BY <1>1, <2>1, <2>2
  <2> QED
    BY <1>1, <2>2, <2>3 DEF ParsedInv
<1>5. CASE ~(at > Len(case.args))
  <2> DEFINE p == parseArtifact(case.args, at)
  <2>1. at \in 1..Len(case.args) /\ at <= Len(case.args)
    BY <1>3, <1>5
  <2>2. args' = args \o p.add /\ at' = p.next /\ phase' = "parse"
    BY <1>1, <1>5 DEF ParseArtifact
  <2>3. Understood(case.args, args \o p.add, p.next) /\ (p.next <= Len(case.args) => ~IsValueAt(case.args, p.next))
    BY <1>1, <1>2, <2>1, ParseTurn
  <2> HIDE DEF p
  <2>4. Understood(case'.args, args', at') /\ (at' <= Len(case'.args) => ~IsValueAt(case'.args, at'))
    BY <1>1, <2>2, <2>3
  <2> QED
    BY <1>1, <2>2, <2>4 DEF ParsedInv
<1> QED
  BY <1>4, <1>5

\* The other steps.
LEMMA Parsed_Others ==
    ParsedInv /\ (Construct \/ InstallHandlers \/ CheckPrivileges \/ Fork \/ TryConfig \/ Cycle
                  \/ Signal \/ Restart \/ DetectServers \/ CheckServerInfo \/ DeliverOne \/ Done
                  \/ UNCHANGED vars)
      => ParsedInv'
<1> SUFFICES ASSUME ParsedInv,
                    Construct \/ InstallHandlers \/ CheckPrivileges \/ Fork \/ TryConfig \/ Cycle
                       \/ Signal \/ Restart \/ DetectServers \/ CheckServerInfo \/ DeliverOne
                       \/ Done \/ UNCHANGED vars
             PROVE  ParsedInv'
  OBVIOUS
<1>1. CASE Restart
  <2>1. case' \in Cases /\ phase' = "static" /\ at' = 1 /\ args' = <<>>
    BY <1>1 DEF Restart
  <2>2. Understood(case'.args, args', at') /\ (at' <= Len(case'.args) => ~IsValueAt(case'.args, at'))
    BY <2>1, Parsed_Start
  <2> QED
    BY <2>1, <2>2 DEF ParsedInv
<1>2. CASE Construct \/ InstallHandlers \/ Signal \/ DetectServers \/ CheckServerInfo \/ DeliverOne
           \/ Done \/ UNCHANGED vars
  <2>1. UNCHANGED <<case, at, args, background>>
    BY <1>2 DEF Construct, InstallHandlers, Signal, DetectServers, CheckServerInfo, DeliverOne, Done, vars, runVars, Others
  <2>2. \/ phase' = phase \/ phase' = "ended"
        \/ phase \in {"static", "main"} /\ phase' \in {"main", "parse"}
    BY <1>2 DEF Construct, InstallHandlers, Signal, DetectServers, CheckServerInfo, DeliverOne, Done, vars, Others, End
  <2> QED
    BY <2>1, <2>2 DEF ParsedInv
<1>3. CASE CheckPrivileges
  <2>1. /\ UNCHANGED <<case, at, args, background>> /\ phase = "privileges"
        /\ phase' \in {"fork", "ended"}
    BY <1>3 DEF CheckPrivileges, runVars, End
  <2> QED
    BY <2>1 DEF ParsedInv
<1>4. CASE Fork
  <2>1. /\ UNCHANGED <<case, at, args>> /\ phase = "fork" /\ background' = switched(args)
        /\ phase' \in {"config", "ended"}
    BY <1>4 DEF Fork, End
  <2> QED
    BY <2>1 DEF ParsedInv
<1>5. CASE TryConfig \/ Cycle
  <2>1. /\ UNCHANGED <<case, args, background>> /\ phase \in {"config", "loop"}
        /\ phase' \in {"config", "loop", "ended"}
    BY <1>5 DEF TryConfig, Cycle, runVars, End
  <2> QED
    BY <2>1 DEF ParsedInv
<1> QED
  BY <1>1, <1>2, <1>3, <1>4, <1>5

\* Such a run has started as asked.
LEMMA ParsedIsAsAsked == ParsedInv => StartedAsAsked
<1> SUFFICES ASSUME ParsedInv, phase = "loop" PROVE StartedAsAsked
  BY DEF StartedAsAsked
<1> DEFINE A == case.args
<1>1. A \in Seq(Artifact)
  BY StartupAssumption DEF ParsedInv, Artifact
<1>2. Understood(A, args, Len(A) + 1) /\ background = switched(args)
  BY DEF ParsedInv
<1>3. MeantInBackground(case) <=> SwitchesBefore(A, Len(A) + 1) # {}
  BY <1>1, WholeCommandLine DEF MeantInBackground
<1>4. switched(args) <=> MeantInBackground(case)
  BY <1>2, <1>3 DEF Understood
<1>5. switched(args) \in BOOLEAN /\ MeantInBackground(case) \in BOOLEAN
  BY Zenon DEF switched, MeantInBackground
<1>6. background = MeantInBackground(case)
  BY <1>2, <1>4, <1>5
<1>7. PickedInOrder(parameters(args), A, PlainAmong(A))
  BY <1>1, <1>2, WholeCommandLine DEF Understood
<1> QED
  BY <1>6, <1>7 DEF StartedAsAsked

\* Whatever its command line, a run that reaches the loop has started as asked: in the
\* background iff a switch says so that is no option's value, with the parameters the
\* command line has (ArgumentParser::parse(), parameters(), main()).
THEOREM StartupStartedAsAsked == Spec => []StartedAsAsked
<1>1. ParsedInv /\ [Next]_vars => ParsedInv'
  BY Parsed_ParseArtifact, Parsed_Others DEF Next, Main
<1> QED
  BY Parsed_Init, <1>1, ParsedIsAsAsked, PTL DEF Spec

-----------------------------------------------------------------------------
(* The servings.                                                           *)

\* A serving of a device and port among these.
ServingsOf(pairs) ==
    {r \in [id : Nat, device : {p[1] : p \in pairs}, port : {p[2] : p \in pairs}] :
        \E p \in pairs : r.device = p[1] /\ r.port = p[2]}

\* No two servings have their number, or device and port, in common.
Distinct(s) ==
    \A i, j \in DOMAIN s : i # j => /\ s[i].id # s[j].id
                                    /\ s[i].device # s[j].device \/ s[i].port # s[j].port

\* What the loop over the entries may have made of them.
ServedOf(pairs) == {s \in Seq(ServingsOf(pairs)) : Distinct(s)}

\* There is a free number, since there are fewer servings than numbers to look at.
LEMMA FreeNumber ==
    ASSUME NEW pairs, NEW s \in Seq(ServingsOf(pairs))
    PROVE  freeServingID(s) \in Nat /\ \A i \in DOMAIN s : s[i].id # freeServingID(s)
<1> DEFINE n == Len(s)
           free == {k \in 0..n : \A i \in DOMAIN s : s[i].id # k}
<1>1. n \in Nat /\ DOMAIN s = 1..n
  BY LenProperties
<1> HIDE DEF n
<1>2. free # {}
  <2> SUFFICES ASSUME free = {} PROVE FALSE
    OBVIOUS
  <2> DEFINE f == [k \in 0..n |-> CHOOSE i \in 1..n : s[i].id = k]
  <2>1. ASSUME NEW k \in 0..n PROVE f[k] \in 1..n /\ s[f[k]].id = k
    <3>1. \E i \in 1..n : s[i].id = k
      BY <1>1
    <3> QED
      BY <3>1
  <2>2. f \in [0..n -> 1..n]
    BY <2>1
  <2>3. /\ IsFiniteSet(0..n) /\ Cardinality(0..n) = n + 1
        /\ IsFiniteSet(1..n) /\ Cardinality(1..n) = n
    <3>1. 0 \in Int /\ 1 \in Int /\ n \in Int /\ ~(0 > n) /\ (n - 0) + 1 = n + 1
      BY <1>1
    <3>2. IF 1 > n THEN 0 = n ELSE (n - 1) + 1 = n
      BY <1>1
    <3> QED
      BY <3>1, <3>2, FS_Interval
  <2>4. n < n + 1
    BY <1>1
  <2> HIDE DEF f
  <2>5. PICK x \in 0..n, y \in 0..n : x # y /\ f[x] = f[y]
    <3>1. Cardinality(1..n) < Cardinality(0..n)
      BY <2>3, <2>4
    <3> DEFINE A == 0..n
               B == 1..n
    <3>2. /\ IsFiniteSet(A) /\ IsFiniteSet(B) /\ Cardinality(B) < Cardinality(A)
          /\ f \in [A -> B]
      BY <2>2, <2>3, <3>1
    <3> HIDE DEF A, B
    <3>3. \E x, y \in A : x # y /\ f[x] = f[y]
      BY ONLY <3>2, FS_PigeonHole
    <3> QED
      BY <3>3 DEF A
  <2> QED
    BY <2>1, <2>5
<1>3. free \in SUBSET Nat
  BY <1>1
<1>4. freeServingID(s) = Min(free)
  BY DEF freeServingID, n
<1>5. Min(free) \in free
  <2> HIDE DEF free
  <2> QED
    BY <1>2, <1>3, MinIsLeast
<1> QED
  BY <1>3, <1>4, <1>5

\* serve() adds a serving that differs from all there are, or none.
LEMMA ServeAddsDistinct ==
    ASSUME NEW pairs, NEW s \in ServedOf(pairs), NEW p \in pairs, NEW bound
    PROVE  serve(s, p[1], p[2], bound) \in ServedOf(pairs)
<1> DEFINE new == [id |-> freeServingID(s), device |-> p[1], port |-> p[2]]
           taken == \E i \in DOMAIN s : s[i].device = p[1] /\ s[i].port = p[2]
           n == Len(s)
           t == Append(s, new)
<1>1. s \in Seq(ServingsOf(pairs)) /\ Distinct(s)
  BY DEF ServedOf
<1>2. freeServingID(s) \in Nat /\ \A i \in DOMAIN s : s[i].id # freeServingID(s)
  BY <1>1, FreeNumber
<1>3. /\ new \in ServingsOf(pairs)
      /\ new.id = freeServingID(s) /\ new.device = p[1] /\ new.port = p[2]
  <2> DEFINE k == freeServingID(s)
  <2>1. k \in Nat
    BY <1>2
  <2> HIDE DEF k
  <2>2. [id |-> k, device |-> p[1], port |-> p[2]] \in ServingsOf(pairs)
    BY <2>1 DEF ServingsOf
  <2> QED
    BY <2>2 DEF k
<1>4. CASE ~(bound /\ ~taken)
  BY <1>4 DEF serve
<1>5. CASE bound /\ ~taken
  <2>1. serve(s, p[1], p[2], bound) = t
    BY <1>5 DEF serve
  <2>2. \A i \in DOMAIN s : /\ s[i].id # new.id
                            /\ s[i].device # new.device \/ s[i].port # new.port
    BY <1>2, <1>3, <1>5
  <2> HIDE DEF new
  <2>3. n \in Nat /\ DOMAIN s = 1..n
    BY <1>1, LenProperties
  <2>4. /\ t \in Seq(ServingsOf(pairs)) /\ Len(t) = n + 1 /\ t[n + 1] = new
        /\ \A i \in 1..n : t[i] = s[i]
    BY <1>1, <1>3, AppendProperties
  <2>5. DOMAIN t = 1..n + 1
    BY <2>4, LenProperties
  <2> HIDE DEF n, t
  <2>6. \A i \in DOMAIN t : i \in 1..n \/ i = n + 1
    BY <2>3, <2>5
  <2>7. Distinct(t)
    BY <1>1, <2>2, <2>3, <2>4, <2>5, <2>6 DEF Distinct
  <2> QED
    BY <2>1, <2>4, <2>7 DEF ServedOf
<1> QED
  BY <1>4, <1>5

\* The loop over the entries of "serve": whichever bind() fails and whatever an nPort
\* holds, no serving is there twice, and none that no entry says.
LEMMA ServingsLoop ==
    ASSUME NEW V, NEW items \in Seq(V), NEW garbage, NEW bound
    PROVE  Servings(items, garbage, bound) \in
              ServedOf({ServePair(items[i], garbage[i]) : i \in DOMAIN items})
<1> DEFINE n == Len(items)
           Pair(i) == ServePair(items[i], garbage[i])
           pairs == {Pair(i) : i \in DOMAIN items}
           S == ServedOf(pairs)
           Serve(i, s) == serve(s, Pair(i)[1], Pair(i)[2], bound[i])
           step == [q \in (1..n) \X S |-> Serve(q[1], q[2])]
           body(f) == [i \in 0..n |-> IF i = 0 THEN <<>> ELSE Serve(i, f[i - 1])]
           g == CHOOSE f : f = body(f)
<1>1. n \in Nat /\ DOMAIN items = 1..n
  BY LenProperties
<1>2. <<>> \in S
  <2>1. <<>> \in Seq(ServingsOf(pairs)) /\ DOMAIN <<>> = {}
    BY EmptySeq
  <2> QED
    BY <2>1 DEF ServedOf, Distinct
<1>3. \A i \in 1..n : Pair(i) \in pairs
  BY <1>1
<1> HIDE DEF pairs, Pair
<1>4. \A i \in 1..n : \A s \in S : Serve(i, s) \in S
  BY <1>3, ServeAddsDistinct
<1>5. Servings(items, garbage, bound) = g[n]
  BY DEF Servings, Pair
<1> HIDE DEF Serve, n, S
<1>6. step \in [(1..n) \X S -> S] /\ \A i \in 1..n : \A s \in S : step[<<i, s>>] = Serve(i, s)
  BY <1>4
<1> HIDE DEF step
<1>7. PICK f \in [0..n -> S] : f[0] = <<>> /\ \A i \in 1..n : f[i] = step[<<i, f[i - 1]>>]
  <2>1. PICK f \in [0..n -> S] : Runs(f, n, <<>>, step)
    BY <1>1, <1>2, <1>6, LoopRuns
  <2> QED
    BY <2>1 DEF Runs
<1>8. \A i \in 1..n : f[i] = Serve(i, f[i - 1])
  <2> SUFFICES ASSUME NEW i \in 1..n PROVE f[i] = Serve(i, f[i - 1])
    OBVIOUS
  <2>1. i - 1 \in 0..n
    BY <1>1
  <2> QED
    BY <1>6, <1>7, <2>1
<1>9. f = body(f)
  <2>1. \A i \in 0..n : f[i] = body(f)[i]
    <3> SUFFICES ASSUME NEW i \in 0..n PROVE f[i] = body(f)[i]
      OBVIOUS
    <3>1. CASE i = 0
      BY <1>7, <3>1
    <3>2. CASE i # 0
      <4>1. i \in 1..n
        BY <1>1, <3>2
      <4> QED
        BY <1>8, <3>2, <4>1
    <3> QED
      BY <3>1, <3>2
  <2>2. DOMAIN f = 0..n /\ DOMAIN body(f) = 0..n
    BY <1>7
  <2>3. f = [i \in 0..n |-> f[i]] /\ body(f) = [i \in 0..n |-> body(f)[i]]
    BY <2>2
  <2> HIDE DEF body
  <2> QED
    BY <2>1, <2>3
<1>10. g = body(g)
  <2> HIDE DEF body
  <2> QED
    BY <1>9
<1> HIDE DEF g
<1>11. \A i \in 0..n : g[i] = IF i = 0 THEN <<>> ELSE Serve(i, g[i - 1])
  <2>1. \A i \in 0..n : body(g)[i] = IF i = 0 THEN <<>> ELSE Serve(i, g[i - 1])
    OBVIOUS
  <2> HIDE DEF body
  <2> QED
    BY <1>10, <2>1
<1>12. SameTurns(f, g, n)
  <2>1. f[0] = g[0]
    BY <1>1, <1>7, <1>11
  <2>2. ASSUME NEW i \in 1..n, f[i - 1] = g[i - 1] PROVE f[i] = g[i]
    <3>1. i \in 0..n /\ i # 0
      BY <1>1
    <3> QED
      BY <1>8, <1>11, <2>2, <3>1
  <2> QED
    BY <2>1, <2>2 DEF SameTurns
<1>13. g[n] = f[n] /\ f[n] \in S
  <2>1. n \in 0..n
    BY <1>1
  <2> QED
    BY <1>1, <1>7, <1>12, <2>1, LoopsAgree
<1> QED
  BY <1>5, <1>13 DEF S, pairs, Pair

-----------------------------------------------------------------------------
(* The configuration.                                                      *)

\* Settings as a file means them: what ConfiguredAsWritten says of them.
AsWritten(s, meant) ==
    /\ \A f \in DOMAIN meant \ {"servings"} : s[f] = meant[f]
    /\ \A i, j \in DOMAIN s.servings :
          /\ \E k \in DOMAIN meant.servings :
                /\ s.servings[i].device = meant.servings[k].device
                /\ s.servings[i].port \in meant.servings[k].ports
          /\ i # j => /\ s.servings[i].id # s.servings[j].id
                      /\ [s.servings[i] EXCEPT !.id = 0] # [s.servings[j] EXCEPT !.id = 0]

\* parseConfigFile() sets what a file means, if its text is read as meant.
LEMMA FileSetsMeant ==
    ASSUME ReadAsMeant, NEW c \in Cases, NEW path \in DOMAIN c.files,
           NEW s \in parseConfigFile(c.files[path].lines)
    PROVE  AsWritten(s, c.files[path].means)
<1> DEFINE file == c.files[path]
           map == loadFromFile(file.lines)
           items == ServeItems(map).items
<1>1. file \in UNION {Range(d.files) : d \in Cases}
  BY DEF Range
<1>2. ~Throws(map)
  BY DEF parseConfigFile
<1>3. PICK garbage \in [DOMAIN items -> Ports], bound \in [DOMAIN items -> BOOLEAN] :
        s = Configured(map, garbage, bound)
  BY <1>2 DEF parseConfigFile
<1>4. s.servings = Servings(items, garbage, bound)
  BY <1>3 DEF Configured
<1> HIDE DEF file
<1>5. /\ \A f \in DOMAIN file.means \ {"servings"} : s[f] = file.means[f]
      /\ items \in Seq(Seq(STRING))
      /\ \A i \in DOMAIN items, g \in Ports :
            \E k \in DOMAIN file.means.servings :
               /\ ServePair(items[i], g)[1] = file.means.servings[k].device
               /\ ServePair(items[i], g)[2] \in file.means.servings[k].ports
  <2>1. s \in parseConfigFile(file.lines)
    BY DEF file
  <2> QED
    BY <1>1, <1>2, <2>1 DEF ReadAsMeant
<1> HIDE DEF map, items
<1> DEFINE pairs == {ServePair(items[i], garbage[i]) : i \in DOMAIN items}
           served == s.servings
<1>6. served \in ServedOf(pairs)
  BY <1>4, <1>5, ServingsLoop
<1>7. \A p \in pairs : \E k \in DOMAIN file.means.servings :
          p[1] = file.means.servings[k].device /\ p[2] \in file.means.servings[k].ports
  <2> SUFFICES ASSUME NEW p \in pairs
               PROVE  \E k \in DOMAIN file.means.servings :
                         /\ p[1] = file.means.servings[k].device
                         /\ p[2] \in file.means.servings[k].ports
    OBVIOUS
  <2>1. PICK i \in DOMAIN items : p = ServePair(items[i], garbage[i])
    OBVIOUS
  <2>2. garbage[i] \in Ports
    BY <1>3
  <2> HIDE DEF pairs
  <2> QED
    BY <1>5, <2>1, <2>2
<1> HIDE DEF pairs, served
<1>8. served \in Seq(ServingsOf(pairs)) /\ Distinct(served)
  BY <1>6 DEF ServedOf
<1>9. \A i \in DOMAIN served : served[i] \in ServingsOf(pairs)
  BY <1>8, ElementOfSeq, LenProperties
<1>10. ASSUME NEW i \in DOMAIN served
       PROVE  \E k \in DOMAIN file.means.servings :
                 /\ served[i].device = file.means.servings[k].device
                 /\ served[i].port \in file.means.servings[k].ports
  BY <1>7, <1>9 DEF ServingsOf
<1>11. ASSUME NEW i \in DOMAIN served, NEW j \in DOMAIN served, i # j
       PROVE  /\ served[i].id # served[j].id
              /\ [served[i] EXCEPT !.id = 0] # [served[j] EXCEPT !.id = 0]
  <2> DEFINE a == served[i]
             b == served[j]
  <2>1. a.id # b.id /\ (a.device # b.device \/ a.port # b.port)
    BY <1>8, <1>11 DEF Distinct
  <2>2. a \in ServingsOf(pairs) /\ b \in ServingsOf(pairs)
    BY <1>9
  <2> HIDE DEF a, b
  <2>3. /\ [a EXCEPT !.id = 0].device = a.device /\ [a EXCEPT !.id = 0].port = a.port
        /\ [b EXCEPT !.id = 0].device = b.device /\ [b EXCEPT !.id = 0].port = b.port
    BY <2>2 DEF ServingsOf
  <2>4. [a EXCEPT !.id = 0] # [b EXCEPT !.id = 0]
    BY <2>1, <2>3
  <2> QED
    BY <2>1, <2>4 DEF a, b
<1> QED
  BY <1>5, <1>10, <1>11 DEF AsWritten, file, served

\* The state of a process without a configuration is as meant, when none is meant.
LEMMA NoneSetsNone == AsWritten(Unconfigured, Unconfigured)
<1>1. Unconfigured.servings = <<>> /\ DOMAIN <<>> = {}
  BY DEF Unconfigured
<1> QED
  BY <1>1 DEF AsWritten

\* The file that is meant is the first there is.
LEMMA FirstIsMeant ==
    ASSUME NEW c, NEW n \in 1..4,
           \A i \in 1..n - 1 : Candidates(MeantFile(c))[i] \notin DOMAIN c.files
    PROVE  /\ Candidates(MeantFile(c))[n] \in DOMAIN c.files =>
                 Meant(c) = c.files[Candidates(MeantFile(c))[n]].means
           /\ n = 4 /\ Candidates(MeantFile(c))[n] \notin DOMAIN c.files => Meant(c) = Unconfigured
<1> DEFINE path(i) == Candidates(MeantFile(c))[i]
           there == {i \in 1..4 : path(i) \in DOMAIN c.files}
<1>1. Meant(c) = IF there = {} THEN Unconfigured ELSE c.files[path(Min(there))].means
  BY DEF Meant
<1>2. \A i \in there : i \in 1..4 /\ ~(i < n)
  OBVIOUS
<1>3. ASSUME path(n) \in DOMAIN c.files PROVE Meant(c) = c.files[path(n)].means
  <2>1. n \in there /\ there \in SUBSET Nat /\ there # {}
    BY <1>3
  <2> HIDE DEF there, path
  <2>2. Min(there) \in there /\ Min(there) <= n
    BY <2>1, MinIsLeast
  <2>3. Min(there) = n
    <3> DEFINE m == Min(there)
    <3>1. m \in 1..4 /\ ~(m < n) /\ m <= n
      BY <1>2, <2>2
    <3> HIDE DEF m
    <3>2. m = n
      BY <3>1
    <3> QED
      BY <3>2 DEF m
  <2> QED
    BY <1>1, <2>1, <2>3
<1>4. ASSUME n = 4, path(n) \notin DOMAIN c.files PROVE Meant(c) = Unconfigured
  <2>1. \A i \in there : i = 4
    BY <1>2, <1>4
  <2>2. there = {}
    BY <1>4, <2>1
  <2> QED
    BY <1>1, <2>2
<1> QED
  BY <1>3, <1>4

\* What a run has of its files: nothing of a configuration before one is found, no file
\* passed over that is there, and the vendors of the first oui.txt.
FoundInv ==
    /\ phase \in {"static", "main", "parse", "privileges", "fork", "config"} =>
          settings = Unconfigured
    /\ phase = "config" =>
          /\ at \in 1..4
          /\ \A i \in 1..at - 1 : Candidates(MeantFile(case))[i] \notin DOMAIN case.files
    /\ phase \in {"main", "parse", "privileges", "fork", "config", "loop"} =>
          ~readVendors(case.vendors).throws /\ vendors = readVendors(case.vendors).cache
    /\ phase = "loop" => AsWritten(settings, Meant(case))

\* The file asked for is the value of the first option that has one.
LEMMA FileAskedFor == ParsedInv /\ phase = "config" => tokenValue(args) = MeantFile(case)
<1> SUFFICES ASSUME ParsedInv, phase = "config" PROVE tokenValue(args) = MeantFile(case)
  OBVIOUS
<1> DEFINE A == case.args
<1>1. A \in Seq(Artifact)
  BY StartupAssumption DEF ParsedInv, Artifact
<1>2. Understood(A, args, Len(A) + 1)
  BY DEF ParsedInv
<1> QED
  BY <1>1, <1>2, WholeCommandLine DEF Understood, MeantFile

\* A turn of the loop over the candidates.
LEMMA Found_TryConfig == ReadAsMeant /\ ParsedInv /\ FoundInv /\ TryConfig => FoundInv'
<1> SUFFICES ASSUME ReadAsMeant, ParsedInv, FoundInv, TryConfig PROVE FoundInv'
  OBVIOUS
<1> DEFINE path == Candidates(MeantFile(case))[at]
<1>1. phase = "config" /\ UNCHANGED <<case, vendors>> /\ case \in Cases
  BY DEF TryConfig, ParsedInv
<1>2. /\ at \in 1..4 /\ settings = Unconfigured
      /\ \A i \in 1..at - 1 : Candidates(MeantFile(case))[i] \notin DOMAIN case.files
      /\ ~readVendors(case.vendors).throws /\ vendors = readVendors(case.vendors).cache
  BY <1>1 DEF FoundInv
<1>3. path = Candidates(tokenValue(args))[at]
  BY <1>1, FileAskedFor
<1>4. /\ path \in DOMAIN case.files => Meant(case) = case.files[path].means
      /\ at = 4 /\ path \notin DOMAIN case.files => Meant(case) = Unconfigured
  BY <1>2, FirstIsMeant
<1>5. ~readVendors(case'.vendors).throws /\ vendors' = readVendors(case'.vendors).cache
  BY <1>1, <1>2
<1>6. CASE path \notin DOMAIN case.files
  <2>1. /\ at' = at + 1 /\ settings' = settings
        /\ phase' = IF at < 4 THEN phase ELSE "loop"
    BY <1>3, <1>6 DEF TryConfig
  <2>2. CASE at < 4
    <3>1. at' \in 1..4 /\ \A i \in 1..at' - 1 : i \in 1..at - 1 \/ i = at
      BY <1>2, <2>1, <2>2
    <3>2. \A i \in 1..at' - 1 : Candidates(MeantFile(case'))[i] \notin DOMAIN case'.files
      BY <1>1, <1>2, <1>6, <3>1
    <3> QED
      BY <1>1, <1>2, <1>5, <2>1, <2>2, <3>1, <3>2 DEF FoundInv
  <2>3. CASE ~(at < 4)
    <3>1. at = 4
      BY <1>2, <2>3
    <3>2. AsWritten(settings', Meant(case'))
      BY <1>1, <1>2, <1>4, <1>6, <2>1, <3>1, NoneSetsNone
    <3> QED
      BY <1>5, <2>1, <2>3, <3>2 DEF FoundInv
  <2> QED
    BY <2>2, <2>3
<1>7. CASE path \in DOMAIN case.files
  <2> DEFINE results == parseConfigFile(case.files[path].lines)
  <2>1. \/ phase' = "ended"
        \/ phase' = "loop" /\ settings' \in results
    BY <1>3, <1>7 DEF TryConfig, End
  <2>2. ASSUME phase' = "loop", settings' \in results PROVE AsWritten(settings', Meant(case'))
    <3> HIDE DEF path
    <3>1. AsWritten(settings', case.files[path].means)
      BY <1>1, <1>7, <2>2, FileSetsMeant
    <3> QED
      BY <1>1, <1>4, <1>7, <3>1
  <2> QED
    BY <1>5, <2>1, <2>2 DEF FoundInv
<1> QED
  BY <1>6, <1>7

\* The first run.
LEMMA Found_Init == Init => FoundInv
  BY DEF Init, FoundInv

\* The steps of main() up to the candidates.
LEMMA Found_Process ==
    ParsedInv /\ FoundInv /\ (Construct \/ InstallHandlers \/ ParseArtifact \/ CheckPrivileges
                              \/ Fork \/ Restart)
      => FoundInv'
<1> SUFFICES ASSUME ParsedInv, FoundInv,
                    Construct \/ InstallHandlers \/ ParseArtifact \/ CheckPrivileges \/ Fork
                       \/ Restart
             PROVE  FoundInv'
  OBVIOUS
<1>1. CASE Restart
  BY <1>1 DEF Restart, FoundInv
<1>2. CASE Construct
  <2>1. /\ UNCHANGED <<case, settings>> /\ phase = "static"
        /\ \/ phase' = "ended"
           \/ /\ phase' = "main" /\ ~readVendors(case.vendors).throws
              /\ vendors' = readVendors(case.vendors).cache
    BY <1>2 DEF Construct, End
  <2> QED
    BY <2>1 DEF FoundInv
<1>3. CASE InstallHandlers \/ ParseArtifact \/ CheckPrivileges \/ Fork
  <2>1. /\ UNCHANGED <<case, settings, vendors>>
        /\ phase \in {"main", "parse", "privileges", "fork"}
        /\ phase' \in {"parse", "privileges", "fork", "config", "ended"}
        /\ phase' = "config" => phase = "fork" /\ at' = at
    BY <1>3 DEF InstallHandlers, ParseArtifact, CheckPrivileges, Fork, End, runVars
  <2>2. phase' = "config" => at' = 1
    BY <2>1 DEF ParsedInv
  <2>3. 1 \in 1..4 /\ 1..1 - 1 = {}
    OBVIOUS
  <2> QED
    BY <2>1, <2>2, <2>3 DEF FoundInv
<1> QED
  BY <1>1, <1>2, <1>3

\* And the steps that leave all of it alone.
LEMMA Found_Others ==
    FoundInv /\ (Cycle \/ Signal \/ DetectServers \/ CheckServerInfo \/ DeliverOne \/ Done
                 \/ UNCHANGED vars)
      => FoundInv'
<1> SUFFICES ASSUME FoundInv,
                    Cycle \/ Signal \/ DetectServers \/ CheckServerInfo \/ DeliverOne \/ Done
                       \/ UNCHANGED vars
             PROVE  FoundInv'
  OBVIOUS
<1>1. UNCHANGED <<case, settings, vendors, at>>
  BY DEF Cycle, Signal, DetectServers, CheckServerInfo, DeliverOne, Done, vars, runVars, Others
<1>2. phase' = phase \/ phase' = "ended"
  BY DEF Cycle, Signal, DetectServers, CheckServerInfo, DeliverOne, Done, vars, Others, End
<1> QED
  BY <1>1, <1>2 DEF FoundInv

\* Such a run is configured as written.
LEMMA FoundIsAsWritten == ReadAsMeant /\ ParsedInv /\ FoundInv => ConfiguredAsWritten
<1> SUFFICES ASSUME ReadAsMeant, ParsedInv, FoundInv, phase = "loop" PROVE ConfiguredAsWritten
  BY DEF ConfiguredAsWritten
<1>1. /\ case \in Cases /\ AsWritten(settings, Meant(case))
      /\ ~readVendors(case.vendors).throws /\ vendors = readVendors(case.vendors).cache
  BY DEF ParsedInv, FoundInv
<1>2. \A mac \in DOMAIN case.knows : vendorForMAC(mac) = case.knows[mac]
  BY <1>1 DEF ReadAsMeant, vendorForMAC
<1> QED
  BY <1>1, <1>2 DEF ConfiguredAsWritten, AsWritten

\* The invariant of the two.
LEMMA ReadInv_Next ==
    ReadAsMeant /\ ParsedInv /\ FoundInv /\ [Next]_vars => ParsedInv' /\ FoundInv'
  BY Parsed_ParseArtifact, Parsed_Others, Found_TryConfig, Found_Process, Found_Others
     DEF Next, Main

\* As far as the texts of the files, each taken alone, are read as meant, what is in force
\* in the loop is what the first file there is says and nothing of another, no serving is
\* there twice or without an entry, and the vendors are those of the first oui.txt: for
\* every command line, every set of files and every outcome of bind(), and whatever an
\* nPort holds (main(), Daemon::parseConfigFile(), Server::serve(), Data).
THEOREM StartupConfiguredAsWritten ==
    ASSUME ReadAsMeant PROVE Spec => []ConfiguredAsWritten
<1>1. Init => ParsedInv /\ FoundInv
  BY Parsed_Init, Found_Init
<1>2. ParsedInv /\ FoundInv /\ [Next]_vars => (ParsedInv /\ FoundInv)'
  BY ReadInv_Next
<1>3. ParsedInv /\ FoundInv => ConfiguredAsWritten
  BY FoundIsAsWritten
<1> QED
  BY <1>1, <1>2, <1>3, PTL DEF Spec

\* As far as the texts are read as meant, the connection manager has one row per server and
\* every name in it is one a run was configured with: for any number of runs, with
\* datagrams that come late, twice or never (DiscoveryServer::cycle(), addServer() of
\* MDGui.py).
THEOREM StartupListedAsConfigured ==
    ASSUME ReadAsMeant PROVE Spec => []ListedAsConfigured
<1>1. NamesInv /\ ConfiguredAsWritten /\ [Next]_vars => NamesInv'
  BY Names_Process, Names_TryConfig, Names_Cycle, Names_Air, Names_Check DEF Next, Main
<1>2. NamesInv => ListedAsConfigured
  BY DEF NamesInv
<1> QED
  BY Names_Init, StartupConfiguredAsWritten, <1>1, <1>2, PTL DEF Spec
=============================================================================
