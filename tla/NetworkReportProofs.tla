------------------------ MODULE NetworkReportProofs ------------------------
(***************************************************************************)
(* Proofs about m_lstEvents, the events a cycle leaves for the daemon: what*)
(* they say of a table agrees with the table at every step, and they come  *)
(* in an order a client can follow.                                        *)
(***************************************************************************)
EXTENDS NetworkProofs

(* The properties of the report as predicates of a sequence of events and  *)
(* a table, so that the events of one frame can be taken one by one.       *)

PresenceTypes == {"MACAddressDiscovered", "MACAddressDisappeared"}

IsPresence(e, m, d) == e.type \in PresenceTypes /\ e.mac = m /\ e.dev = d

IsEvidence(e, m, f) == e.type = "MACEvidenceChanged" /\ e.mac = m /\ e.field = f

\* The table T holds the address on the device.
Holds(T, m, d) == \E e \in T : e.mac = m /\ e.dev = d

PresenceFollows(s, T) ==
    \A i \in 1..Len(s) : \A m \in MACs, d \in Devices :
        IsPresence(s[i], m, d) =>
            \/ /\ \A j \in (i + 1)..Len(s) : ~IsPresence(s[j], m, d)
               /\ s[i].type = "MACAddressDiscovered" <=> Holds(T, m, d)
            \/ \E j \in (i + 1)..Len(s) :
                 /\ IsPresence(s[j], m, d) /\ s[j].type # s[i].type
                 /\ \A k \in (i + 1)..Len(s) : IsPresence(s[k], m, d) => j <= k

EvidenceFollows(s, ev) ==
    \A i \in 1..Len(s) : \A m \in MACs, f \in Fields :
        IsEvidence(s[i], m, f) =>
            \/ /\ \A j \in (i + 1)..Len(s) : ~IsEvidence(s[j], m, f)
               /\ s[i].value = ev[m][f]
            \/ \E j \in (i + 1)..Len(s) :
                 /\ IsEvidence(s[j], m, f) /\ s[j].former = s[i].value
                 /\ \A k \in (i + 1)..Len(s) : IsEvidence(s[k], m, f) => j <= k

\* They are the properties of the runs.
LEMMA ReportsRestated ==
    /\ PresenceReportsMatchTable <=> PresenceFollows(events, macSeen)
    /\ EvidenceReportsMatchTable <=> EvidenceFollows(events, evidence)
<1>1. ASSUME NEW i \in 1..Len(events), NEW m \in MACs, NEW d \in Devices
      PROVE  (LET later == {j \in (i + 1)..Len(events) : IsPresenceEvent(j, m, d)}
              IN  IF later = {}
                  THEN events[i].type = "MACAddressDiscovered" <=> EntriesOf(m, d) # {}
                  ELSE \E j \in later : /\ \A k \in later : j <= k
                                        /\ events[j].type # events[i].type)
             <=> \/ /\ \A j \in (i + 1)..Len(events) : ~IsPresence(events[j], m, d)
                    /\ events[i].type = "MACAddressDiscovered" <=> Holds(macSeen, m, d)
                 \/ \E j \in (i + 1)..Len(events) :
                      /\ IsPresence(events[j], m, d) /\ events[j].type # events[i].type
                      /\ \A k \in (i + 1)..Len(events) : IsPresence(events[k], m, d) => j <= k
  <2>1. \A j \in (i + 1)..Len(events) : IsPresenceEvent(j, m, d) <=> IsPresence(events[j], m, d)
    BY DEF IsPresenceEvent, IsPresence, PresenceTypes
  <2>2. EntriesOf(m, d) # {} <=> Holds(macSeen, m, d)
    BY DEF EntriesOf, Holds
  <2> HIDE DEF IsPresenceEvent, IsPresence
  <2> QED
    BY <2>1, <2>2
<1>2. PresenceReportsMatchTable <=> PresenceFollows(events, macSeen)
  <2>1. \A i \in 1..Len(events), m \in MACs, d \in Devices :
            IsPresenceEvent(i, m, d) <=> IsPresence(events[i], m, d)
    BY DEF IsPresenceEvent, IsPresence, PresenceTypes
  <2> QED
    BY <1>1, <2>1 DEF PresenceReportsMatchTable, PresenceFollows
<1>3. ASSUME NEW i \in 1..Len(events), NEW m \in MACs, NEW f \in Fields
      PROVE  (LET later == {j \in (i + 1)..Len(events) : IsEvidenceEvent(j, m, f)}
              IN  IF later = {}
                  THEN events[i].value = evidence[m][f]
                  ELSE \E j \in later : /\ \A k \in later : j <= k
                                        /\ events[j].former = events[i].value)
             <=> \/ /\ \A j \in (i + 1)..Len(events) : ~IsEvidence(events[j], m, f)
                    /\ events[i].value = evidence[m][f]
                 \/ \E j \in (i + 1)..Len(events) :
                      /\ IsEvidence(events[j], m, f) /\ events[j].former = events[i].value
                      /\ \A k \in (i + 1)..Len(events) : IsEvidence(events[k], m, f) => j <= k
  <2>1. \A j \in (i + 1)..Len(events) : IsEvidenceEvent(j, m, f) <=> IsEvidence(events[j], m, f)
    BY DEF IsEvidenceEvent, IsEvidence
  <2> QED
    BY <2>1
<1>4. EvidenceReportsMatchTable <=> EvidenceFollows(events, evidence)
  <2>1. \A i \in 1..Len(events), m \in MACs, f \in Fields :
            IsEvidenceEvent(i, m, f) <=> IsEvidence(events[i], m, f)
    BY DEF IsEvidenceEvent, IsEvidence
  <2> QED
    BY <1>3, <2>1 DEF EvidenceReportsMatchTable, EvidenceFollows
<1> QED
  BY <1>2, <1>4

-----------------------------------------------------------------------------
(* scheduleEvent(): what appending does to the two predicates.             *)

\* The elements of a sequence that grew by one.
LEMMA Appended ==
    ASSUME NEW S, NEW s \in Seq(S), NEW e \in S
    PROVE  /\ Append(s, e) \in Seq(S) /\ Len(s) \in Nat
           /\ Len(Append(s, e)) = Len(s) + 1
           /\ \A i \in 1..Len(s) : Append(s, e)[i] = s[i]
           /\ Append(s, e)[Len(s) + 1] = e
           /\ s \o <<e>> = Append(s, e)
  BY AppendProperties, AppendIsConcat, LenProperties

\* The elements of two sequences put together.
LEMMA Joined ==
    ASSUME NEW S, NEW s \in Seq(S), NEW t \in Seq(S)
    PROVE  /\ s \o t \in Seq(S) /\ Len(s) \in Nat /\ Len(t) \in Nat
           /\ Len(s \o t) = Len(s) + Len(t)
           /\ \A i \in 1..Len(s) : (s \o t)[i] = s[i]
           /\ \A i \in 1..Len(s \o t) :
                 i \notin 1..Len(s) => (i - Len(s)) \in 1..Len(t) /\ (s \o t)[i] = t[i - Len(s)]
<1>1. /\ s \o t \in Seq(S) /\ Len(s \o t) = Len(s) + Len(t)
      /\ \A i \in 1 .. Len(s) + Len(t) :
            (s \o t)[i] = IF i <= Len(s) THEN s[i] ELSE t[i - Len(s)]
  BY ConcatProperties
<1>2. Len(s) \in Nat /\ Len(t) \in Nat
  BY LenProperties
<1> QED
  BY <1>1, <1>2

\* Events about no address keep both; so do any others that one of them is not
\* about.
LEMMA JoinQuiet ==
    ASSUME NEW s \in Seq(EventRecord), NEW t \in Seq(EventRecord), NEW T, NEW ev
    PROVE  /\ PresenceFollows(s, T) /\ (\A k \in 1..Len(t) : t[k].type \notin PresenceTypes)
                  => PresenceFollows(s \o t, T)
           /\ EvidenceFollows(s, ev) /\ (\A k \in 1..Len(t) : t[k].type # "MACEvidenceChanged")
                  => EvidenceFollows(s \o t, ev)
<1> DEFINE u == s \o t
<1>1. /\ Len(s) \in Nat /\ Len(t) \in Nat /\ Len(u) = Len(s) + Len(t)
      /\ \A i \in 1..Len(s) : u[i] = s[i]
      /\ \A i \in 1..Len(u) :
            i \notin 1..Len(s) => (i - Len(s)) \in 1..Len(t) /\ u[i] = t[i - Len(s)]
  BY Joined
<1> HIDE DEF u
<1>2. ASSUME PresenceFollows(s, T), \A k \in 1..Len(t) : t[k].type \notin PresenceTypes
      PROVE  PresenceFollows(u, T)
  <2>1. SUFFICES ASSUME NEW i \in 1..Len(u), NEW m \in MACs, NEW d \in Devices,
                        IsPresence(u[i], m, d)
                 PROVE  \/ /\ \A j \in (i + 1)..Len(u) : ~IsPresence(u[j], m, d)
                           /\ u[i].type = "MACAddressDiscovered" <=> Holds(T, m, d)
                        \/ \E j \in (i + 1)..Len(u) :
                             /\ IsPresence(u[j], m, d) /\ u[j].type # u[i].type
                             /\ \A k \in (i + 1)..Len(u) : IsPresence(u[k], m, d) => j <= k
    BY DEF PresenceFollows
  <2>2. \A j \in 1..Len(u) : IsPresence(u[j], m, d) => j \in 1..Len(s) /\ u[j] = s[j]
    BY <1>1, <1>2 DEF IsPresence
  <2>3. i \in 1..Len(s) /\ u[i] = s[i]
    BY <2>1, <2>2
  <2>4. \A j \in (i + 1)..Len(u) : IsPresence(u[j], m, d) => j \in (i + 1)..Len(s) /\ u[j] = s[j]
    BY <1>1, <2>2, <2>3
  <2>5. \A j \in (i + 1)..Len(s) : j \in (i + 1)..Len(u) /\ u[j] = s[j]
    BY <1>1, <2>3
  <2> QED
    BY <1>2, <2>1, <2>3, <2>4, <2>5 DEF PresenceFollows
<1>3. ASSUME EvidenceFollows(s, ev), \A k \in 1..Len(t) : t[k].type # "MACEvidenceChanged"
      PROVE  EvidenceFollows(u, ev)
  <2>1. SUFFICES ASSUME NEW i \in 1..Len(u), NEW m \in MACs, NEW f \in Fields,
                        IsEvidence(u[i], m, f)
                 PROVE  \/ /\ \A j \in (i + 1)..Len(u) : ~IsEvidence(u[j], m, f)
                           /\ u[i].value = ev[m][f]
                        \/ \E j \in (i + 1)..Len(u) :
                             /\ IsEvidence(u[j], m, f) /\ u[j].former = u[i].value
                             /\ \A k \in (i + 1)..Len(u) : IsEvidence(u[k], m, f) => j <= k
    BY DEF EvidenceFollows
  <2>2. \A j \in 1..Len(u) : IsEvidence(u[j], m, f) => j \in 1..Len(s) /\ u[j] = s[j]
    BY <1>1, <1>3 DEF IsEvidence
  <2>3. i \in 1..Len(s) /\ u[i] = s[i]
    BY <2>1, <2>2
  <2>4. \A j \in (i + 1)..Len(u) : IsEvidence(u[j], m, f) => j \in (i + 1)..Len(s) /\ u[j] = s[j]
    BY <1>1, <2>2, <2>3
  <2>5. \A j \in (i + 1)..Len(s) : j \in (i + 1)..Len(u) /\ u[j] = s[j]
    BY <1>1, <2>3
  <2> QED
    BY <1>3, <2>1, <2>3, <2>4, <2>5 DEF EvidenceFollows
<1> QED
  BY <1>2, <1>3 DEF u

\* The same of a single event.
LEMMA AppendQuiet ==
    ASSUME NEW s \in Seq(EventRecord), NEW e \in EventRecord, NEW T, NEW ev
    PROVE  /\ PresenceFollows(s, T) /\ e.type \notin PresenceTypes
                  => PresenceFollows(Append(s, e), T)
           /\ EvidenceFollows(s, ev) /\ e.type # "MACEvidenceChanged"
                  => EvidenceFollows(Append(s, e), ev)
<1>1. /\ <<e>> \in Seq(EventRecord) /\ Append(s, e) = s \o <<e>>
      /\ \A k \in 1..Len(<<e>>) : <<e>>[k] = e
  BY Appended
<1>2. /\ e.type \notin PresenceTypes => \A k \in 1..Len(<<e>>) : <<e>>[k].type \notin PresenceTypes
      /\ e.type # "MACEvidenceChanged" =>
            \A k \in 1..Len(<<e>>) : <<e>>[k].type # "MACEvidenceChanged"
  BY <1>1
<1> QED
  BY <1>1, <1>2, JoinQuiet

\* An address that comes or goes and is reported.
LEMMA AppendPresence ==
    ASSUME NEW s \in Seq(EventRecord), NEW T, NEW U, PresenceFollows(s, T),
           NEW t \in PresenceTypes, NEW m \in MACs, NEW d \in Devices,
           t = "MACAddressDiscovered" <=> ~Holds(T, m, d),
           t = "MACAddressDiscovered" <=> Holds(U, m, d),
           \A x \in MACs, y \in Devices :
               ~(x = m /\ y = d) => (Holds(T, x, y) <=> Holds(U, x, y))
    PROVE  PresenceFollows(Append(s, MACEvent(t, d, m)), U)
<1> DEFINE e == MACEvent(t, d, m)
           u == Append(s, e)
<1>1. /\ e \in EventRecord /\ e.type = t
      /\ \A x \in MACs, y \in Devices : IsPresence(e, x, y) <=> x = m /\ y = d
  BY MACEventTypes DEF PresenceTypes, MACEvent, IsPresence
<1> HIDE DEF e
<1>2. /\ Len(s) \in Nat /\ Len(u) = Len(s) + 1 /\ u[Len(s) + 1] = e
      /\ \A i \in 1..Len(s) : u[i] = s[i]
  BY <1>1, Appended
<1> HIDE DEF u
<1>3. SUFFICES ASSUME NEW i \in 1..Len(u), NEW x \in MACs, NEW y \in Devices,
                      IsPresence(u[i], x, y)
               PROVE  \/ /\ \A j \in (i + 1)..Len(u) : ~IsPresence(u[j], x, y)
                         /\ u[i].type = "MACAddressDiscovered" <=> Holds(U, x, y)
                      \/ \E j \in (i + 1)..Len(u) :
                           /\ IsPresence(u[j], x, y) /\ u[j].type # u[i].type
                           /\ \A k \in (i + 1)..Len(u) : IsPresence(u[k], x, y) => j <= k
  BY DEF PresenceFollows, u, e
<1>4. CASE i = Len(s) + 1
  <2>1. x = m /\ y = d /\ u[i].type = t
    BY <1>1, <1>2, <1>3, <1>4
  <2>2. (i + 1)..Len(u) = {}
    BY <1>2, <1>4
  <2> QED
    BY <2>1, <2>2
<1>5. CASE i \in 1..Len(s)
  <2>1. u[i] = s[i] /\ IsPresence(s[i], x, y)
    BY <1>2, <1>3, <1>5
  <2>2. \A j \in (i + 1)..Len(u) : \/ j \in (i + 1)..Len(s) /\ u[j] = s[j]
                                   \/ j = Len(s) + 1 /\ u[j] = e
    <3>1. \A j \in (i + 1)..Len(u) : j \in 1..Len(s) \/ j = Len(s) + 1
      BY <1>2, <1>5
    <3> QED
      BY <1>2, <1>5, <3>1
  <2>3. \A j \in (i + 1)..Len(s) : j \in (i + 1)..Len(u) /\ u[j] = s[j] /\ j <= Len(s) + 1
    BY <1>2, <1>5
  <2>4. Len(s) + 1 \in (i + 1)..Len(u)
    BY <1>2, <1>5
  <2>5. CASE \E j \in (i + 1)..Len(s) :
                 /\ IsPresence(s[j], x, y) /\ s[j].type # s[i].type
                 /\ \A k \in (i + 1)..Len(s) : IsPresence(s[k], x, y) => j <= k
    <3>1. PICK j \in (i + 1)..Len(s) :
                 /\ IsPresence(s[j], x, y) /\ s[j].type # s[i].type
                 /\ \A k \in (i + 1)..Len(s) : IsPresence(s[k], x, y) => j <= k
      BY <2>5
    <3>2. j \in (i + 1)..Len(u) /\ IsPresence(u[j], x, y) /\ u[j].type # u[i].type
      BY <2>1, <2>3, <3>1
    <3>3. \A k \in (i + 1)..Len(u) : IsPresence(u[k], x, y) => j <= k
      BY <2>2, <2>3, <3>1
    <3> QED
      BY <3>2, <3>3
  <2>6. CASE /\ \A j \in (i + 1)..Len(s) : ~IsPresence(s[j], x, y)
             /\ s[i].type = "MACAddressDiscovered" <=> Holds(T, x, y)
    <3>1. CASE x = m /\ y = d
      <4>1. IsPresence(u[Len(s) + 1], x, y) /\ u[Len(s) + 1].type = t
        BY <1>1, <1>2, <3>1
      <4>2. u[i].type # t
        BY <2>1, <2>6, <3>1 DEF IsPresence, PresenceTypes
      <4>3. \A k \in (i + 1)..Len(u) : IsPresence(u[k], x, y) => Len(s) + 1 <= k
        BY <1>2, <2>2, <2>6
      <4> QED
        BY <2>4, <4>1, <4>2, <4>3
    <3>2. CASE ~(x = m /\ y = d)
      <4>1. \A j \in (i + 1)..Len(u) : ~IsPresence(u[j], x, y)
        BY <1>1, <2>2, <2>6, <3>2
      <4> QED
        BY <2>1, <2>6, <3>2, <4>1
    <3> QED
      BY <3>1, <3>2
  <2> QED
    BY <1>5, <2>1, <2>5, <2>6 DEF PresenceFollows
<1> QED
  BY <1>2, <1>4, <1>5

\* Evidence that changes and is reported with its former value.
LEMMA AppendEvidence ==
    ASSUME NEW s \in Seq(EventRecord), NEW ev \in [MACs -> [Fields -> EvidenceValue]],
           EvidenceFollows(s, ev),
           NEW m \in MACs, NEW f \in Fields, NEW v \in EvidenceValue,
           NEW d \in Devices \cup {None}
    PROVE  EvidenceFollows(Append(s, MACEvidence(d, m, f, v, ev[m][f])), [ev EXCEPT ![m][f] = v])
<1> DEFINE e == MACEvidence(d, m, f, v, ev[m][f])
           u == Append(s, e)
           w == [ev EXCEPT ![m][f] = v]
<1>1. /\ e \in EventRecord /\ e.value = v /\ e.former = ev[m][f]
      /\ \A x \in MACs, g \in Fields : IsEvidence(e, x, g) <=> x = m /\ g = f
  BY MACEventTypes DEF MACEvidence, IsEvidence
<1> HIDE DEF e
<1>2. /\ Len(s) \in Nat /\ Len(u) = Len(s) + 1 /\ u[Len(s) + 1] = e
      /\ \A i \in 1..Len(s) : u[i] = s[i]
  BY <1>1, Appended
<1>3. \A x \in MACs, g \in Fields : w[x][g] = IF x = m /\ g = f THEN v ELSE ev[x][g]
  OBVIOUS
<1> HIDE DEF u, w
<1>4. SUFFICES ASSUME NEW i \in 1..Len(u), NEW x \in MACs, NEW g \in Fields,
                      IsEvidence(u[i], x, g)
               PROVE  \/ /\ \A j \in (i + 1)..Len(u) : ~IsEvidence(u[j], x, g)
                         /\ u[i].value = w[x][g]
                      \/ \E j \in (i + 1)..Len(u) :
                           /\ IsEvidence(u[j], x, g) /\ u[j].former = u[i].value
                           /\ \A k \in (i + 1)..Len(u) : IsEvidence(u[k], x, g) => j <= k
  BY DEF EvidenceFollows, u, e, w
<1>5. CASE i = Len(s) + 1
  <2>1. x = m /\ g = f /\ u[i].value = v
    BY <1>1, <1>2, <1>4, <1>5
  <2>2. (i + 1)..Len(u) = {}
    BY <1>2, <1>5
  <2> QED
    BY <1>3, <2>1, <2>2
<1>6. CASE i \in 1..Len(s)
  <2>1. u[i] = s[i] /\ IsEvidence(s[i], x, g)
    BY <1>2, <1>4, <1>6
  <2>2. \A j \in (i + 1)..Len(u) : \/ j \in (i + 1)..Len(s) /\ u[j] = s[j]
                                   \/ j = Len(s) + 1 /\ u[j] = e
    <3>1. \A j \in (i + 1)..Len(u) : j \in 1..Len(s) \/ j = Len(s) + 1
      BY <1>2, <1>6
    <3> QED
      BY <1>2, <1>6, <3>1
  <2>3. \A j \in (i + 1)..Len(s) : j \in (i + 1)..Len(u) /\ u[j] = s[j] /\ j <= Len(s) + 1
    BY <1>2, <1>6
  <2>4. Len(s) + 1 \in (i + 1)..Len(u)
    BY <1>2, <1>6
  <2>5. CASE \E j \in (i + 1)..Len(s) :
                 /\ IsEvidence(s[j], x, g) /\ s[j].former = s[i].value
                 /\ \A k \in (i + 1)..Len(s) : IsEvidence(s[k], x, g) => j <= k
    <3>1. PICK j \in (i + 1)..Len(s) :
                 /\ IsEvidence(s[j], x, g) /\ s[j].former = s[i].value
                 /\ \A k \in (i + 1)..Len(s) : IsEvidence(s[k], x, g) => j <= k
      BY <2>5
    <3>2. j \in (i + 1)..Len(u) /\ IsEvidence(u[j], x, g) /\ u[j].former = u[i].value
      BY <2>1, <2>3, <3>1
    <3>3. \A k \in (i + 1)..Len(u) : IsEvidence(u[k], x, g) => j <= k
      BY <2>2, <2>3, <3>1
    <3> QED
      BY <3>2, <3>3
  <2>6. CASE /\ \A j \in (i + 1)..Len(s) : ~IsEvidence(s[j], x, g)
             /\ s[i].value = ev[x][g]
    <3>1. CASE x = m /\ g = f
      <4>1. IsEvidence(u[Len(s) + 1], x, g) /\ u[Len(s) + 1].former = u[i].value
        BY <1>1, <1>2, <2>1, <2>6, <3>1
      <4>2. \A k \in (i + 1)..Len(u) : IsEvidence(u[k], x, g) => Len(s) + 1 <= k
        BY <1>2, <2>2, <2>6
      <4> QED
        BY <2>4, <4>1, <4>2
    <3>2. CASE ~(x = m /\ g = f)
      <4>1. \A j \in (i + 1)..Len(u) : ~IsEvidence(u[j], x, g)
        BY <1>1, <2>2, <2>6, <3>2
      <4> QED
        BY <1>3, <2>1, <2>6, <3>2, <4>1
    <3> QED
      BY <3>1, <3>2
  <2> QED
    BY <1>6, <2>1, <2>5, <2>6 DEF EvidenceFollows
<1> QED
  BY <1>2, <1>5, <1>6

-----------------------------------------------------------------------------
(* The steps that change a table.                                          *)

ReportsFollow == PresenceFollows(events, macSeen) /\ EvidenceFollows(events, evidence)

\* addMAC() puts the address on the device and leaves what else there is.
LEMMA addMACHolds ==
    ASSUME TypeOK, NEW m \in MACs, NEW d \in Devices, NEW x, NEW y
    PROVE  Holds(addMAC(m, d), x, y) <=> Holds(macSeen, x, y) \/ (x = m /\ y = d)
<1>1. \A e \in macSeen : [e EXCEPT !.last = now].mac = e.mac /\ [e EXCEPT !.last = now].dev = e.dev
  BY DEF TypeOK, Entry
<1>2. CASE EntriesOf(m, d) = {}
  <2>1. NewEntry(m, d).mac = m /\ NewEntry(m, d).dev = d
    BY DEF NewEntry
  <2>2. addMAC(m, d) = macSeen \cup {NewEntry(m, d)}
    BY <1>2 DEF addMAC
  <2> QED
    BY <2>1, <2>2 DEF Holds
<1>3. CASE EntriesOf(m, d) # {}
  <2>1. addMAC(m, d) = (macSeen \ EntriesOf(m, d))
                           \cup {[e EXCEPT !.last = now] : e \in EntriesOf(m, d)}
    BY <1>3 DEF addMAC
  <2>2. \A e \in EntriesOf(m, d) : e \in macSeen /\ e.mac = m /\ e.dev = d
    BY DEF EntriesOf
  <2>3. \A e \in macSeen : \E g \in addMAC(m, d) : g.mac = e.mac /\ g.dev = e.dev
    BY <1>1, <2>1
  <2>4. \A g \in addMAC(m, d) : \E e \in macSeen : g.mac = e.mac /\ g.dev = e.dev
    BY <1>1, <2>1, <2>2
  <2>5. Holds(macSeen, m, d)
    BY <1>3, <2>2 DEF Holds
  <2> QED
    BY <2>3, <2>4, <2>5 DEF Holds
<1> QED
  BY <1>2, <1>3

\* updateMACEvidence() reports what it stores.
LEMMA EvidenceReported ==
    ASSUME TypeOK, NEW s \in Seq(EventRecord), NEW T,
           PresenceFollows(s, T), EvidenceFollows(s, evidence),
           NEW d \in Devices \cup {None}, NEW m \in MACs, NEW f \in Fields,
           NEW v \in EvidenceValue
    PROVE  /\ PresenceFollows(s \o EvidenceEvents(d, m, f, v), T)
           /\ EvidenceFollows(s \o EvidenceEvents(d, m, f, v), updateMACEvidence(m, f, v))
<1>1. evidence \in [MACs -> [Fields -> EvidenceValue]] /\ evidence[m][f] \in EvidenceValue
  BY DEF TypeOK
<1>2. CASE evidence[m][f] = v
  <2>1. EvidenceEvents(d, m, f, v) = <<>> /\ s \o <<>> = s
    BY <1>2, ConcatEmptySeq DEF EvidenceEvents
  <2>2. updateMACEvidence(m, f, v) = evidence
    BY <1>1, <1>2 DEF updateMACEvidence
  <2> QED
    BY <2>1, <2>2
<1>3. CASE evidence[m][f] # v
  <2> DEFINE e == MACEvidence(d, m, f, v, evidence[m][f])
  <2>1. e \in EventRecord
    BY <1>1, MACEventTypes
  <2>2. e.type = "MACEvidenceChanged" /\ e.type \notin PresenceTypes
    BY DEF MACEvidence, PresenceTypes
  <2>3. EvidenceFollows(Append(s, e), [evidence EXCEPT ![m][f] = v])
    BY <1>1, AppendEvidence
  <2> HIDE DEF e
  <2>4. EvidenceEvents(d, m, f, v) = <<e>>
    BY <1>3 DEF EvidenceEvents, e
  <2>5. s \o EvidenceEvents(d, m, f, v) = Append(s, e)
    BY <2>1, <2>4, Appended
  <2> QED
    BY <2>1, <2>2, <2>3, <2>5, AppendQuiet DEF updateMACEvidence
<1> QED
  BY <1>2, <1>3

\* A frame: the discovery is reported before the evidence.
LEMMA FrameReported ==
    ASSUME TypeOK, ReportsFollow, NEW d \in Devices, NEW m \in MACs, NEW ip \in IPs \cup {None},
           HandleFrame(d, m, ip)
    PROVE  ReportsFollow'
<1>1. CASE ~macAllowed(m)
  BY <1>1 DEF HandleFrame, ReportsFollow
<1>2. CASE macAllowed(m)
  <2> DEFINE s == events \o DiscoveryEvents(m, d)
  <2>1. events \in Seq(EventRecord)
    BY DEF TypeOK
  <2>2. EntriesOf(m, d) = {} <=> ~Holds(macSeen, m, d)
    BY DEF EntriesOf, Holds
  <2>3. /\ s \in Seq(EventRecord)
        /\ PresenceFollows(s, addMAC(m, d)) /\ EvidenceFollows(s, evidence)
    <3>1. CASE EntriesOf(m, d) = {}
      <4> DEFINE e == MACEvent("MACAddressDiscovered", d, m)
      <4>1. e \in EventRecord /\ e.type # "MACEvidenceChanged"
        BY MACEventTypes DEF MACEvent
      <4>2. PresenceFollows(Append(events, e), addMAC(m, d))
        <5>1. "MACAddressDiscovered" \in PresenceTypes
          BY DEF PresenceTypes
        <5>2. /\ ~Holds(macSeen, m, d) /\ Holds(addMAC(m, d), m, d)
              /\ \A x \in MACs, y \in Devices :
                    ~(x = m /\ y = d) => (Holds(macSeen, x, y) <=> Holds(addMAC(m, d), x, y))
          BY <2>2, <3>1, addMACHolds
        <5> QED
          BY <2>1, <5>1, <5>2, AppendPresence DEF ReportsFollow
      <4> HIDE DEF e
      <4>3. s = Append(events, e) /\ Append(events, e) \in Seq(EventRecord)
        <5>1. DiscoveryEvents(m, d) = <<e>>
          BY <3>1 DEF DiscoveryEvents, e
        <5> QED
          BY <2>1, <4>1, <5>1, Appended
      <4>4. EvidenceFollows(Append(events, e), evidence)
        BY <2>1, <4>1, AppendQuiet DEF ReportsFollow
      <4> HIDE DEF s
      <4> QED
        BY <4>2, <4>3, <4>4
    <3>2. CASE EntriesOf(m, d) # {}
      <4>1. s = events
        BY <2>1, <3>2, ConcatEmptySeq DEF DiscoveryEvents
      <4>2. \A x \in MACs, y \in Devices : Holds(macSeen, x, y) <=> Holds(addMAC(m, d), x, y)
        BY <2>2, <3>2, addMACHolds
      <4> HIDE DEF s
      <4> QED
        BY <2>1, <4>1, <4>2 DEF ReportsFollow, PresenceFollows
    <3> QED
      BY <3>1, <3>2
  <2> HIDE DEF s
  <2>4. CASE ip # None /\ ipAllowed(ip)
    <3>1. "ip" \in Fields /\ ip \in EvidenceValue
      BY <2>4 DEF Fields, EvidenceValue
    <3>2. /\ macSeen' = addMAC(m, d) /\ evidence' = updateMACEvidence(m, "ip", ip)
          /\ events' = s \o EvidenceEvents(d, m, "ip", ip)
      BY <1>2, <2>4 DEF HandleFrame, s
    <3> QED
      BY <2>3, <3>1, <3>2, EvidenceReported DEF ReportsFollow
  <2>5. CASE ~(ip # None /\ ipAllowed(ip))
    <3>1. macSeen' = addMAC(m, d) /\ evidence' = evidence /\ events' = s
      BY <1>2, <2>5 DEF HandleFrame, s
    <3> QED
      BY <2>3, <3>1 DEF ReportsFollow
  <2> QED
    BY <2>4, <2>5
<1> QED
  BY <1>1, <1>2

\* An entry that goes, with its device or from age, is reported.
LEMMA EntryGoneReported ==
    ASSUME TypeOK, KeysUnique, ReportsFollow, NEW e \in macSeen,
           macSeen' = macSeen \ {e}, evidence' = evidence,
           events' = Append(events, MACEvent("MACAddressDisappeared", e.dev, e.mac))
    PROVE  ReportsFollow'
<1>1. e.mac \in MACs /\ e.dev \in Devices /\ events \in Seq(EventRecord)
  BY DEF TypeOK, Entry
<1>2. /\ Holds(macSeen, e.mac, e.dev) /\ ~Holds(macSeen', e.mac, e.dev)
      /\ \A x \in MACs, y \in Devices :
            ~(x = e.mac /\ y = e.dev) => (Holds(macSeen, x, y) <=> Holds(macSeen', x, y))
  BY DEF Holds, KeysUnique
<1>3. /\ "MACAddressDisappeared" \in PresenceTypes
      /\ "MACAddressDisappeared" # "MACAddressDiscovered"
  BY DEF PresenceTypes
<1>4. PresenceFollows(events', macSeen')
  BY <1>1, <1>2, <1>3, AppendPresence DEF ReportsFollow
<1>5. /\ MACEvent("MACAddressDisappeared", e.dev, e.mac) \in EventRecord
      /\ MACEvent("MACAddressDisappeared", e.dev, e.mac).type # "MACEvidenceChanged"
  BY <1>1, MACEventTypes DEF MACEvent
<1>6. EvidenceFollows(events', evidence')
  BY <1>1, <1>5, AppendQuiet DEF ReportsFollow
<1> QED
  BY <1>4, <1>6 DEF ReportsFollow

-----------------------------------------------------------------------------
(* The steps that report on a device.                                      *)

\* The events about device d that neither addresses nor its removal are behind.
News(d) == {e \in EventRecord :
               e.dev = d /\ e.type \in {"DeviceAdded", "DeviceStateChanged", "DeviceEvidenceChanged"}}

\* The constructors yield such events.
LEMMA NewsEvents ==
    ASSUME NEW d \in Devices
    PROVE  /\ DeviceEvent("DeviceAdded", d) \in News(d)
           /\ \A f \in {"up", "running"}, b \in BOOLEAN : StateEvent(d, f, b) \in News(d)
           /\ \A f \in {"mac", "ip", "broadcast-ip"}, v \in MACs \cup IPs, w \in IPs \cup {None} :
                 DeviceEvidence(d, f, v, w) \in News(d)
  BY DeviceEventTypes DEF News, DeviceEvent, StateEvent, DeviceEvidence

\* maintainDeviceStatus() reports on its device only.
LEMMA StatusNews ==
    ASSUME TypeOK, NEW d \in Known, NEW s \in Statuses
    PROVE  StatusEvents(d, s) \in Seq(News(d))
<1> DEFINE E1 == IF device[d].up # s.up THEN <<StateEvent(d, "up", s.up)>> ELSE <<>>
           E2 == IF device[d].running # s.running
                 THEN <<StateEvent(d, "running", s.running)>> ELSE <<>>
           E3 == IF device[d].ip # s.ip
                 THEN <<DeviceEvidence(d, "ip", s.ip, device[d].ip)>> ELSE <<>>
           E4 == IF device[d].broadcast # s.broadcast
                 THEN <<DeviceEvidence(d, "broadcast-ip", s.broadcast, device[d].broadcast)>>
                 ELSE <<>>
<1>1. d \in Devices /\ device[d].ip \in IPs \cup {None} /\ device[d].broadcast \in IPs \cup {None}
  BY DEF TypeOK, DeviceObject, Known
<1>2. s.up \in BOOLEAN /\ s.running \in BOOLEAN /\ s.ip \in IPs /\ s.broadcast \in IPs
  BY NetworkAssumption
<1>3. /\ StateEvent(d, "up", s.up) \in News(d)
      /\ StateEvent(d, "running", s.running) \in News(d)
      /\ DeviceEvidence(d, "ip", s.ip, device[d].ip) \in News(d)
      /\ DeviceEvidence(d, "broadcast-ip", s.broadcast, device[d].broadcast) \in News(d)
  BY <1>1, <1>2, NewsEvents
<1>4. <<>> \in Seq(News(d)) /\ \A x \in News(d) : <<x>> \in Seq(News(d))
  BY EmptySeq
<1>5. /\ E1 \in Seq(News(d)) /\ E2 \in Seq(News(d))
      /\ E3 \in Seq(News(d)) /\ E4 \in Seq(News(d))
  BY <1>3, <1>4
<1> HIDE DEF E1, E2, E3, E4
<1>6. ((E1 \o E2) \o E3) \o E4 \in Seq(News(d))
  BY <1>5, ConcatProperties
<1> QED
  BY <1>6 DEF StatusEvents, E1, E2, E3, E4

\* addDevice() and maintainDeviceStatus() append such events, for a device that is
\* known from then on.
LEMMA NewsAppended ==
    ASSUME TypeOK, LoopsCoverDevices,
           \E x \in Devices : AddDevice(x) \/ MaintainDevice(x)
    PROVE  \/ events' = events /\ Known' = Known
           \/ \E d \in Devices : \E t \in Seq(News(d)) :
                 /\ events' = events \o t
                 /\ \/ d \in Known /\ Known' = Known
                    \/ d \in sysNames /\ Known' = Known \cup {d}
<1>1. CASE \E x \in Devices : MaintainDevice(x)
  <2>1. PICK d \in Devices, s \in Statuses :
            /\ d \in todo /\ npc = "maintain" /\ events' = events \o StatusEvents(d, s)
            /\ device' = [device EXCEPT ![d] = SetStatus(device[d], s)]
    BY <1>1 DEF MaintainDevice
  <2>2. d \in Known /\ Known' = Known
    BY <2>1 DEF LoopsCoverDevices, Known
  <2>3. StatusEvents(d, s) \in Seq(News(d))
    BY <2>2, StatusNews
  <2> QED
    BY <2>1, <2>2, <2>3
<1>2. CASE \E x \in Devices : AddDevice(x)
  <2>1. PICK d \in Devices : AddDevice(d)
    BY <1>2
  <2>2. CASE deviceAllowed(d) /\ d \notin Known /\ d \in sysNames
    <3>1. NewDevice(d).mac \in MACs
      BY NetworkAssumption DEF NewDevice, OwnMAC
    <3> DEFINE x == DeviceEvent("DeviceAdded", d)
               y == DeviceEvidence(d, "mac", NewDevice(d).mac, None)
    <3>2. x \in News(d) /\ y \in News(d)
      BY <3>1, NewsEvents
    <3>3. events' = events \o <<x, y>> /\ Known' = Known \cup {d}
      BY <2>1, <2>2 DEF AddDevice, Known
    <3> HIDE DEF x, y
    <3>4. <<x, y>> \in Seq(News(d))
      BY <3>2
    <3> QED
      BY <2>2, <3>3, <3>4
  <2>3. CASE ~(deviceAllowed(d) /\ d \notin Known /\ d \in sysNames)
    BY <2>1, <2>3 DEF AddDevice, Known
  <2> QED
    BY <2>2, <2>3
<1> QED
  BY <1>1, <1>2

-----------------------------------------------------------------------------
(* Every step.                                                             *)

\* The reports about addresses follow the tables through every step.
LEMMA ReportsFollow_Step ==
    ASSUME TypeOK, LoopsCoverDevices, KeysUnique, ReportsFollow, Next
    PROVE  ReportsFollow'
<1> USE DEF kernel, config, control, tables, netVars
<1>0. events \in Seq(EventRecord)
  BY DEF TypeOK
<1>1. CASE UNCHANGED <<macSeen, evidence, events>>
  BY <1>1 DEF ReportsFollow
<1>2. CASE Begin
  BY <1>2 DEF Begin, ReportsFollow, PresenceFollows, EvidenceFollows
<1>3. CASE \E d \in Devices : ReadDevice(d)
  <2>1. ZeroMAC \in MACs /\ None \in IPs \cup {None}
    BY NetworkAssumption
  <2> QED
    BY <1>1, <1>3, <2>1, FrameReported DEF ReadDevice, ReadNothing, ReadError, ReadFrame
<1>4. CASE \E m \in MACs : CheckHostname(m)
  <2>1. "hostname" \in Fields /\ \A name \in Hostnames : name \in EvidenceValue
    BY DEF Fields, EvidenceValue
  <2>2. PICK m \in MACs : CheckHostname(m)
    BY <1>4
  <2>3. macSeen' = macSeen
    BY <2>2 DEF CheckHostname
  <2>4. ASSUME NEW name \in Hostnames, NEW d \in Devices \cup {None},
               evidence' = updateMACEvidence(m, "hostname", name),
               events' = events \o EvidenceEvents(d, m, "hostname", name)
        PROVE  ReportsFollow'
    BY <1>0, <2>1, <2>3, <2>4, EvidenceReported DEF ReportsFollow
  <2> QED
    BY <1>1, <2>2, <2>3, <2>4 DEF CheckHostname
<1>5. CASE \E e \in macSeen : RemoveMAC(e) \/ ExpireMAC(e)
  BY <1>5, EntryGoneReported DEF RemoveMAC, ExpireMAC
<1>6. CASE \E d \in Devices : RemoveDevice(d)
  <2>1. PICK d \in Devices : RemoveDevice(d)
    BY <1>6
  <2> DEFINE e == DeviceEvent("DeviceRemoved", d)
  <2>2. e \in EventRecord /\ e.type \notin PresenceTypes /\ e.type # "MACEvidenceChanged"
    BY DeviceEventTypes DEF DeviceEvent, PresenceTypes
  <2>3. events' = Append(events, e) /\ UNCHANGED <<macSeen, evidence>>
    BY <2>1 DEF RemoveDevice
  <2> HIDE DEF e
  <2> QED
    BY <1>0, <2>2, <2>3, AppendQuiet DEF ReportsFollow
<1>7. CASE \E d \in Devices : AddDevice(d) \/ MaintainDevice(d)
  <2>1. UNCHANGED <<macSeen, evidence>>
    BY <1>7 DEF AddDevice, MaintainDevice
  <2>2. ASSUME NEW d \in Devices, NEW t \in Seq(News(d)), events' = events \o t
        PROVE  ReportsFollow'
    <3>1. /\ t \in Seq(EventRecord)
          /\ \A k \in 1..Len(t) : t[k].type \notin PresenceTypes /\ t[k].type # "MACEvidenceChanged"
      BY DEF News, PresenceTypes
    <3> QED
      BY <1>0, <2>1, <2>2, <3>1, JoinQuiet DEF ReportsFollow
  <2> QED
    BY <1>1, <1>7, <2>1, <2>2, NewsAppended
<1>8. CASE Environment \/ Configure \/ Stopped
  BY <1>1, <1>8 DEF Environment, Tick, LinkUp, LinkDown, Unplug, Shutdown, Configure,
     SetDeviceWhiteBlacklistMode, AddDeviceWhiteBlacklistEntry, EndConfig, Stopped
<1>9. CASE \/ BeginHostnames \/ Scan \/ EndRemoveDevice \/ BeginAdd \/ BeginMaintain
           \/ BeginExpire \/ Finish
  BY <1>1, <1>9 DEF BeginHostnames, Scan, EndRemoveDevice, BeginAdd, BeginMaintain,
     BeginExpire, Finish
<1> QED
  BY <1>2, <1>3, <1>4, <1>5, <1>6, <1>7, <1>8, <1>9 DEF Next, Cycle

\* A device reported removed is not among the names of the scan, which is not
\* repeated before the next cycle drops the report.
RemovedAreGone ==
    \A i \in 1..Len(events) : events[i].type = "DeviceRemoved" =>
        /\ npc \notin {"config", "read", "hosts"}
        /\ events[i].dev \notin sysNames /\ events[i].dev \notin Known

SilenceInv == RemovedAreGone /\ RemovedDeviceStaysSilent

\* Events that are no removals, and not of a removed device unless an address of
\* it disappears, keep the silence.
LEMMA SilenceJoin ==
    ASSUME TypeOK, SilenceInv, NEW t \in Seq(EventRecord), events' = events \o t,
           UNCHANGED <<npc, sysNames>>,
           \A d \in Known' : d \in Known \cup sysNames,
           \A k \in 1..Len(t) :
              /\ t[k].type # "DeviceRemoved"
              /\ \/ t[k].type = "MACAddressDisappeared"
                 \/ npc \in {"read", "hosts"}
                 \/ t[k].dev \in Known \cup sysNames
    PROVE  SilenceInv'
<1>1. /\ Len(events) \in Nat /\ Len(t) \in Nat /\ Len(events') = Len(events) + Len(t)
      /\ \A i \in 1..Len(events) : events'[i] = events[i]
      /\ \A i \in 1..Len(events') :
            i \notin 1..Len(events) =>
                (i - Len(events)) \in 1..Len(t) /\ events'[i] = t[i - Len(events)]
  <2>1. events \in Seq(EventRecord)
    BY DEF TypeOK
  <2> QED
    BY <2>1, Joined
<1>2. \A i \in 1..Len(events') : events'[i].type = "DeviceRemoved" =>
          i \in 1..Len(events) /\ events'[i] = events[i]
  BY <1>1
<1>3. RemovedAreGone'
  BY <1>2 DEF SilenceInv, RemovedAreGone
<1>4. ASSUME NEW i \in 1..Len(events'), NEW j \in 1..Len(events'), i < j,
             events'[i].type = "DeviceRemoved", events'[j].dev = events'[i].dev
      PROVE  events'[j].type = "MACAddressDisappeared"
  <2>1. i \in 1..Len(events) /\ events'[i] = events[i]
    BY <1>2, <1>4
  <2>2. /\ npc \notin {"read", "hosts"}
        /\ events[i].dev \notin sysNames /\ events[i].dev \notin Known
    BY <1>4, <2>1 DEF SilenceInv, RemovedAreGone
  <2>3. CASE j \in 1..Len(events)
    BY <1>1, <1>4, <2>1, <2>3 DEF SilenceInv, RemovedDeviceStaysSilent
  <2>4. CASE j \notin 1..Len(events)
    BY <1>1, <1>4, <2>1, <2>2, <2>4
  <2> QED
    BY <2>3, <2>4
<1> QED
  BY <1>3, <1>4 DEF SilenceInv, RemovedDeviceStaysSilent

\* Every step keeps the silence about removed devices.
LEMMA Silence_Step ==
    ASSUME TypeOK, TypeOK', LoopsCoverDevices, SilenceInv, Next
    PROVE  SilenceInv'
<1> USE DEF kernel, config, control, tables, netVars
<1>0. events \in Seq(EventRecord)
  BY DEF TypeOK
<1>1. ASSUME UNCHANGED <<events, sysNames>>, Known' = Known,
             npc' \in {"config", "read", "hosts"} => npc' = npc
      PROVE  SilenceInv'
  BY <1>1 DEF SilenceInv, RemovedAreGone, RemovedDeviceStaysSilent
<1>2. CASE Begin
  BY <1>2 DEF Begin, SilenceInv, RemovedAreGone, RemovedDeviceStaysSilent
<1>3. CASE Scan \/ BeginHostnames
  <2>1. \A i \in 1..Len(events) : events[i].type # "DeviceRemoved"
    BY <1>3 DEF Scan, BeginHostnames, SilenceInv, RemovedAreGone
  <2> QED
    BY <1>3, <2>1 DEF Scan, BeginHostnames, SilenceInv, RemovedAreGone, RemovedDeviceStaysSilent
<1>4. CASE \E m \in MACs : CheckHostname(m)
  <2>1. PICK m \in MACs : CheckHostname(m)
    BY <1>4
  <2>2. UNCHANGED <<npc, sysNames, device>> /\ npc = "hosts"
    BY <2>1 DEF CheckHostname
  <2>3. ASSUME NEW name \in Hostnames, NEW d \in Devices \cup {None},
               events' = events \o EvidenceEvents(d, m, "hostname", name)
        PROVE  SilenceInv'
    <3>1. "hostname" \in Fields /\ name \in EvidenceValue
      BY DEF Fields, EvidenceValue
    <3>2. EvidenceEvents(d, m, "hostname", name) \in Seq(EventRecord)
      BY <3>1, ReadEventTypes
    <3>3. \A k \in 1..Len(EvidenceEvents(d, m, "hostname", name)) :
              EvidenceEvents(d, m, "hostname", name)[k].type # "DeviceRemoved"
      BY DEF EvidenceEvents, MACEvidence
    <3> QED
      BY <2>2, <2>3, <3>2, <3>3, SilenceJoin DEF Known
  <2> QED
    BY <1>1, <2>1, <2>2, <2>3 DEF CheckHostname, Known
<1>5. CASE \E d \in Devices : ReadDevice(d)
  <2>1. PICK d \in Devices : ReadDevice(d)
    BY <1>5
  <2>2. UNCHANGED <<npc, sysNames, device>> /\ npc = "read"
    BY <2>1 DEF ReadDevice
  <2>3. ASSUME NEW m \in MACs, NEW ip \in IPs \cup {None}, HandleFrame(d, m, ip)
        PROVE  SilenceInv'
    <3> DEFINE D == DiscoveryEvents(m, d)
               E == EvidenceEvents(d, m, "ip", ip)
    <3>1. \A k \in 1..Len(D) : D[k].type # "DeviceRemoved"
      BY DEF DiscoveryEvents, MACEvent
    <3>2. \A k \in 1..Len(E) : E[k].type # "DeviceRemoved"
      BY DEF EvidenceEvents, MACEvidence
    <3>3. "ip" \in Fields /\ ip \in EvidenceValue
      BY DEF Fields, EvidenceValue
    <3>4. D \in Seq(EventRecord) /\ E \in Seq(EventRecord)
      BY <3>3, ReadEventTypes
    <3>5. events' \in {events, events \o D, (events \o D) \o E}
      BY <2>3 DEF HandleFrame
    <3> HIDE DEF D, E
    <3>6. /\ D \o E \in Seq(EventRecord) /\ (events \o D) \o E = events \o (D \o E)
          /\ \A k \in 1..Len(D \o E) : (D \o E)[k].type # "DeviceRemoved"
      <4>1. D \o E \in Seq(EventRecord) /\ (events \o D) \o E = events \o (D \o E)
        BY <1>0, <3>4, ConcatAssociative, ConcatProperties
      <4>2. \A k \in 1..Len(D \o E) : (D \o E)[k].type # "DeviceRemoved"
        BY <3>1, <3>2, <3>4, Joined
      <4> QED
        BY <4>1, <4>2
    <3>7. CASE events' = events
      BY <1>1, <2>2, <3>7 DEF Known
    <3>8. CASE events' = events \o D
      BY <2>2, <3>1, <3>4, <3>8, SilenceJoin DEF Known
    <3>9. CASE events' = (events \o D) \o E
      BY <2>2, <3>6, <3>9, SilenceJoin DEF Known
    <3> QED
      BY <3>5, <3>7, <3>8, <3>9
  <2>4. ZeroMAC \in MACs /\ None \in IPs \cup {None}
    BY NetworkAssumption
  <2>5. CASE ReadNothing
    BY <1>1, <2>2, <2>5 DEF ReadNothing, Known
  <2> QED
    BY <2>1, <2>3, <2>4, <2>5 DEF ReadDevice, ReadError, ReadFrame
<1>6. CASE \E e \in macSeen : RemoveMAC(e) \/ ExpireMAC(e)
  <2>1. PICK e \in macSeen : RemoveMAC(e) \/ ExpireMAC(e)
    BY <1>6
  <2> DEFINE x == MACEvent("MACAddressDisappeared", e.dev, e.mac)
  <2>2. x \in EventRecord /\ x.type = "MACAddressDisappeared"
    <3>1. e.dev \in Devices /\ e.mac \in MACs
      BY DEF TypeOK, Entry
    <3> QED
      BY <3>1, MACEventTypes DEF MACEvent
  <2>3. events' = Append(events, x) /\ UNCHANGED <<npc, sysNames, device>>
    BY <2>1 DEF RemoveMAC, ExpireMAC
  <2> HIDE DEF x
  <2>4. /\ <<x>> \in Seq(EventRecord) /\ events' = events \o <<x>>
        /\ \A k \in 1..Len(<<x>>) : <<x>>[k] = x
    BY <1>0, <2>2, <2>3, Appended
  <2>5. \A k \in 1..Len(<<x>>) : <<x>>[k].type = "MACAddressDisappeared"
    BY <2>2, <2>4
  <2> QED
    BY <2>3, <2>4, <2>5, SilenceJoin DEF Known
<1>7. CASE \E d \in Devices : RemoveDevice(d)
  <2>1. PICK d \in Devices : RemoveDevice(d)
    BY <1>7
  <2> DEFINE x == DeviceEvent("DeviceRemoved", d)
  <2>2. x \in EventRecord /\ x.type = "DeviceRemoved" /\ x.dev = d
    BY DeviceEventTypes DEF DeviceEvent
  <2>3. /\ events' = Append(events, x) /\ sysNames' = sysNames /\ npc' = "purge"
        /\ Known' = Known \ {d} /\ d \in todo /\ npc = "remove"
    BY <2>1 DEF RemoveDevice, Known
  <2> HIDE DEF x
  <2>4. d \in Known /\ d \notin sysNames
    BY <2>3 DEF LoopsCoverDevices
  <2>5. /\ Len(events) \in Nat /\ Len(events') = Len(events) + 1
        /\ events'[Len(events) + 1] = x
        /\ \A i \in 1..Len(events) : events'[i] = events[i]
    BY <1>0, <2>2, <2>3, Appended
  <2>6. RemovedAreGone'
    BY <2>2, <2>3, <2>4, <2>5 DEF SilenceInv, RemovedAreGone
  <2>7. ASSUME NEW i \in 1..Len(events'), NEW j \in 1..Len(events'), i < j,
               events'[i].type = "DeviceRemoved", events'[j].dev = events'[i].dev
        PROVE  events'[j].type = "MACAddressDisappeared"
    <3>1. i \in 1..Len(events) /\ events'[i] = events[i] /\ events[i].dev \notin Known
      BY <2>5, <2>7 DEF SilenceInv, RemovedAreGone
    <3>2. j \in 1..Len(events) /\ events'[j] = events[j]
      BY <2>2, <2>4, <2>5, <2>7, <3>1
    <3> QED
      BY <2>7, <3>1, <3>2 DEF SilenceInv, RemovedDeviceStaysSilent
  <2> QED
    BY <2>6, <2>7 DEF SilenceInv, RemovedDeviceStaysSilent
<1>8. CASE \E d \in Devices : AddDevice(d) \/ MaintainDevice(d)
  <2>1. UNCHANGED <<npc, sysNames>>
    BY <1>8 DEF AddDevice, MaintainDevice
  <2>2. ASSUME NEW d \in Devices, NEW t \in Seq(News(d)), events' = events \o t,
               \/ d \in Known /\ Known' = Known
               \/ d \in sysNames /\ Known' = Known \cup {d}
        PROVE  SilenceInv'
    <3>1. /\ t \in Seq(EventRecord)
          /\ \A k \in 1..Len(t) : t[k].type # "DeviceRemoved" /\ t[k].dev = d
      BY DEF News
    <3>2. d \in Known \cup sysNames /\ \A x \in Known' : x \in Known \cup sysNames
      BY <2>2
    <3> QED
      BY <2>1, <2>2, <3>1, <3>2, SilenceJoin
  <2> QED
    BY <1>1, <1>8, <2>1, <2>2, NewsAppended
<1>9. CASE Environment \/ Configure \/ Stopped
  BY <1>1, <1>9 DEF Environment, Tick, LinkUp, LinkDown, Unplug, Shutdown, Configure,
     SetDeviceWhiteBlacklistMode, AddDeviceWhiteBlacklistEntry, EndConfig, Stopped, Known
<1>10. CASE EndRemoveDevice \/ BeginAdd \/ BeginMaintain \/ BeginExpire \/ Finish
  BY <1>1, <1>10 DEF EndRemoveDevice, BeginAdd, BeginMaintain, BeginExpire, Finish, Known
<1> QED
  BY <1>2, <1>3, <1>4, <1>5, <1>6, <1>7, <1>8, <1>9, <1>10 DEF Next, Cycle

-----------------------------------------------------------------------------
(* The theorems.                                                           *)

\* The reports follow the tables in every state.
THEOREM NetworkReportsFollow == Spec => []ReportsFollow
<1>1. Init => ReportsFollow
  BY DEF Init, ReportsFollow, PresenceFollows, EvidenceFollows
<1>2. NetInv /\ ReportsFollow /\ [Next]_netVars => ReportsFollow'
  <2>1. ASSUME NetInv, ReportsFollow, Next PROVE ReportsFollow'
    BY <2>1, ReportsFollow_Step DEF NetInv, TableInv
  <2>2. ASSUME ReportsFollow, UNCHANGED netVars PROVE ReportsFollow'
    BY <2>2 DEF netVars, ReportsFollow
  <2> QED
    BY <2>1, <2>2
<1> QED
  BY <1>1, <1>2, NetworkInvariant, PTL DEF Spec

\* What a cycle reports of the table of addresses agrees with it at every step,
\* for any number of frames, removals and expiries.
THEOREM NetworkPresenceReports == Spec => []PresenceReportsMatchTable
<1>1. ReportsFollow => PresenceReportsMatchTable
  BY ReportsRestated DEF ReportsFollow
<1> QED
  BY <1>1, NetworkReportsFollow, PTL

\* What a cycle reports of the evidence chains up and ends in what is stored.
THEOREM NetworkEvidenceReports == Spec => []EvidenceReportsMatchTable
<1>1. ReportsFollow => EvidenceReportsMatchTable
  BY ReportsRestated DEF ReportsFollow
<1> QED
  BY <1>1, NetworkReportsFollow, PTL

\* After the report of a device's removal a cycle says nothing more of the device
\* than that its addresses disappeared, whatever the kernel's interfaces do.
THEOREM NetworkRemovedStaysSilent == Spec => []RemovedDeviceStaysSilent
<1>1. Init => SilenceInv
  BY DEF Init, SilenceInv, RemovedAreGone, RemovedDeviceStaysSilent
<1>2. NetInv /\ NetInv' /\ SilenceInv /\ [Next]_netVars => SilenceInv'
  <2>1. ASSUME NetInv, NetInv', SilenceInv, Next PROVE SilenceInv'
    BY <2>1, Silence_Step DEF NetInv
  <2>2. ASSUME SilenceInv, UNCHANGED netVars PROVE SilenceInv'
    BY <2>2 DEF netVars, SilenceInv, RemovedAreGone, RemovedDeviceStaysSilent, Known
  <2> QED
    BY <2>1, <2>2
<1>3. SilenceInv => RemovedDeviceStaysSilent
  BY DEF SilenceInv
<1> QED
  BY <1>1, <1>2, <1>3, NetworkInvariant, PTL DEF Spec
=============================================================================
