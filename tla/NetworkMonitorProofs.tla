------------------------ MODULE NetworkMonitorProofs ------------------------
(***************************************************************************)
(* Network implements Monitor, for every set of devices and addresses: the *)
(* proof that TLC's check of ImplementsMonitor on small instances extends  *)
(* to all of them.                                                         *)
(***************************************************************************)
EXTENDS NetworkMonitor, NetworkReportProofs

(* The mapped report.                                                      *)

Mapped(s) == [i \in 1..Len(s) |-> Abstract(s[i])]

Abstracted == {Abstract(e) : e \in EventRecord}

\* Mapping goes through scheduleEvent().
LEMMA MappedJoin ==
    ASSUME NEW s \in Seq(EventRecord), NEW t \in Seq(EventRecord)
    PROVE  /\ Mapped(s) \in Seq(Abstracted) /\ Mapped(t) \in Seq(Abstracted)
           /\ Mapped(s \o t) = Mapped(s) \o Mapped(t)
<1>1. \A q \in Seq(EventRecord) :
          /\ Len(q) \in Nat /\ Len(Mapped(q)) = Len(q) /\ Mapped(q) \in Seq(Abstracted)
          /\ \A i \in 1..Len(q) : Mapped(q)[i] = Abstract(q[i])
  <2>1. SUFFICES ASSUME NEW q \in Seq(EventRecord)
                 PROVE  /\ Len(q) \in Nat /\ Len(Mapped(q)) = Len(q)
                        /\ Mapped(q) \in Seq(Abstracted)
                        /\ \A i \in 1..Len(q) : Mapped(q)[i] = Abstract(q[i])
    OBVIOUS
  <2>2. Len(q) \in Nat /\ \A i \in 1..Len(q) : Abstract(q[i]) \in Abstracted
    BY ElementOfSeq, LenProperties DEF Abstracted
  <2>3. Mapped(q) \in Seq(Abstracted) /\ Len(Mapped(q)) = Len(q)
    BY <2>2, IsASeq, LenProperties DEF Mapped
  <2> QED
    BY <2>2, <2>3 DEF Mapped
<1>2. s \o t \in Seq(EventRecord)
  BY ConcatProperties
<1> DEFINE u == s \o t
           L == Mapped(u)
           R == Mapped(s) \o Mapped(t)
<1>3. L \in Seq(Abstracted) /\ R \in Seq(Abstracted) /\ Len(L) = Len(s) + Len(t) /\ Len(R) = Len(L)
  <2>1. L \in Seq(Abstracted) /\ Len(L) = Len(s) + Len(t)
    BY <1>1, <1>2, ConcatProperties
  <2>2. /\ Mapped(s) \in Seq(Abstracted) /\ Mapped(t) \in Seq(Abstracted)
        /\ Len(Mapped(s)) = Len(s) /\ Len(Mapped(t)) = Len(t)
    BY <1>1
  <2>3. R \in Seq(Abstracted) /\ Len(R) = Len(s) + Len(t)
    <3> DEFINE a == Mapped(s)
               b == Mapped(t)
    <3>1. a \in Seq(Abstracted) /\ b \in Seq(Abstracted) /\ Len(a) = Len(s) /\ Len(b) = Len(t)
      BY <2>2
    <3> HIDE DEF a, b
    <3>2. a \o b \in Seq(Abstracted) /\ Len(a \o b) = Len(s) + Len(t)
      <4>1. a \o b \in Seq(Abstracted)
        BY <3>1, ConcatProperties
      <4>2. Len(a \o b) = Len(a) + Len(b)
        BY <3>1, ConcatProperties
      <4> QED
        BY <3>1, <4>1, <4>2
    <3> QED
      BY <3>2 DEF a, b
  <2> QED
    BY <2>1, <2>3
<1>4. ASSUME NEW i \in 1..Len(L) PROVE L[i] = R[i]
  <2>1. u[i] = IF i <= Len(s) THEN s[i] ELSE t[i - Len(s)]
    BY <1>3, ConcatProperties
  <2>2. R[i] = IF i <= Len(s) THEN Mapped(s)[i] ELSE Mapped(t)[i - Len(s)]
    BY <1>1, <1>3, ConcatProperties
  <2>3. L[i] = Abstract(u[i])
    BY <1>1, <1>2, <1>3
  <2> HIDE DEF L, R, u
  <2> QED
    BY <1>1, <1>3, <2>1, <2>2, <2>3
<1>5. L = R
  BY <1>3, <1>4, SeqEqual
<1> QED
  BY <1>1, <1>5

\* The same of one event and of none.
LEMMA MappedAppend ==
    ASSUME NEW s \in Seq(EventRecord), NEW e \in EventRecord
    PROVE  /\ Mapped(Append(s, e)) = Append(Mapped(s), Abstract(e))
           /\ Mapped(<<e>>) = <<Abstract(e)>> /\ Mapped(<<>>) = <<>>
<1>1. Mapped(<<e>>) = <<Abstract(e)>> /\ Mapped(<<>>) = <<>>
  BY DEF Mapped
<1>2. <<e>> \in Seq(EventRecord) /\ Append(s, e) = s \o <<e>>
  BY Appended
<1>3. Mapped(s \o <<e>>) = Mapped(s) \o <<Abstract(e)>> /\ Mapped(s) \in Seq(Abstracted)
  BY <1>1, <1>2, MappedJoin
<1>4. Abstract(e) \in Abstracted
  BY DEF Abstracted
<1>5. Mapped(s) \o <<Abstract(e)>> = Append(Mapped(s), Abstract(e))
  BY <1>3, <1>4, Appended
<1> QED
  BY <1>1, <1>2, <1>3, <1>5

\* What the contract calls the events of Event.cpp.
LEMMA AbstractEvents ==
    ASSUME NEW d, NEW m, NEW f, NEW v, NEW w
    PROVE  /\ Abstract(MACEvent("MACAddressDiscovered", d, m))
                  = Contract!Event("MACAddressDiscovered", d, m)
           /\ Abstract(MACEvent("MACAddressDisappeared", d, m))
                  = Contract!Event("MACAddressDisappeared", d, m)
           /\ Abstract(MACEvidence(d, m, f, v, w)) = Contract!Event("MACEvidenceChanged", d, m)
           /\ Abstract(DeviceEvent("DeviceRemoved", d)) = Contract!Event("DeviceRemoved", d, None)
           /\ Abstract(DeviceEvent("DeviceAdded", d)) = Contract!Event("DeviceAdded", d, None)
           /\ Abstract(StateEvent(d, f, v)) = Contract!Event("DeviceStatus", d, None)
           /\ Abstract(DeviceEvidence(d, f, v, w)) = Contract!Event("DeviceStatus", d, None)
  BY DEF Abstract, IsMACEvent, MACEvent, MACEvidence, DeviceEvent, StateEvent, DeviceEvidence,
         Contract!Event

\* Short sequences of one event put together.
LEMMA Repeated ==
    ASSUME NEW S
    PROVE  /\ <<>> \o <<>> = <<>> /\ <<>> \o <<S>> = <<S>>
           /\ <<S>> \o <<>> = <<S>> /\ <<S>> \o <<S>> = <<S, S>>
           /\ <<S, S>> \o <<>> = <<S, S>> /\ <<S, S>> \o <<S>> = <<S, S, S>>
           /\ <<S, S, S>> \o <<>> = <<S, S, S>> /\ <<S, S, S>> \o <<S>> = <<S, S, S, S>>
<1>1. /\ <<>> \in Seq({S}) /\ <<S>> \in Seq({S}) /\ <<S, S>> \in Seq({S})
      /\ <<S, S, S>> \in Seq({S}) /\ <<S, S, S, S>> \in Seq({S})
  OBVIOUS
<1>2. \A q \in Seq({S}) : q \o <<>> = q /\ <<>> \o q = q
  BY ConcatEmptySeq
<1>3. \A q, r \in Seq({S}) : Len(q) = Len(r) => q = r
  <2>1. \A q \in Seq({S}) : \A i \in 1..Len(q) : q[i] = S
    OBVIOUS
  <2> QED
    BY <2>1, SeqEqual
<1>4. \A q, r \in Seq({S}) : q \o r \in Seq({S}) /\ Len(q \o r) = Len(q) + Len(r)
  BY ConcatProperties
<1>5. Len(<<S>>) = 1 /\ Len(<<S, S>>) = 2 /\ Len(<<S, S, S>>) = 3 /\ Len(<<S, S, S, S>>) = 4
  OBVIOUS
<1> DEFINE s1 == <<S>>
           s2 == <<S, S>>
           s3 == <<S, S, S>>
           s4 == <<S, S, S, S>>
<1>6. /\ s1 \in Seq({S}) /\ s2 \in Seq({S}) /\ s3 \in Seq({S}) /\ s4 \in Seq({S})
      /\ Len(s1) = 1 /\ Len(s2) = 2 /\ Len(s3) = 3 /\ Len(s4) = 4
  BY <1>1, <1>5
<1> HIDE DEF s1, s2, s3, s4
<1>7. /\ Len(s1 \o s1) = Len(s2) /\ Len(s2 \o s1) = Len(s3) /\ Len(s3 \o s1) = Len(s4)
      /\ s1 \o s1 \in Seq({S}) /\ s2 \o s1 \in Seq({S}) /\ s3 \o s1 \in Seq({S})
  <2>1. s1 \o s1 \in Seq({S}) /\ s2 \o s1 \in Seq({S}) /\ s3 \o s1 \in Seq({S})
    BY <1>4, <1>6
  <2>2. Len(s1 \o s1) = Len(s1) + Len(s1)
    BY <1>4, <1>6
  <2>3. Len(s2 \o s1) = Len(s2) + Len(s1)
    BY <1>4, <1>6
  <2>4. Len(s3 \o s1) = Len(s3) + Len(s1)
    BY <1>4, <1>6
  <2> QED
    BY <1>6, <2>1, <2>2, <2>3, <2>4
<1>8. s1 \o s1 = s2 /\ s2 \o s1 = s3 /\ s3 \o s1 = s4
  BY <1>3, <1>6, <1>7
<1>9. /\ <<>> \o <<>> = <<>> /\ <<>> \o s1 = s1 /\ s1 \o <<>> = s1 /\ s2 \o <<>> = s2
      /\ s3 \o <<>> = s3
  BY <1>1, <1>2, <1>6
<1> QED
  BY <1>8, <1>9 DEF s1, s2, s3, s4

\* Up to four changes of a device's status, of one kind to the contract.
LEMMA MappedStatus ==
    ASSUME TypeOK, NEW d \in Known, NEW s \in Statuses
    PROVE  Mapped(StatusEvents(d, s)) \in Contract!StatusReports(d)
<1> DEFINE E1 == IF device[d].up # s.up THEN <<StateEvent(d, "up", s.up)>> ELSE <<>>
           E2 == IF device[d].running # s.running
                 THEN <<StateEvent(d, "running", s.running)>> ELSE <<>>
           E3 == IF device[d].ip # s.ip
                 THEN <<DeviceEvidence(d, "ip", s.ip, device[d].ip)>> ELSE <<>>
           E4 == IF device[d].broadcast # s.broadcast
                 THEN <<DeviceEvidence(d, "broadcast-ip", s.broadcast, device[d].broadcast)>>
                 ELSE <<>>
           S == Contract!Event("DeviceStatus", d, None)
<1>1. d \in Devices /\ device[d].ip \in IPs \cup {None} /\ device[d].broadcast \in IPs \cup {None}
  BY DEF TypeOK, DeviceObject, Known
<1>2. s.up \in BOOLEAN /\ s.running \in BOOLEAN /\ s.ip \in IPs /\ s.broadcast \in IPs
  BY NetworkAssumption
<1>3. /\ StateEvent(d, "up", s.up) \in EventRecord
      /\ StateEvent(d, "running", s.running) \in EventRecord
      /\ DeviceEvidence(d, "ip", s.ip, device[d].ip) \in EventRecord
      /\ DeviceEvidence(d, "broadcast-ip", s.broadcast, device[d].broadcast) \in EventRecord
  BY <1>1, <1>2, DeviceEventTypes
<1>4. /\ E1 \in Seq(EventRecord) /\ E2 \in Seq(EventRecord)
      /\ E3 \in Seq(EventRecord) /\ E4 \in Seq(EventRecord)
  BY <1>3, EventsGrow
<1>5. /\ <<>> \in Seq(EventRecord)
      /\ \A e \in EventRecord : Mapped(<<e>>) = <<Abstract(e)>> /\ Mapped(<<>>) = <<>>
  BY MappedAppend, EmptySeq
<1>6. /\ Mapped(E1) \in {<<>>, <<S>>} /\ Mapped(E2) \in {<<>>, <<S>>}
      /\ Mapped(E3) \in {<<>>, <<S>>} /\ Mapped(E4) \in {<<>>, <<S>>}
  <2>0. /\ Abstract(StateEvent(d, "up", s.up)) = S
        /\ Abstract(StateEvent(d, "running", s.running)) = S
        /\ Abstract(DeviceEvidence(d, "ip", s.ip, device[d].ip)) = S
        /\ Abstract(DeviceEvidence(d, "broadcast-ip", s.broadcast, device[d].broadcast)) = S
    BY AbstractEvents
  <2> HIDE DEF S
  <2>1. Mapped(E1) \in {<<>>, <<S>>}
    BY <1>3, <1>5, <2>0
  <2>2. Mapped(E2) \in {<<>>, <<S>>}
    BY <1>3, <1>5, <2>0
  <2>3. Mapped(E3) \in {<<>>, <<S>>}
    BY <1>3, <1>5, <2>0
  <2>4. Mapped(E4) \in {<<>>, <<S>>}
    BY <1>3, <1>5, <2>0
  <2> QED
    BY <2>1, <2>2, <2>3, <2>4
<1>7. StatusEvents(d, s) = ((E1 \o E2) \o E3) \o E4
  BY DEF StatusEvents
<1>8. Contract!StatusReports(d) = {<<>>, <<S>>, <<S, S>>, <<S, S, S>>, <<S, S, S, S>>}
  BY DEF Contract!StatusReports
<1> HIDE DEF E1, E2, E3, E4, S
<1>9. Mapped(((E1 \o E2) \o E3) \o E4)
          = ((Mapped(E1) \o Mapped(E2)) \o Mapped(E3)) \o Mapped(E4)
  <2>1. (E1 \o E2) \in Seq(EventRecord) /\ ((E1 \o E2) \o E3) \in Seq(EventRecord)
    BY <1>4, ConcatProperties
  <2>2. Mapped(E1 \o E2) = Mapped(E1) \o Mapped(E2)
    BY <1>4, MappedJoin
  <2>3. Mapped((E1 \o E2) \o E3) = Mapped(E1 \o E2) \o Mapped(E3)
    BY <1>4, <2>1, MappedJoin
  <2>4. Mapped(((E1 \o E2) \o E3) \o E4) = Mapped((E1 \o E2) \o E3) \o Mapped(E4)
    BY <1>4, <2>1, MappedJoin
  <2> QED
    BY <2>2, <2>3, <2>4
<1> DEFINE a == Mapped(E1)
           b == Mapped(E2)
           c == Mapped(E3)
           e == Mapped(E4)
<1>13. a \in {<<>>, <<S>>} /\ b \in {<<>>, <<S>>} /\ c \in {<<>>, <<S>>} /\ e \in {<<>>, <<S>>}
  BY <1>6
<1>14. Mapped(StatusEvents(d, s)) = ((a \o b) \o c) \o e
  BY <1>7, <1>9
<1> HIDE DEF a, b, c, e
<1>10. a \o b \in {<<>>, <<S>>, <<S, S>>}
  BY <1>13, Repeated
<1>11. (a \o b) \o c \in {<<>>, <<S>>, <<S, S>>, <<S, S, S>>}
  BY <1>10, <1>13, Repeated
<1>12. ((a \o b) \o c) \o e \in {<<>>, <<S>>, <<S, S>>, <<S, S, S>>, <<S, S, S, S>>}
  BY <1>11, <1>13, Repeated
<1> QED
  BY <1>8, <1>12, <1>14

-----------------------------------------------------------------------------
(* The steps.                                                              *)

Heard == {m \in MACs : evidence[m]["ip"] # None}

\* Two pairs are the same when their parts are.
LEMMA PairsHold ==
    ASSUME TypeOK
    PROVE  \A m, d : <<m, d>> \in Pairs <=> Holds(macSeen, m, d)
  BY DEF Pairs, Holds

\* What addMAC() and the erasing of an entry do to the pairs.
LEMMA PairsStep ==
    ASSUME TypeOK
    PROVE  /\ \A m \in MACs, d \in Devices :
                 macSeen' = addMAC(m, d) => Pairs' = Pairs \cup {<<m, d>>}
           /\ \A e \in macSeen :
                 KeysUnique /\ macSeen' = macSeen \ {e} => Pairs' = Pairs \ {<<e.mac, e.dev>>}
<1>1. ASSUME NEW m \in MACs, NEW d \in Devices, macSeen' = addMAC(m, d)
      PROVE  Pairs' = Pairs \cup {<<m, d>>}
  <2>1. \A x, y : Holds(macSeen', x, y) <=> Holds(macSeen, x, y) \/ (x = m /\ y = d)
    BY <1>1, addMACHolds
  <2>2. Pairs' \subseteq Pairs \cup {<<m, d>>}
    <3>1. SUFFICES ASSUME NEW e \in macSeen'
                   PROVE  <<e.mac, e.dev>> \in Pairs \cup {<<m, d>>}
      BY DEF Pairs
    <3>2. Holds(macSeen', e.mac, e.dev)
      BY DEF Holds
    <3> QED
      BY <2>1, <3>2 DEF Holds, Pairs
  <2>3. Pairs \subseteq Pairs'
    <3>1. SUFFICES ASSUME NEW e \in macSeen
                   PROVE  <<e.mac, e.dev>> \in Pairs'
      BY DEF Pairs
    <3>2. Holds(macSeen', e.mac, e.dev)
      BY <2>1 DEF Holds
    <3> QED
      BY <3>2 DEF Holds, Pairs
  <2>4. <<m, d>> \in Pairs'
    <3>1. Holds(macSeen', m, d)
      BY <2>1
    <3> QED
      BY <3>1 DEF Holds, Pairs
  <2> QED
    BY <2>2, <2>3, <2>4
<1>2. ASSUME NEW e \in macSeen, KeysUnique, macSeen' = macSeen \ {e}
      PROVE  Pairs' = Pairs \ {<<e.mac, e.dev>>}
  BY <1>2 DEF Pairs, KeysUnique
<1> QED
  BY <1>1, <1>2

\* What updateMACEvidence() does to the addresses an IP address is known of.
LEMMA HeardStep ==
    ASSUME TypeOK, NEW m \in MACs, NEW f \in Fields, NEW v \in EvidenceValue, v # None,
           f = "ip" \/ m \in Heard, evidence' = updateMACEvidence(m, f, v)
    PROVE  Heard' = Heard \cup {m}
<1>1. \A x \in MACs : evidence'[x]["ip"] = IF x = m /\ f = "ip" THEN v ELSE evidence[x]["ip"]
  BY DEF updateMACEvidence, TypeOK, Fields
<1> QED
  BY <1>1 DEF Heard

\* A step the contract does not see.
LEMMA Unseen ==
    ASSUME StageOf[npc]' = StageOf[npc], Known' = Known, UNCHANGED <<macSeen, evidence, events>>
    PROVE  UNCHANGED Contract!monitorVars
  BY DEF Contract!monitorVars, Pairs

\* The stages of the contract and the phases of the code.
LEMMA StageValues ==
    /\ StageOf["config"] = "idle" /\ StageOf["idle"] = "idle" /\ StageOf["stopped"] = "idle"
    /\ StageOf["read"] = "read" /\ StageOf["hosts"] = "read"
    /\ StageOf["remove"] = "remove" /\ StageOf["purge"] = "remove" /\ StageOf["add"] = "add"
    /\ StageOf["maintain"] = "late" /\ StageOf["expire"] = "late"
  BY DEF StageOf, Phases

\* updateMACEvidence() with a report, of a device that has the address or of none.
LEMMA EvidenceImplements ==
    ASSUME TypeOK, npc \in {"read", "hosts"}, npc' = npc, device' = device,
           Pairs' = Pairs,
           NEW d \in Devices \cup {None}, NEW m \in MACs, NEW f \in Fields,
           NEW v \in EvidenceValue, v # None,
           \/ d \in Known /\ <<m, d>> \in Pairs
           \/ d = None /\ \A x \in Devices : <<m, x>> \notin Pairs,
           (f = "ip" /\ d # None) \/ m \in Heard,
           evidence' = updateMACEvidence(m, f, v),
           events' = events \o EvidenceEvents(d, m, f, v)
    PROVE  Contract!MonitorNext \/ UNCHANGED Contract!monitorVars
<1>0. events \in Seq(EventRecord) /\ None \notin Devices /\ evidence[m][f] \in EvidenceValue
  BY NetworkAssumption DEF TypeOK
<1>1. CASE evidence[m][f] = v
  <2>1. events' = events
    BY <1>0, <1>1, ConcatEmptySeq DEF EvidenceEvents
  <2>2. evidence' = evidence
    BY <1>1 DEF updateMACEvidence, TypeOK
  <2> QED
    BY <2>1, <2>2 DEF Contract!monitorVars, Known
<1>2. CASE evidence[m][f] # v
  <2> DEFINE e == MACEvidence(d, m, f, v, evidence[m][f])
  <2>1. e \in EventRecord /\ Abstract(e) = Contract!Event("MACEvidenceChanged", d, m)
    BY <1>0, MACEventTypes, AbstractEvents
  <2> HIDE DEF e
  <2>2. events' = Append(events, e)
    <3>1. EvidenceEvents(d, m, f, v) = <<e>>
      BY <1>2 DEF EvidenceEvents, e
    <3> QED
      BY <1>0, <2>1, <3>1, Appended
  <2>3. Mapped(events') = Append(Mapped(events), Contract!Event("MACEvidenceChanged", d, m))
    BY <1>0, <2>1, <2>2, MappedAppend
  <2>4. Heard' = Heard \cup {m}
    BY HeardStep
  <2>5. StageOf[npc] = "read" /\ StageOf[npc'] = "read" /\ Known' = Known
    BY StageValues DEF Known
  <2>6. Contract!Evidence(m, d)
    BY <1>0, <2>3, <2>4, <2>5 DEF Contract!Evidence, Heard, Mapped
  <2> QED
    BY <2>6 DEF Contract!MonitorNext, Contract!Happening
<1> QED
  BY <1>1, <1>2

\* Two events in one step.
LEMMA MappedTwo ==
    ASSUME NEW s \in Seq(EventRecord), NEW x \in EventRecord, NEW y \in EventRecord
    PROVE  /\ (s \o <<x>>) \o <<y>> = s \o <<x, y>>
           /\ Mapped(s \o <<x, y>>) = Mapped(s) \o <<Abstract(x), Abstract(y)>>
<1>1. <<x>> \in Seq(EventRecord) /\ <<y>> \in Seq(EventRecord) /\ <<x, y>> \in Seq(EventRecord)
  OBVIOUS
<1>2. <<x>> \o <<y>> = <<x, y>>
  <2> DEFINE p == <<x>>
             q == <<y>>
             r == <<x, y>>
  <2>1. /\ p \in Seq(EventRecord) /\ q \in Seq(EventRecord) /\ r \in Seq(EventRecord)
        /\ Len(p) = 1 /\ Len(q) = 1 /\ Len(r) = 2
        /\ p[1] = x /\ q[1] = y /\ r[1] = x /\ r[2] = y
    OBVIOUS
  <2> HIDE DEF p, q, r
  <2>2. p \o q \in Seq(EventRecord)
    BY <2>1, ConcatProperties
  <2>3. Len(p \o q) = Len(p) + Len(q)
    BY <2>1, ConcatProperties
  <2>4. \A i \in 1..(Len(p) + Len(q)) : (p \o q)[i] = IF i <= Len(p) THEN p[i] ELSE q[i - Len(p)]
    BY <2>1, ConcatProperties
  <2>5. Len(p \o q) = 2 /\ (p \o q)[1] = x /\ (p \o q)[2] = y
    BY <2>1, <2>3, <2>4
  <2>6. \A i \in 1..Len(p \o q) : (p \o q)[i] = r[i]
    BY <2>1, <2>5
  <2>7. p \o q = r
    BY <2>1, <2>2, <2>5, <2>6, SeqEqual
  <2> QED
    BY <2>7 DEF p, q, r
<1>3. (s \o <<x>>) \o <<y>> = s \o <<x, y>>
  <2>1. (s \o <<x>>) \o <<y>> = s \o (<<x>> \o <<y>>)
    BY <1>1, ConcatAssociative
  <2> QED
    BY <1>2, <2>1
<1>4. Mapped(<<x, y>>) = <<Abstract(x), Abstract(y)>>
  BY DEF Mapped
<1>5. Mapped(s \o <<x, y>>) = Mapped(s) \o Mapped(<<x, y>>)
  BY <1>1, MappedJoin
<1> QED
  BY <1>3, <1>4, <1>5

\* A frame: the address is discovered with or without evidence, or there is new
\* evidence, or nothing the contract sees.
LEMMA FrameImplements ==
    ASSUME NetInv, npc = "read", npc' = npc, device' = device, NEW d \in Known,
           NEW m \in MACs, NEW ip \in IPs \cup {None}, HandleFrame(d, m, ip)
    PROVE  Contract!MonitorNext \/ UNCHANGED Contract!monitorVars
<1>0. TypeOK /\ d \in Devices /\ events \in Seq(EventRecord)
  BY DEF NetInv, TypeOK
<1>1. /\ StageOf[npc] = "read" /\ StageOf[npc'] = "read" /\ Known' = Known
      /\ StageOf[npc]' = StageOf[npc]
  BY StageValues DEF Known
<1>2. CASE ~macAllowed(m)
  BY <1>1, <1>2, Unseen DEF HandleFrame
<1>3. CASE macAllowed(m) /\ EntriesOf(m, d) # {}
  <2>1. events \o DiscoveryEvents(m, d) = events
    BY <1>0, <1>3, ConcatEmptySeq DEF DiscoveryEvents
  <2>2. Pairs' = Pairs \cup {<<m, d>>}
    BY <1>0, <1>3, PairsStep DEF HandleFrame
  <2>3. <<m, d>> \in Pairs
    BY <1>3 DEF Pairs, EntriesOf
  <2>4. Pairs' = Pairs
    BY <2>2, <2>3
  <2>5. CASE ~(ip # None /\ ipAllowed(ip))
    <3>1. evidence' = evidence /\ events' = events
      BY <1>3, <2>1, <2>5 DEF HandleFrame
    <3> QED
      BY <1>1, <2>4, <3>1 DEF Contract!monitorVars
  <2>6. CASE ip # None /\ ipAllowed(ip)
    <3>1. "ip" \in Fields /\ ip \in EvidenceValue
      BY <2>6 DEF Fields, EvidenceValue
    <3>2. evidence' = updateMACEvidence(m, "ip", ip)
          /\ events' = events \o EvidenceEvents(d, m, "ip", ip)
      BY <1>3, <2>1, <2>6 DEF HandleFrame
    <3> QED
      BY <1>0, <2>3, <2>4, <2>6, <3>1, <3>2, NetworkAssumption, EvidenceImplements
  <2> QED
    BY <2>5, <2>6
<1>4. CASE macAllowed(m) /\ EntriesOf(m, d) = {}
  <2> DEFINE x == MACEvent("MACAddressDiscovered", d, m)
             y == MACEvidence(d, m, "ip", ip, evidence[m]["ip"])
  <2>1. x \in EventRecord /\ Abstract(x) = Contract!Event("MACAddressDiscovered", d, m)
    BY <1>0, MACEventTypes, AbstractEvents
  <2>2. Pairs' = Pairs \cup {<<m, d>>}
    BY <1>0, <1>4, PairsStep DEF HandleFrame
  <2>3. <<m, d>> \notin Pairs
    <3>1. ~Holds(macSeen, m, d)
      BY <1>4 DEF EntriesOf, Holds
    <3> QED
      BY <1>0, <3>1, PairsHold
  <2>4. DiscoveryEvents(m, d) = <<x>>
    BY <1>4 DEF DiscoveryEvents
  <2> HIDE DEF x
  <2>5. ASSUME events' = events \o <<x>>, evidence' = evidence
        PROVE  Contract!MonitorNext
    <3>1. events' = Append(events, x)
      BY <1>0, <2>1, <2>5, Appended
    <3>2. Mapped(events') = Append(Mapped(events), Contract!Event("MACAddressDiscovered", d, m))
      BY <1>0, <2>1, <3>1, MappedAppend
    <3>3. Contract!Discover(m, d)
      BY <1>1, <2>2, <2>3, <2>5, <3>2 DEF Contract!Discover, Mapped
    <3> QED
      BY <1>0, <3>3 DEF Contract!MonitorNext, Contract!Happening
  <2>6. CASE ~(ip # None /\ ipAllowed(ip))
    BY <1>4, <2>4, <2>5, <2>6 DEF HandleFrame
  <2>7. CASE ip # None /\ ipAllowed(ip)
    <3>1. "ip" \in Fields /\ ip \in EvidenceValue
      BY <2>7 DEF Fields, EvidenceValue
    <3>2. evidence' = updateMACEvidence(m, "ip", ip)
          /\ events' = (events \o <<x>>) \o EvidenceEvents(d, m, "ip", ip)
      BY <1>4, <2>4, <2>7 DEF HandleFrame
    <3>3. CASE evidence[m]["ip"] = ip
      <4>1. events' = events \o <<x>>
        <5>1. EvidenceEvents(d, m, "ip", ip) = <<>>
          BY <3>3 DEF EvidenceEvents
        <5>2. events \o <<x>> \in Seq(EventRecord)
          BY <1>0, <2>1, Appended
        <5> QED
          BY <3>2, <5>1, <5>2, ConcatEmptySeq
      <4>2. evidence' = evidence
        BY <1>0, <3>2, <3>3 DEF updateMACEvidence, TypeOK
      <4> QED
        BY <2>5, <4>1, <4>2
    <3>4. CASE evidence[m]["ip"] # ip
      <4>1. y \in EventRecord /\ Abstract(y) = Contract!Event("MACEvidenceChanged", d, m)
        BY <1>0, <3>1, MACEventTypes, AbstractEvents DEF TypeOK
      <4>2. EvidenceEvents(d, m, "ip", ip) = <<y>>
        BY <3>4 DEF EvidenceEvents
      <4> HIDE DEF y
      <4>3. Mapped(events') = Mapped(events) \o
                <<Contract!Event("MACAddressDiscovered", d, m),
                  Contract!Event("MACEvidenceChanged", d, m)>>
        <5>1. events' = events \o <<x, y>>
          BY <1>0, <2>1, <3>2, <4>1, <4>2, MappedTwo
        <5> QED
          BY <1>0, <2>1, <4>1, <5>1, MappedTwo
      <4>4. Heard' = Heard \cup {m}
        BY <1>0, <2>7, <3>1, <3>2, HeardStep
      <4>5. Contract!Discover(m, d)
        BY <1>1, <2>2, <2>3, <4>3, <4>4 DEF Contract!Discover, Contract!Append2, Heard, Mapped
      <4> QED
        BY <1>0, <4>5 DEF Contract!MonitorNext, Contract!Happening
    <3> QED
      BY <3>3, <3>4
  <2> QED
    BY <2>6, <2>7
<1> QED
  BY <1>2, <1>3, <1>4

\* Removals: of a device, then of each of its addresses; and old addresses.
LEMMA RemovalImplements ==
    ASSUME NetInv,
           \/ \E d \in Devices : RemoveDevice(d)
           \/ \E e \in macSeen : RemoveMAC(e) \/ ExpireMAC(e)
    PROVE  Contract!MonitorNext
<1> USE DEF kernel, config, control, tables
<1>0. TypeOK /\ LoopsCoverDevices /\ EntriesOnKnownDevices /\ KeysUnique
      /\ events \in Seq(EventRecord)
  BY DEF NetInv, TableInv, TypeOK
<1>1. CASE \E d \in Devices : RemoveDevice(d)
  <2>1. PICK d \in Devices : RemoveDevice(d)
    BY <1>1
  <2> DEFINE x == DeviceEvent("DeviceRemoved", d)
  <2>2. x \in EventRecord /\ Abstract(x) = Contract!Event("DeviceRemoved", d, None)
    BY DeviceEventTypes, AbstractEvents
  <2>3. /\ events' = Append(events, x) /\ npc = "remove" /\ npc' = "purge"
        /\ Known' = Known \ {d} /\ d \in todo /\ UNCHANGED <<macSeen, evidence>>
    BY <2>1 DEF RemoveDevice, Known
  <2> HIDE DEF x
  <2>4. Mapped(events') = Append(Mapped(events), Contract!Event("DeviceRemoved", d, None))
    BY <1>0, <2>2, <2>3, MappedAppend
  <2>5. d \in Known
    BY <1>0, <2>3 DEF LoopsCoverDevices
  <2>6. \A p \in Pairs : p[2] \in Known
    BY <1>0, <2>3 DEF Pairs, EntriesOnKnownDevices
  <2>7. StageOf[npc] = "remove" /\ StageOf[npc'] = "remove" /\ Pairs' = Pairs
    BY <2>3, StageValues DEF Pairs
  <2>8. Contract!Remove(d)
    BY <2>3, <2>4, <2>5, <2>6, <2>7 DEF Contract!Remove, Mapped
  <2> QED
    BY <2>8 DEF Contract!MonitorNext, Contract!Happening
<1>2. CASE \E e \in macSeen : RemoveMAC(e) \/ ExpireMAC(e)
  <2>1. PICK e \in macSeen : RemoveMAC(e) \/ ExpireMAC(e)
    BY <1>2
  <2>2. e.mac \in MACs /\ e.dev \in Devices /\ <<e.mac, e.dev>> \in Pairs
    BY <1>0 DEF TypeOK, Entry, Pairs
  <2> DEFINE x == MACEvent("MACAddressDisappeared", e.dev, e.mac)
  <2>3. x \in EventRecord /\ Abstract(x) = Contract!Event("MACAddressDisappeared", e.dev, e.mac)
    BY <2>2, MACEventTypes, AbstractEvents
  <2>4. /\ events' = Append(events, x) /\ macSeen' = macSeen \ {e} /\ evidence' = evidence
        /\ npc' = npc /\ Known' = Known
    BY <2>1 DEF RemoveMAC, ExpireMAC, Known
  <2> HIDE DEF x
  <2>5. Mapped(events')
            = Append(Mapped(events), Contract!Event("MACAddressDisappeared", e.dev, e.mac))
    BY <1>0, <2>3, <2>4, MappedAppend
  <2>6. Pairs' = Pairs \ {<<e.mac, e.dev>>}
    BY <1>0, <2>4, PairsStep
  <2>7. CASE RemoveMAC(e)
    <3>1. npc = "purge" /\ e.dev \notin Known
      BY <1>0, <2>7 DEF RemoveMAC, LoopsCoverDevices
    <3>2. StageOf[npc] = "remove" /\ StageOf[npc'] = "remove"
      BY <2>4, <3>1, StageValues
    <3>3. Contract!Purge(e.mac, e.dev)
      BY <2>2, <2>4, <2>5, <2>6, <3>1, <3>2 DEF Contract!Purge, Mapped
    <3> QED
      BY <2>2, <3>3 DEF Contract!MonitorNext, Contract!Progress
  <2>8. CASE ExpireMAC(e)
    <3>1. npc = "expire"
      BY <2>8 DEF ExpireMAC
    <3>2. StageOf[npc] = "late" /\ StageOf[npc'] = "late"
      BY <2>4, <3>1, StageValues
    <3>3. Contract!Expire(e.mac, e.dev)
      BY <2>2, <2>4, <2>5, <2>6, <3>2 DEF Contract!Expire, Mapped
    <3> QED
      BY <2>2, <3>3 DEF Contract!MonitorNext, Contract!Happening
  <2> QED
    BY <2>1, <2>7, <2>8
<1> QED
  BY <1>1, <1>2

\* Additions and changes of status.
LEMMA DeviceImplements ==
    ASSUME NetInv, \E d \in Devices : AddDevice(d) \/ MaintainDevice(d)
    PROVE  Contract!MonitorNext \/ UNCHANGED Contract!monitorVars
<1> USE DEF kernel, config
<1>0. TypeOK /\ LoopsCoverDevices /\ events \in Seq(EventRecord)
  BY DEF NetInv, TypeOK
<1>1. CASE \E d \in Devices : AddDevice(d)
  <2>1. PICK d \in Devices : AddDevice(d)
    BY <1>1
  <2>2. /\ npc = "add" /\ npc' = npc /\ UNCHANGED <<macSeen, evidence>>
        /\ StageOf[npc] = "add" /\ StageOf[npc'] = "add"
    BY <2>1, StageValues DEF AddDevice
  <2>3. CASE deviceAllowed(d) /\ d \notin Known /\ d \in sysNames
    <3> DEFINE x == DeviceEvent("DeviceAdded", d)
               y == DeviceEvidence(d, "mac", NewDevice(d).mac, None)
    <3>1. NewDevice(d).mac \in MACs
      BY NetworkAssumption DEF NewDevice, OwnMAC
    <3>2. /\ x \in EventRecord /\ Abstract(x) = Contract!Event("DeviceAdded", d, None)
          /\ y \in EventRecord /\ Abstract(y) = Contract!Event("DeviceStatus", d, None)
      BY <3>1, DeviceEventTypes, AbstractEvents
    <3>3. events' = events \o <<x, y>> /\ Known' = Known \cup {d}
      BY <2>1, <2>3 DEF AddDevice, Known
    <3> HIDE DEF x, y
    <3>4. Mapped(events') = Mapped(events) \o <<Contract!Event("DeviceAdded", d, None),
                                                Contract!Event("DeviceStatus", d, None)>>
      BY <1>0, <3>2, <3>3, MappedTwo
    <3>5. Contract!Add(d)
      BY <2>2, <2>3, <3>3, <3>4 DEF Contract!Add, Contract!Append2, Mapped, Pairs
    <3> QED
      BY <3>5 DEF Contract!MonitorNext, Contract!Happening
  <2>4. CASE ~(deviceAllowed(d) /\ d \notin Known /\ d \in sysNames)
    <3>1. events' = events /\ Known' = Known
      BY <2>1, <2>4 DEF AddDevice, Known
    <3> QED
      BY <2>2, <3>1, Unseen
  <2> QED
    BY <2>3, <2>4
<1>2. CASE \E d \in Devices : MaintainDevice(d)
  <2>1. PICK d \in Devices, s \in Statuses :
            /\ d \in todo /\ npc = "maintain" /\ npc' = npc
            /\ events' = events \o StatusEvents(d, s)
            /\ device' = [device EXCEPT ![d] = SetStatus(device[d], s)]
            /\ UNCHANGED <<macSeen, evidence>>
    BY <1>2 DEF MaintainDevice
  <2>2. d \in Known /\ Known' = Known
    BY <1>0, <2>1 DEF LoopsCoverDevices, Known
  <2>3. StatusEvents(d, s) \in Seq(EventRecord)
    BY <1>0, <2>2, StatusEventTypes
  <2>4. Mapped(events') = Mapped(events) \o Mapped(StatusEvents(d, s))
    BY <1>0, <2>1, <2>3, MappedJoin
  <2>5. Mapped(StatusEvents(d, s)) \in Contract!StatusReports(d)
    BY <1>0, <2>2, MappedStatus
  <2>6. StageOf[npc] = "late" /\ StageOf[npc'] = "late"
    BY <2>1, StageValues
  <2>7. Contract!Status(d)
    BY <2>1, <2>2, <2>4, <2>5, <2>6 DEF Contract!Status, Mapped, Pairs
  <2> QED
    BY <2>7 DEF Contract!MonitorNext, Contract!Happening
<1> QED
  BY <1>1, <1>2

\* The steps from one part of a cycle to the next.
LEMMA AdvanceImplements ==
    ASSUME NetInv,
           \/ Begin \/ BeginHostnames \/ Scan \/ EndRemoveDevice \/ BeginAdd \/ BeginMaintain
           \/ BeginExpire \/ Finish \/ Configure \/ Environment \/ Stopped
    PROVE  Contract!MonitorNext \/ UNCHANGED Contract!monitorVars
<1> USE DEF kernel, config, control, tables, netVars
<1>0. TypeOK /\ EntriesOnKnownDevices
  BY DEF NetInv, TableInv
<1>1. ASSUME <<npc, npc'>> \in {<<"read", "hosts">>, <<"config", "idle">>, <<"purge", "remove">>,
                                <<"maintain", "expire">>}
                 \/ npc' = npc,
             Known' = Known, UNCHANGED <<macSeen, evidence, events>>
      PROVE  UNCHANGED Contract!monitorVars
  <2>1. StageOf[npc'] = StageOf[npc]
    BY <1>1, StageValues
  <2> QED
    BY <1>1, <2>1, Unseen
<1>2. CASE Environment \/ Configure \/ Stopped
  BY <1>1, <1>2 DEF Environment, Tick, LinkUp, LinkDown, Unplug, Shutdown, Configure,
     SetDeviceWhiteBlacklistMode, AddDeviceWhiteBlacklistEntry, EndConfig, Stopped, Known
<1>3. CASE BeginHostnames \/ EndRemoveDevice \/ BeginExpire
  BY <1>1, <1>3 DEF BeginHostnames, EndRemoveDevice, BeginExpire, Known
<1>4. CASE Begin
  <2>1. /\ StageOf[npc] = "idle" /\ StageOf[npc'] = "read" /\ events' = <<>>
        /\ UNCHANGED <<device, macSeen, evidence>>
    BY <1>4, StageValues DEF Begin
  <2>2. Mapped(events') = <<>>
    BY <2>1 DEF Mapped
  <2>3. Contract!Start
    BY <2>1, <2>2 DEF Contract!Start, Mapped, Known, Pairs
  <2> QED
    BY <2>3 DEF Contract!MonitorNext
<1>5. CASE Scan \/ BeginAdd \/ BeginMaintain
  <2>1. UNCHANGED <<device, macSeen, evidence, events>>
    BY <1>5 DEF Scan, BeginAdd, BeginMaintain
  <2>2. CASE Scan
    <3>1. StageOf[npc] = "read" /\ StageOf[npc'] = "remove"
      BY <2>2, StageValues DEF Scan
    <3>2. Contract!Advance("remove")
      BY <2>1, <3>1 DEF Contract!Advance, Known, Pairs
    <3> QED
      BY <3>2 DEF Contract!MonitorNext, Contract!Progress, Contract!Stages
  <2>3. CASE BeginAdd
    <3>1. StageOf[npc] = "remove" /\ StageOf[npc'] = "add"
      BY <2>3, StageValues DEF BeginAdd
    <3>2. \A p \in Pairs : p[2] \in Known
      BY <1>0, <2>3 DEF Pairs, EntriesOnKnownDevices, BeginAdd
    <3>3. Contract!Advance("add")
      BY <2>1, <3>1, <3>2 DEF Contract!Advance, Known, Pairs
    <3> QED
      BY <3>3 DEF Contract!MonitorNext, Contract!Progress, Contract!Stages
  <2>4. CASE BeginMaintain
    <3>1. StageOf[npc] = "add" /\ StageOf[npc'] = "late"
      BY <2>4, StageValues DEF BeginMaintain
    <3>2. Contract!Advance("late")
      BY <2>1, <3>1 DEF Contract!Advance, Known, Pairs
    <3> QED
      BY <3>2 DEF Contract!MonitorNext, Contract!Progress, Contract!Stages
  <2> QED
    BY <1>5, <2>2, <2>3, <2>4
<1>6. CASE Finish
  <2>1. /\ StageOf[npc] = "late" /\ StageOf[npc'] = "idle" /\ Known' = Known
        /\ UNCHANGED <<macSeen, evidence, events>>
    BY <1>6, StageValues DEF Finish, Known
  <2>2. Contract!End
    BY <2>1 DEF Contract!End, Pairs
  <2> QED
    BY <2>2 DEF Contract!MonitorNext, Contract!Progress
<1> QED
  BY <1>2, <1>3, <1>4, <1>5, <1>6

\* A name found by checkHostnames(): on the device of the first entry, or on none.
LEMMA HostnameImplements ==
    ASSUME NetInv, PendingInv, NEW m \in MACs, CheckHostname(m)
    PROVE  Contract!MonitorNext \/ UNCHANGED Contract!monitorVars
<1> USE DEF kernel, config
<1>0. TypeOK /\ EntriesOnKnownDevices /\ NamesUnknown
  BY DEF NetInv, TableInv, PendingInv
<1>1. npc = "hosts" /\ npc' = npc /\ UNCHANGED <<device, macSeen>> /\ m \in unresolved
  BY DEF CheckHostname
<1>2. CASE UNCHANGED <<evidence, events>>
  BY <1>1, <1>2, Unseen DEF Known
<1>3. ASSUME NEW name \in Hostnames, NEW d \in Devices \cup {None}, IsDeviceForMAC(d, m),
             evidence' = updateMACEvidence(m, "hostname", name),
             events' = events \o EvidenceEvents(d, m, "hostname", name)
      PROVE  Contract!MonitorNext \/ UNCHANGED Contract!monitorVars
  <2>1. "hostname" \in Fields /\ name \in EvidenceValue /\ name # None
    BY NetworkAssumption DEF Fields, EvidenceValue
  <2>2. m \in Heard
    BY <1>0, <1>1 DEF NamesUnknown, Heard
  <2>3. \/ d \in Known /\ <<m, d>> \in Pairs
        \/ d = None /\ \A x \in Devices : <<m, x>> \notin Pairs
    <3>1. CASE {e \in macSeen : e.mac = m} = {} /\ d = None
      <4>1. \A x : ~Holds(macSeen, m, x)
        BY <3>1 DEF Holds
      <4> QED
        BY <1>0, <3>1, <4>1, PairsHold
    <3>2. CASE \E e \in macSeen : e.mac = m /\ d = e.dev
      BY <1>0, <1>1, <3>2 DEF Pairs, EntriesOnKnownDevices
    <3> QED
      BY <1>3, <3>1, <3>2 DEF IsDeviceForMAC
  <2>4. Pairs' = Pairs
    BY <1>1 DEF Pairs
  <2> QED
    BY <1>0, <1>1, <1>3, <2>1, <2>2, <2>3, <2>4, EvidenceImplements
<1> QED
  BY <1>2, <1>3 DEF CheckHostname

-----------------------------------------------------------------------------
(* The theorem.                                                            *)

\* Every step of Network is a step of the contract or one it does not see.
LEMMA StepImplements ==
    ASSUME NetInv, PendingInv, [Next]_netVars
    PROVE  [Contract!MonitorNext]_Contract!monitorVars
<1>1. CASE \E d \in Devices : ReadDevice(d)
  <2>1. PICK d \in Devices : ReadDevice(d)
    BY <1>1
  <2>2. npc = "read" /\ npc' = npc /\ device' = device /\ d \in Known
    BY <2>1 DEF ReadDevice, NetInv, LoopsCoverDevices
  <2>3. ZeroMAC \in MACs /\ None \in IPs \cup {None}
    BY NetworkAssumption
  <2>4. CASE ReadNothing
    BY <2>2, <2>4, Unseen DEF ReadNothing, Known
  <2>5. CASE ReadError(d) \/ ReadFrame(d)
    BY <2>2, <2>3, <2>5, FrameImplements DEF ReadError, ReadFrame
  <2> QED
    BY <2>1, <2>4, <2>5 DEF ReadDevice
<1>2. CASE \E m \in MACs : CheckHostname(m)
  BY <1>2, HostnameImplements
<1>3. CASE \/ \E d \in Devices : RemoveDevice(d)
           \/ \E e \in macSeen : RemoveMAC(e) \/ ExpireMAC(e)
  BY <1>3, RemovalImplements
<1>4. CASE \E d \in Devices : AddDevice(d) \/ MaintainDevice(d)
  BY <1>4, DeviceImplements
<1>5. CASE \/ Begin \/ BeginHostnames \/ Scan \/ EndRemoveDevice \/ BeginAdd \/ BeginMaintain
           \/ BeginExpire \/ Finish \/ Configure \/ Environment \/ Stopped
  BY <1>5, AdvanceImplements
<1>6. CASE UNCHANGED netVars
  BY <1>6, Unseen DEF netVars, Known
<1> QED
  BY <1>1, <1>2, <1>3, <1>4, <1>5, <1>6 DEF Next, Cycle

\* Network::cycle(), with its clock, links, frames, resolver and signals, does
\* nothing that the contract the daemon is verified against does not allow.
THEOREM NetworkImplementsMonitor == Spec => ImplementsMonitor
<1>1. Init => Contract!MonitorInit
  BY StageValues DEF Init, Contract!MonitorInit, Known, Pairs, Fields
<1>2. NetInv /\ PendingInv /\ [Next]_netVars => [Contract!MonitorNext]_Contract!monitorVars
  BY StepImplements
<1> QED
  BY <1>1, <1>2, NetworkInvariant, NetworkPending, PTL
     DEF Spec, ImplementsMonitor, Contract!MonitorSpec
=============================================================================
