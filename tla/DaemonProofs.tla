--------------------------- MODULE DaemonProofs ---------------------------
(***************************************************************************)
(* Proofs about Daemon, for every set of devices, addresses, connections   *)
(* and requests and for cycles of any length.                              *)
(***************************************************************************)
EXTENDS Daemon, SequenceTheorems, TLAPS

(* The inductive invariant.                                                *)

\* An event about a device or about the presence of an address names it.
Reported == {e \in EventRecord :
    /\ e.type \in {"DeviceAdded", "DeviceRemoved"} => e.dev \in Devices
    /\ e.type \in {"MACAddressDiscovered", "MACAddressDisappeared"} =>
          e.dev \in Devices /\ e.mac \in MACs}

ReportTyped == report \in Seq(Reported)

\* A connection that waits to be accepted has not been sent anything.
BacklogUnsent == \A c \in backlog : sock[c] \in {"open", "closed", "reset"}

\* Where each list of Server may hold something.
ListsInPlace ==
    /\ spc # "out" => dpc = "server"
    /\ spc # "receive" => failing = {} /\ unread = {}
    /\ removed # {} => dpc = "drop"
    /\ dpc = "dispatch" => cursor > 0
    /\ dpc \in {"network", "dispatch"} => queue = <<>>
    /\ dpc = "server" /\ spc # "receive" => queue = <<>>
    /\ unread \cap failing = {}

\* A connection gives one value, or fails, in one pass of the receiving loop.
QueuedPassed == \A i \in 1..Len(queue) : queue[i].conn \notin failing \cup unread

\* A connection that nobody has answered knows nothing.
UnansweredKnowNothing ==
    \A c \in Conns : sock[c] = "free" \/ c \in backlog => client[c] = NewClient

ConnInv == /\ TypeOK /\ ReportTyped /\ BacklogUnsent /\ ListsInPlace /\ QueuedPassed
           /\ ConnectionsAccountedFor /\ StreamsOfServed /\ QueuedFromServed
           /\ NoDuplicateStreams /\ UnansweredKnowNothing

\* What an event of a report is about.
OfDevice(e, d) == e.type \in {"DeviceAdded", "DeviceRemoved"} /\ e.dev = d

OfPresence(e, m, d) ==
    e.type \in {"MACAddressDiscovered", "MACAddressDisappeared"} /\ e.mac = m /\ e.dev = d

-----------------------------------------------------------------------------
(* The pieces.                                                             *)

\* A sequence that grew by one element.
LEMMA Appended ==
    ASSUME NEW S, NEW s \in Seq(S), NEW e \in S
    PROVE  /\ Append(s, e) \in Seq(S) /\ Len(s) \in Nat
           /\ Len(Append(s, e)) = Len(s) + 1
           /\ \A i \in 1..Len(s) : Append(s, e)[i] = s[i]
           /\ Append(s, e)[Len(s) + 1] = e
  BY AppendProperties, LenProperties

\* A sequence without its first element.
LEMMA Shortened ==
    ASSUME NEW S, NEW s \in Seq(S), s # <<>>
    PROVE  /\ Tail(s) \in Seq(S) /\ Len(s) \in Nat /\ Len(Tail(s)) = Len(s) - 1
           /\ \A i \in 1..Len(Tail(s)) : Tail(s)[i] = s[i + 1]
           /\ Head(s) = s[1] /\ Head(s) \in S /\ 1 \in 1..Len(s)
  BY HeadTailProperties, EmptySeq, LenProperties

\* PacketEntity::send() opens no socket and leaves a dropped one alone; it can end the
\* process.
LEMMA Sent ==
    ASSUME ServerTypes, NEW sends \in [Conns -> Nat], NEW next, Send(sends, next)
    PROVE  /\ dpc' \in {next, "killed"}
           /\ sock' \in [Conns -> Live \cup {"free", "gone"}]
           /\ \A c \in Conns :
                /\ sock'[c] = "open" => sock[c] = "open"
                /\ sock'[c] = "free" <=> sock[c] = "free"
                /\ sock'[c] \in Live <=> sock[c] \in Live
                /\ sends[c] = 0 => sock'[c] = sock[c]
<1>1. PICK after \in [Conns -> {"free", "open", "cut", "closed", "reset", "broken", "gone",
                             "killed"}] :
          /\ \A c \in Conns : after[c] \in AfterSends(sock[c], sends[c])
          /\ IF \E c \in Conns : after[c] = "killed"
             THEN dpc' = "killed" /\ UNCHANGED sock
             ELSE dpc' = next /\ sock' = after
  BY DEF Send
<1>2. CASE \E c \in Conns : after[c] = "killed"
  BY <1>1, <1>2 DEF ServerTypes
<1>3. CASE ~\E c \in Conns : after[c] = "killed"
  <2>1. sock' = after /\ dpc' = next
    BY <1>1, <1>3
  <2>2. ASSUME NEW c \in Conns
        PROVE  /\ after[c] \in Live \cup {"free", "gone"}
               /\ after[c] = "open" => sock[c] = "open"
               /\ after[c] = "free" <=> sock[c] = "free"
               /\ after[c] \in Live <=> sock[c] \in Live
               /\ sends[c] = 0 => after[c] = sock[c]
    <3>1. after[c] \in AfterSends(sock[c], sends[c]) /\ after[c] # "killed"
      BY <1>1, <1>3
    <3>2. sock[c] \in Live \cup {"free", "gone"} /\ sends[c] \in Nat
      BY DEF ServerTypes
    <3> QED
      BY <3>1, <3>2 DEF AfterSends, Live, Established
  <2> QED
    BY <2>1, <2>2
<1> QED
  BY <1>2, <1>3

\* A report, seen as one of events that name what they are about, has its type.
LEMMA ReportIsTyped == ReportTyped => report \in Seq(EventRecord)
<1> SUFFICES ASSUME report \in Seq(Reported) PROVE report \in Seq(EventRecord)
  BY DEF ReportTyped
<1>1. Reported \subseteq EventRecord
  BY DEF Reported
<1> QED
  BY <1>1, SeqMonotonic

-----------------------------------------------------------------------------
(* A step of the monitor.                                                  *)

\* The events of a step say, once for each, what it changed.
Accounted ==
    /\ report' \in Seq(Reported) /\ Len(report) \in Nat /\ Len(report') \in Nat
    /\ Len(report) <= Len(report')
    /\ \A i \in 1..Len(report) : report'[i] = report[i]
    /\ \A i \in 1..Len(report') : i > Len(report) =>
          /\ \A d \in Devices : OfDevice(report'[i], d) =>
                (report'[i].type = "DeviceAdded" <=> d \in known')
          /\ \A m \in MACs, d \in Devices : OfPresence(report'[i], m, d) =>
                (report'[i].type = "MACAddressDiscovered" <=> <<m, d>> \in present')
    /\ \A d \in Devices : ~(d \in known' <=> d \in known) =>
          \E i \in 1..Len(report') : i > Len(report) /\ OfDevice(report'[i], d)
    /\ \A m \in MACs, d \in Devices : ~(<<m, d>> \in present' <=> <<m, d>> \in present) =>
          \E i \in 1..Len(report') : i > Len(report) /\ OfPresence(report'[i], m, d)

\* One event, and two, appended.
LEMMA OneEvent ==
    ASSUME ReportTyped, NEW e \in Reported, report' = Append(report, e)
    PROVE  /\ report' \in Seq(Reported) /\ Len(report) \in Nat /\ Len(report') = Len(report) + 1
           /\ \A i \in 1..Len(report) : report'[i] = report[i]
           /\ report'[Len(report) + 1] = e
  BY Appended DEF ReportTyped

\* A sequence built of two events has the places one expects.
LEMMA TwoEvents ==
    ASSUME ReportTyped, NEW e \in Reported, NEW f \in Reported, report' = Append2(report, e, f)
    PROVE  /\ report' \in Seq(Reported) /\ Len(report) \in Nat /\ Len(report') = Len(report) + 2
           /\ \A i \in 1..Len(report) : report'[i] = report[i]
           /\ report'[Len(report) + 1] = e /\ report'[Len(report) + 2] = f
<1> DEFINE t == <<e, f>>
<1>1. t \in Seq(Reported) /\ Len(t) = 2 /\ t[1] = e /\ t[2] = f
  OBVIOUS
<1>2. report' = report \o t
  BY DEF Append2
<1> HIDE DEF t
<1>3. report \in Seq(Reported)
  BY DEF ReportTyped
<1>4. report \o t \in Seq(Reported)
  BY <1>1, <1>3, ConcatProperties
<1>5. Len(report \o t) = Len(report) + Len(t)
  BY <1>1, <1>3, ConcatProperties
<1>6. \A i \in 1 .. Len(report) + Len(t) :
          (report \o t)[i] = IF i <= Len(report) THEN report[i] ELSE t[i - Len(report)]
  BY <1>1, <1>3, ConcatProperties
<1>7. Len(report) \in Nat
  BY <1>3, LenProperties
<1> QED
  BY <1>1, <1>2, <1>4, <1>5, <1>6, <1>7

\* The events that a status report consists of.
LEMMA StatusEvents ==
    ASSUME ReportTyped, NEW d \in Devices, NEW r \in StatusReports(d), report' = report \o r
    PROVE  /\ report' \in Seq(Reported) /\ Len(report) \in Nat /\ Len(report') \in Nat
           /\ Len(report) <= Len(report')
           /\ \A i \in 1..Len(report) : report'[i] = report[i]
           /\ \A i \in 1..Len(report') : i > Len(report) => report'[i].type = "DeviceStatus"
<1> DEFINE S == Event("DeviceStatus", d, None)
<1>1. S \in Reported /\ S.type = "DeviceStatus"
  BY DEF Event, Reported, EventRecord
<1>2. r \in {<<>>, <<S>>, <<S, S>>, <<S, S, S>>, <<S, S, S, S>>}
  BY DEF StatusReports
<1> HIDE DEF S
<1>3. ASSUME NEW X, S \in X PROVE r \in Seq(X)
  <2>1. <<>> \in Seq(X) /\ <<S>> \in Seq(X) /\ <<S, S>> \in Seq(X)
    BY <1>3
  <2>2. <<S, S, S>> \in Seq(X)
    BY <1>3
  <2>3. <<S, S, S, S>> \in Seq(X)
    BY <1>3
  <2> QED
    BY <1>2, <2>1, <2>2, <2>3
<1>4. r \in Seq(Reported) /\ r \in Seq({S})
  BY <1>1, <1>3
<1>5. \A i \in 1..Len(r) : r[i].type = "DeviceStatus"
  BY <1>1, <1>4, ElementOfSeq
<1>6. report \in Seq(Reported) /\ Len(report) \in Nat /\ Len(r) \in Nat
  BY <1>4, LenProperties DEF ReportTyped
<1>7. report \o r \in Seq(Reported)
  BY <1>4, <1>6, ConcatProperties
<1>8. Len(report \o r) = Len(report) + Len(r)
  BY <1>4, <1>6, ConcatProperties
<1>9. \A i \in 1 .. Len(report) + Len(r) :
          (report \o r)[i] = IF i <= Len(report) THEN report[i] ELSE r[i - Len(report)]
  BY <1>4, <1>6, ConcatProperties
<1> QED
  BY <1>5, <1>6, <1>7, <1>8, <1>9

\* Every step but the start of a cycle accounts for what it does, and only one in
\* the middle of a cycle does anything.
LEMMA MonitorSteps ==
    ASSUME MonitorTypes, ReportTyped, Start \/ Happening \/ Progress
    PROVE  /\ MonitorTypes' /\ ReportTyped'
           /\ \/ Start
              \/ stage # "idle" /\ Accounted
<1> USE DEF MonitorTypes, ReportTyped, Stages
<1>0. report' \in Seq(Reported) => report' \in Seq(EventRecord)
  <2>1. \A e \in Reported : e \in EventRecord
    BY DEF Reported
  <2> QED
    BY <2>1, SeqMonotonic
<1>1. CASE Start
  <2>1. report' \in Seq(Reported)
    BY <1>1, EmptySeq DEF Start
  <2> QED
    BY <1>0, <1>1, <2>1 DEF Start
<1>2. ASSUME NEW m \in MACs, NEW d \in Devices, Discover(m, d) \/ Purge(m, d) \/ Expire(m, d)
      PROVE  MonitorTypes' /\ ReportTyped' /\ stage # "idle" /\ Accounted
  <2>1. /\ stage' = stage /\ stage \in Stages \ {"idle"} /\ known' = known
        /\ present' = present \cup {<<m, d>>} \/ present' = present \ {<<m, d>>}
        /\ heard' = heard \/ heard' = heard \cup {m}
    BY <1>2 DEF Discover, Purge, Expire
  <2>2. \E t \in {"MACAddressDiscovered", "MACAddressDisappeared"} :
          LET e == Event(t, d, m)
              f == Event("MACEvidenceChanged", d, m)
          IN  /\ report' = Append(report, e) \/ report' = Append2(report, e, f)
              /\ t = "MACAddressDiscovered" => present' = present \cup {<<m, d>>}
              /\ t = "MACAddressDisappeared" => present' = present \ {<<m, d>>}
    BY <1>2 DEF Discover, Purge, Expire
  <2>3. PICK t \in {"MACAddressDiscovered", "MACAddressDisappeared"} :
          /\ \/ report' = Append(report, Event(t, d, m))
             \/ report' = Append2(report, Event(t, d, m), Event("MACEvidenceChanged", d, m))
          /\ t = "MACAddressDiscovered" => present' = present \cup {<<m, d>>}
          /\ t = "MACAddressDisappeared" => present' = present \ {<<m, d>>}
    BY <2>2
  <2> DEFINE e == Event(t, d, m)
             f == Event("MACEvidenceChanged", d, m)
  <2>4. /\ e \in Reported /\ e.type = t /\ e.dev = d /\ e.mac = m
        /\ f \in Reported /\ f.type = "MACEvidenceChanged"
    BY DEF Event, Reported, EventRecord, MACEventTypes
  <2>5. report' = Append(report, e) \/ report' = Append2(report, e, f)
    BY <2>3
  <2> HIDE DEF e, f
  <2>6. /\ report' \in Seq(Reported) /\ Len(report) \in Nat
        /\ Len(report') = Len(report) + 1 \/ Len(report') = Len(report) + 2
        /\ \A i \in 1..Len(report) : report'[i] = report[i]
        /\ report'[Len(report) + 1] = e
        /\ Len(report') = Len(report) + 2 => report'[Len(report) + 2] = f
    <3>1. CASE report' = Append(report, e)
      BY <2>4, <3>1, OneEvent
    <3>2. CASE report' = Append2(report, e, f)
      BY <2>4, <3>2, TwoEvents
    <3> QED
      BY <2>5, <3>1, <3>2
  <2>7. \A i \in 1..Len(report') : i > Len(report) =>
          report'[i] = e \/ report'[i].type = "MACEvidenceChanged"
    BY <2>4, <2>6
  <2>8. ASSUME NEW i \in 1..Len(report'), i > Len(report)
        PROVE  /\ \A x \in Devices : ~OfDevice(report'[i], x)
               /\ \A n \in MACs, x \in Devices : OfPresence(report'[i], n, x) =>
                    /\ report'[i] = e /\ n = m /\ x = d
    BY <2>4, <2>7, <2>8 DEF OfDevice, OfPresence
  <2>9. ASSUME NEW n \in MACs, NEW x \in Devices,
               ~(<<n, x>> \in present' <=> <<n, x>> \in present)
        PROVE  \E i \in 1..Len(report') : i > Len(report) /\ OfPresence(report'[i], n, x)
    <3>1. n = m /\ x = d
      BY <2>1, <2>9
    <3>2. Len(report) + 1 \in 1..Len(report') /\ OfPresence(report'[Len(report) + 1], m, d)
      BY <2>3, <2>4, <2>6 DEF OfPresence
    <3> QED
      BY <2>6, <3>1, <3>2
  <2>10. e.type = "MACAddressDiscovered" <=> <<m, d>> \in present'
    BY <2>3, <2>4
  <2> QED
    BY <1>0, <2>1, <2>6, <2>8, <2>9, <2>10 DEF Accounted
<1>3. ASSUME NEW m \in MACs, NEW d \in Devices \cup {None}, Evidence(m, d)
      PROVE  MonitorTypes' /\ ReportTyped' /\ stage # "idle" /\ Accounted
  <2> DEFINE e == Event("MACEvidenceChanged", d, m)
  <2>1. e \in Reported /\ e.type = "MACEvidenceChanged"
    BY DEF Event, Reported, EventRecord, MACEventTypes
  <2>2. /\ report' = Append(report, e) /\ stage' = stage /\ stage = "read"
        /\ known' = known /\ present' = present /\ heard' = heard \cup {m}
    BY <1>3 DEF Evidence
  <2> HIDE DEF e
  <2>3. /\ report' \in Seq(Reported) /\ Len(report) \in Nat /\ Len(report') = Len(report) + 1
        /\ \A i \in 1..Len(report) : report'[i] = report[i]
        /\ report'[Len(report) + 1] = e
    BY <2>1, <2>2, OneEvent
  <2> QED
    BY <1>0, <2>1, <2>2, <2>3 DEF Accounted, OfDevice, OfPresence
<1>4. ASSUME NEW d \in Devices, Remove(d) \/ Add(d)
      PROVE  MonitorTypes' /\ ReportTyped' /\ stage # "idle" /\ Accounted
  <2>1. PICK t \in {"DeviceAdded", "DeviceRemoved"} :
          /\ \/ report' = Append(report, Event(t, d, None))
             \/ report' = Append2(report, Event(t, d, None), Event("DeviceStatus", d, None))
          /\ t = "DeviceAdded" => known' = known \cup {d}
          /\ t = "DeviceRemoved" => known' = known \ {d}
          /\ stage' = stage /\ stage \in Stages \ {"idle"} /\ present' = present /\ heard' = heard
    BY <1>4 DEF Remove, Add
  <2> DEFINE e == Event(t, d, None)
             f == Event("DeviceStatus", d, None)
  <2>4. /\ e \in Reported /\ e.type = t /\ e.dev = d
        /\ f \in Reported /\ f.type = "DeviceStatus"
    BY DEF Event, Reported, EventRecord, MACEventTypes
  <2>5. report' = Append(report, e) \/ report' = Append2(report, e, f)
    BY <2>1
  <2> HIDE DEF e, f
  <2>6. /\ report' \in Seq(Reported) /\ Len(report) \in Nat
        /\ Len(report') = Len(report) + 1 \/ Len(report') = Len(report) + 2
        /\ \A i \in 1..Len(report) : report'[i] = report[i]
        /\ report'[Len(report) + 1] = e
        /\ Len(report') = Len(report) + 2 => report'[Len(report) + 2] = f
    <3>1. CASE report' = Append(report, e)
      BY <2>4, <3>1, OneEvent
    <3>2. CASE report' = Append2(report, e, f)
      BY <2>4, <3>2, TwoEvents
    <3> QED
      BY <2>5, <3>1, <3>2
  <2>7. \A i \in 1..Len(report') : i > Len(report) =>
          report'[i] = e \/ report'[i].type = "DeviceStatus"
    BY <2>4, <2>6
  <2>8. ASSUME NEW i \in 1..Len(report'), i > Len(report)
        PROVE  /\ \A x \in Devices : OfDevice(report'[i], x) => report'[i] = e /\ x = d
               /\ \A n \in MACs, x \in Devices : ~OfPresence(report'[i], n, x)
    BY <2>4, <2>7, <2>8 DEF OfDevice, OfPresence
  <2>9. ASSUME NEW x \in Devices, ~(x \in known' <=> x \in known)
        PROVE  \E i \in 1..Len(report') : i > Len(report) /\ OfDevice(report'[i], x)
    <3>1. x = d
      BY <2>1, <2>9
    <3>2. Len(report) + 1 \in 1..Len(report') /\ OfDevice(report'[Len(report) + 1], d)
      BY <2>1, <2>4, <2>6 DEF OfDevice
    <3> QED
      BY <2>6, <3>1, <3>2
  <2>10. e.type = "DeviceAdded" <=> d \in known'
    BY <2>1, <2>4
  <2> QED
    BY <1>0, <2>1, <2>6, <2>8, <2>9, <2>10 DEF Accounted
<1>5. ASSUME NEW d \in Devices, Status(d)
      PROVE  MonitorTypes' /\ ReportTyped' /\ stage # "idle" /\ Accounted
  <2>1. /\ stage' = stage /\ stage = "late" /\ known' = known /\ present' = present
        /\ heard' = heard
        /\ \E r \in StatusReports(d) : report' = report \o r
    BY <1>5 DEF Status
  <2>2. /\ report' \in Seq(Reported) /\ Len(report) \in Nat /\ Len(report') \in Nat
        /\ Len(report) <= Len(report')
        /\ \A i \in 1..Len(report) : report'[i] = report[i]
        /\ \A i \in 1..Len(report') : i > Len(report) => report'[i].type = "DeviceStatus"
    BY <2>1, StatusEvents
  <2> QED
    BY <1>0, <2>1, <2>2 DEF Accounted, OfDevice, OfPresence
<1>6. ASSUME (\E s \in Stages : Advance(s)) \/ End
      PROVE  MonitorTypes' /\ ReportTyped' /\ stage # "idle" /\ Accounted
  <2>1. /\ known' = known /\ present' = present /\ heard' = heard /\ report' = report
        /\ stage # "idle" /\ stage' \in Stages
    BY <1>6 DEF Advance, End
  <2>2. Len(report) \in Nat
    BY LenProperties
  <2> QED
    BY <1>0, <2>1, <2>2 DEF Accounted
<1> QED
  BY <1>1, <1>2, <1>3, <1>4, <1>5, <1>6 DEF Happening, Progress

-----------------------------------------------------------------------------
(* ConnInv is inductive.                                                   *)

\* The invariant of the connections holds when the daemon starts.
LEMMA Conn_Init == Init => ConnInv
<1> SUFFICES ASSUME Init PROVE ConnInv
  OBVIOUS
<1> USE DEF Init, MonitorInit, ServerInit
<1>1. MonitorTypes /\ ReportTyped
  BY EmptySeq DEF MonitorTypes, ReportTyped, Stages
<1>2. ServerTypes
  <2>1. queue \in Seq(Message) /\ \A c \in Conns : inbox[c] \in Seq(Requests)
    BY EmptySeq
  <2> QED
    BY <2>1, ServerAssumption DEF ServerTypes
<1>3. TypeOK /\ UnansweredKnowNothing
  BY <1>1, <1>2 DEF TypeOK, UnansweredKnowNothing, NewClient, Knowledge
<1>4. BacklogUnsent /\ ListsInPlace /\ QueuedPassed /\ QueuedFromServed
  BY DEF BacklogUnsent, ListsInPlace, QueuedPassed, QueuedFromServed
<1>5. ConnectionsAccountedFor /\ StreamsOfServed /\ NoDuplicateStreams
  BY DEF ConnectionsAccountedFor, StreamsOfServed, NoDuplicateStreams, Live, Established
<1> QED
  BY <1>1, <1>3, <1>4, <1>5 DEF ConnInv

\* What peers do.
LEMMA Conn_Peers == ConnInv /\ PeerStep => ConnInv'
<1> SUFFICES ASSUME ConnInv, PeerStep PROVE ConnInv'
  OBVIOUS
<1>0. UNCHANGED <<monitorVars, daemonVars>> /\ Peers
  BY DEF PeerStep
<1>1. MonitorTypes' /\ ReportTyped'
  BY <1>0 DEF ConnInv, TypeOK, MonitorTypes, ReportTyped, monitorVars
<1>2. CASE \E c \in Conns, v \in Servings : Connect(c, v)
  <2>1. PICK c \in Conns, v \in Servings : Connect(c, v)
    BY <1>2
  <2>2. /\ sock[c] = "free" /\ sock' = [sock EXCEPT ![c] = "open"]
        /\ via' = [via EXCEPT ![c] = v] /\ backlog' = backlog \cup {c}
        /\ UNCHANGED <<inbox, asked, serving, served, failing, removed, queue, spc, listeners,
                       unread>>
    BY <2>1 DEF Connect
  <2>3. ServerTypes'
    BY <2>2 DEF ConnInv, TypeOK, ServerTypes, Live, Established
  <2>4. TypeOK' /\ UnansweredKnowNothing'
    BY <1>0, <1>1, <2>2, <2>3 DEF ConnInv, TypeOK, ServerTypes, UnansweredKnowNothing, daemonVars
  <2>5. BacklogUnsent' /\ ListsInPlace' /\ QueuedPassed' /\ QueuedFromServed'
    BY <1>0, <2>2 DEF ConnInv, TypeOK, ServerTypes, BacklogUnsent, ListsInPlace, QueuedPassed,
                      QueuedFromServed, daemonVars
  <2>6. ConnectionsAccountedFor' /\ StreamsOfServed' /\ NoDuplicateStreams'
    BY <1>0, <2>2 DEF ConnInv, TypeOK, ServerTypes, ConnectionsAccountedFor, StreamsOfServed,
                      NoDuplicateStreams, daemonVars, Live, Established
  <2> QED
    BY <1>1, <2>4, <2>5, <2>6 DEF ConnInv
<1>3. CASE \E c \in Conns, r \in Requests : SendRequest(c, r)
  <2>1. PICK c \in Conns, r \in Requests : SendRequest(c, r)
    BY <1>3
  <2>2. /\ inbox' = [inbox EXCEPT ![c] = Append(@, r)]
        /\ asked[c] < MaxRequests /\ asked' = [asked EXCEPT ![c] = @ + 1]
        /\ UNCHANGED <<sock, via, backlog, serving, served, failing, removed, queue, spc,
                       listeners, unread>>
    BY <2>1 DEF SendRequest
  <2>3. ServerTypes'
    <3>1. Append(inbox[c], r) \in Seq(Requests)
      BY AppendProperties DEF ConnInv, TypeOK, ServerTypes
    <3> QED
      BY <2>2, <3>1, ServerAssumption DEF ConnInv, TypeOK, ServerTypes
  <2> QED
    BY <1>0, <1>1, <2>2, <2>3
    DEF ConnInv, TypeOK, UnansweredKnowNothing, BacklogUnsent, ListsInPlace, QueuedPassed,
        QueuedFromServed, ConnectionsAccountedFor, StreamsOfServed, NoDuplicateStreams,
        daemonVars
<1>4. CASE \E c \in Conns : Disconnect(c)
  <2>1. PICK c \in Conns : Disconnect(c)
    BY <1>4
  <2>2. PICK s \in {"closed", "reset"} :
          /\ sock[c] \in Established /\ sock' = [sock EXCEPT ![c] = s]
          /\ UNCHANGED <<via, inbox, asked, backlog, serving, served, failing, removed, queue,
                         spc, listeners, unread>>
    BY <2>1 DEF Disconnect
  <2>3. ServerTypes'
    BY <2>2 DEF ConnInv, TypeOK, ServerTypes, Live, Established
  <2>4. TypeOK' /\ UnansweredKnowNothing'
    BY <1>0, <1>1, <2>2, <2>3 DEF ConnInv, TypeOK, ServerTypes, UnansweredKnowNothing, daemonVars
  <2>5. BacklogUnsent' /\ ListsInPlace' /\ QueuedPassed' /\ QueuedFromServed'
    BY <1>0, <2>2 DEF ConnInv, TypeOK, ServerTypes, BacklogUnsent, ListsInPlace, QueuedPassed,
                      QueuedFromServed, daemonVars
  <2>6. ConnectionsAccountedFor' /\ StreamsOfServed' /\ NoDuplicateStreams'
    BY <1>0, <2>2 DEF ConnInv, TypeOK, ServerTypes, ConnectionsAccountedFor, StreamsOfServed,
                      NoDuplicateStreams, daemonVars, Live, Established
  <2> QED
    BY <1>1, <2>4, <2>5, <2>6 DEF ConnInv
<1> QED
  BY <1>0, <1>2, <1>3, <1>4 DEF Peers

\* The steps that leave Server alone: the monitor's, and those that only move on.
LEMMA Conn_Quiet ==
    ConnInv /\ (Signal \/ SignalInServer \/ NetworkStep \/ ServerStops \/ EndHandle
                \/ UNCHANGED vars)
      => ConnInv'
<1> SUFFICES ASSUME ConnInv, Signal \/ SignalInServer \/ NetworkStep \/ ServerStops \/ EndHandle
                             \/ UNCHANGED vars
             PROVE  ConnInv'
  OBVIOUS
<1>1. UNCHANGED <<serverVars, streams, client>>
  BY DEF Signal, SignalInServer, NetworkStep, ServerStops, EndHandle, vars, daemonVars
<1>2. MonitorTypes' /\ ReportTyped'
  <2>1. CASE UNCHANGED monitorVars
    BY <2>1 DEF ConnInv, TypeOK, MonitorTypes, ReportTyped, monitorVars
  <2>2. CASE NetworkStep
    <3>1. Start \/ Happening \/ Progress
      BY <2>2 DEF NetworkStep
    <3> QED
      BY <3>1, MonitorSteps DEF ConnInv, TypeOK
  <2> QED
    BY <2>1, <2>2 DEF Signal, SignalInServer, ServerStops, EndHandle, vars
<1>3. /\ \/ dpc' = dpc /\ (dpc = "dispatch" => cursor' = cursor)
         \/ dpc = "network" /\ dpc' \in {"server", "exited"}
         \/ dpc = "server" /\ spc = "out" /\ dpc' \in {"drop", "exited"}
         \/ dpc = "handle" /\ queue = <<>> /\ dpc' = "dispatch" /\ cursor' = 1
      /\ cursor' \in Nat /\ shouldRun' \in BOOLEAN
  <2>1. CASE Signal \/ SignalInServer
    BY <2>1 DEF ConnInv, TypeOK, Signal, SignalInServer
  <2>2. CASE NetworkStep
    BY <2>2 DEF ConnInv, TypeOK, NetworkStep
  <2>3. CASE ServerStops \/ EndHandle
    BY <2>3 DEF ConnInv, TypeOK, ServerStops, EndHandle
  <2>4. CASE UNCHANGED vars
    BY <2>4 DEF ConnInv, TypeOK, vars, daemonVars
  <2> QED
    BY <2>1, <2>2, <2>3, <2>4
<1>4. TypeOK'
  BY <1>1, <1>2, <1>3 DEF ConnInv, TypeOK, ServerTypes, serverVars
<1>5. ListsInPlace' /\ StreamsOfServed'
  BY <1>1, <1>3 DEF ConnInv, ListsInPlace, StreamsOfServed, serverVars
<1> QED
  BY <1>1, <1>2, <1>4, <1>5
  DEF ConnInv, UnansweredKnowNothing, BacklogUnsent, QueuedPassed, QueuedFromServed,
      ConnectionsAccountedFor, NoDuplicateStreams, serverVars

\* Server::cycle().
LEMMA Conn_Server == ConnInv /\ ServerStep => ConnInv'
<1> SUFFICES ASSUME ConnInv, ServerStep PROVE ConnInv'
  OBVIOUS
<1>0. /\ UNCHANGED <<monitorVars, shouldRun, streams, cursor, client>> /\ dpc = "server"
      /\ \/ shouldRun /\ BeginServer /\ UNCHANGED dpc
         \/ InServer /\ UNCHANGED dpc
         \/ Reap /\ dpc' = "drop"
  BY DEF ServerStep
<1>1. MonitorTypes' /\ ReportTyped'
  BY <1>0 DEF ConnInv, TypeOK, MonitorTypes, ReportTyped, monitorVars
<1>2. NoDuplicateStreams'
  BY <1>0 DEF ConnInv, NoDuplicateStreams
<1>3. CASE BeginServer /\ UNCHANGED dpc
  <2>1. /\ spc = "out" /\ spc' = "accept" /\ listeners' = DOMAIN serving /\ dpc' = dpc
        /\ UNCHANGED <<sock, via, inbox, asked, backlog, serving, served, failing, removed,
                       queue, unread>>
    BY <1>3 DEF BeginServer, peerVars
  <2>2. ServerTypes'
    BY <2>1 DEF ConnInv, TypeOK, ServerTypes
  <2> QED
    BY <1>0, <1>1, <1>2, <2>1, <2>2
    DEF ConnInv, TypeOK, UnansweredKnowNothing, BacklogUnsent, ListsInPlace, QueuedPassed,
        QueuedFromServed, ConnectionsAccountedFor, StreamsOfServed
<1>4. CASE UNCHANGED dpc /\ \E v \in Servings : Accept(v)
  <2>1. PICK v \in Servings : Accept(v)
    BY <1>4
  <2>2. /\ spc = "accept" /\ v \in listeners /\ listeners' = listeners \ {v}
        /\ AcceptOne(v) \/ AcceptNone(v) \/ AcceptFails(v)
        /\ UNCHANGED <<via, inbox, asked, failing, removed, queue, spc, unread, dpc>>
    BY <1>4, <2>1 DEF Accept
  <2>3. \E s \in {"Started", "Invalid"} : serving' = [serving EXCEPT ![v] = s]
    BY <2>2 DEF AcceptOne, AcceptNone, AcceptFails
  <2>4. \/ UNCHANGED <<backlog, served, sock>>
        \/ \E c \in backlog, s \in Live :
             /\ backlog' = backlog \ {c} /\ served' = served \cup {c}
             /\ sock' = [sock EXCEPT ![c] = s]
             /\ s = "open" => sock[c] = "open"
    <3>1. CASE AcceptOne(v)
      <4>1. PICK c \in backlog : /\ backlog' = backlog \ {c} /\ served' = served \cup {c}
                                 /\ \E s \in AfterSends(sock[c], 1) : sock' = [sock EXCEPT ![c] = s]
        BY <3>1 DEF AcceptOne
      <4>2. sock[c] \in {"open", "closed", "reset"}
        BY DEF ConnInv, BacklogUnsent
      <4>3. \A s \in AfterSends(sock[c], 1) : s \in Live /\ (s = "open" => sock[c] = "open")
        BY <4>2 DEF AfterSends, Live, Established
      <4> QED
        BY <4>1, <4>3
    <3> QED
      BY <2>2, <3>1 DEF AcceptNone, AcceptFails
  <2>5. CASE UNCHANGED <<backlog, served, sock>>
    <3>1. ServerTypes'
      BY <2>2, <2>3, <2>5 DEF ConnInv, TypeOK, ServerTypes
    <3> QED
      BY <1>0, <1>1, <1>2, <2>2, <2>5, <3>1
      DEF ConnInv, TypeOK, UnansweredKnowNothing, BacklogUnsent, ListsInPlace, QueuedPassed,
          QueuedFromServed, ConnectionsAccountedFor, StreamsOfServed
  <2>6. ASSUME NEW c \in backlog, NEW s \in Live,
               backlog' = backlog \ {c}, served' = served \cup {c},
               sock' = [sock EXCEPT ![c] = s]
        PROVE  ConnInv'
    <3>0. c \in Conns /\ sock[c] \in Live
      BY DEF ConnInv, TypeOK, ServerTypes, BacklogUnsent, Live, Established
    <3>1. ServerTypes'
      BY <2>2, <2>3, <2>6, <3>0 DEF ConnInv, TypeOK, ServerTypes, Live, Established
    <3>2. TypeOK'
      BY <1>0, <1>1, <2>2, <3>1 DEF ConnInv, TypeOK
    <3>3. BacklogUnsent' /\ QueuedPassed' /\ QueuedFromServed' /\ ListsInPlace'
      BY <1>0, <2>2, <2>6, <3>0 DEF ConnInv, TypeOK, ServerTypes, BacklogUnsent, QueuedPassed,
                                    QueuedFromServed, ListsInPlace
    <3>4. ConnectionsAccountedFor'
      BY <1>0, <2>2, <2>6, <3>0 DEF ConnInv, TypeOK, ServerTypes, ConnectionsAccountedFor
    <3>5. StreamsOfServed' /\ UnansweredKnowNothing'
      BY <1>0, <2>2, <2>6, <3>0 DEF ConnInv, TypeOK, ServerTypes, StreamsOfServed,
                                    UnansweredKnowNothing, Live, Established
    <3> QED
      BY <1>1, <1>2, <3>2, <3>3, <3>4, <3>5 DEF ConnInv
  <2> QED
    BY <2>4, <2>5, <2>6
<1>5. CASE UNCHANGED dpc /\ SweepServings
  <2> DEFINE lost == {c \in backlog : via[c] \notin DOMAIN serving'}
  <2>1. /\ spc = "accept" /\ spc' = "receive"
        /\ serving' = [v \in {u \in DOMAIN serving : serving[u] = "Started"} |-> serving[v]]
        /\ backlog' = backlog \ lost
        /\ sock' = [c \in Conns |-> IF c \in lost THEN "gone" ELSE sock[c]]
        /\ unread' = served
        /\ UNCHANGED <<via, inbox, asked, served, failing, removed, queue, listeners, dpc>>
    BY <1>5 DEF SweepServings
  <2>2. lost \subseteq backlog
    OBVIOUS
  <2>3. /\ DOMAIN serving' \subseteq Servings
        /\ serving' \in [DOMAIN serving' -> {"Stopped", "Started", "Invalid"}]
    BY <2>1 DEF ConnInv, TypeOK, ServerTypes
  <2> HIDE DEF lost
  <2>4. ServerTypes'
    <3>1. /\ sock' \in [Conns -> Live \cup {"free", "gone"}]
          /\ \A c \in Conns : sock'[c] # "free" => sock[c] # "free"
      <4>1. sock \in [Conns -> Live \cup {"free", "gone"}] /\ backlog \subseteq Conns
        BY DEF ConnInv, TypeOK, ServerTypes
      <4>2. \A c \in backlog : sock[c] # "free"
        BY DEF ConnInv, BacklogUnsent
      <4>3. sock' = [c \in Conns |-> IF c \in lost THEN "gone" ELSE sock[c]]
        BY <2>1
      <4> QED
        BY <2>2, <4>1, <4>2, <4>3
    <3>2. UNCHANGED <<via, inbox, asked, served, failing, removed, queue, listeners>>
          /\ backlog' = backlog \ lost /\ unread' = served /\ spc' = "receive"
      BY <2>1
    <3> QED
      BY <2>2, <2>3, <3>1, <3>2 DEF ConnInv, TypeOK, ServerTypes
  <2>5. TypeOK'
    BY <1>0, <1>1, <2>1, <2>4 DEF ConnInv, TypeOK
  <2>6. BacklogUnsent' /\ ListsInPlace'
    BY <1>0, <2>1, <2>2 DEF ConnInv, TypeOK, ServerTypes, BacklogUnsent, ListsInPlace
  <2>7. QueuedPassed' /\ QueuedFromServed'
    <3>1. queue = <<>>
      BY <1>0, <2>1 DEF ConnInv, ListsInPlace
    <3> QED
      BY <2>1, <3>1 DEF QueuedPassed, QueuedFromServed
  <2>8. ConnectionsAccountedFor'
    BY <1>0, <2>1, <2>2 DEF ConnInv, TypeOK, ServerTypes, ConnectionsAccountedFor, ListsInPlace,
                            Live, Established
  <2>9. StreamsOfServed' /\ UnansweredKnowNothing'
    BY <1>0, <2>1, <2>2 DEF ConnInv, TypeOK, ServerTypes, StreamsOfServed, UnansweredKnowNothing
  <2> QED
    BY <1>1, <1>2, <2>5, <2>6, <2>7, <2>8, <2>9 DEF ConnInv
<1>6. CASE UNCHANGED dpc /\ \E c \in Conns : Receive(c)
  <2>1. PICK c \in Conns : Receive(c)
    BY <1>6
  <2>2. /\ spc = "receive" /\ c \in unread /\ unread' = unread \ {c}
        /\ UNCHANGED <<sock, via, asked, backlog, serving, served, removed, spc, listeners, dpc>>
        /\ ReceiveValue(c) \/ ReceiveNothing(c) \/ ReceiveFails(c)
    BY <1>6, <2>1 DEF Receive
  <2>3. CASE ReceiveValue(c)
    <3> DEFINE e == [conn |-> c, req |-> Head(inbox[c])]
    <3>1. /\ inbox[c] # <<>> /\ inbox' = [inbox EXCEPT ![c] = Tail(@)]
          /\ queue' = Append(queue, e) /\ failing' = failing
      BY <2>3 DEF ReceiveValue
    <3>2. inbox[c] \in Seq(Requests)
      BY DEF ConnInv, TypeOK, ServerTypes
    <3>3. Tail(inbox[c]) \in Seq(Requests) /\ Head(inbox[c]) \in Requests
      BY <3>1, <3>2, Shortened
    <3>4. e \in Message /\ e.conn = c
      BY <3>3 DEF Message
    <3> HIDE DEF e
    <3>5. queue \in Seq(Message)
      BY DEF ConnInv, TypeOK, ServerTypes
    <3>6. /\ queue' \in Seq(Message) /\ Len(queue) \in Nat /\ Len(queue') = Len(queue) + 1
          /\ \A i \in 1..Len(queue) : queue'[i] = queue[i]
          /\ queue'[Len(queue) + 1] = e
      BY <3>1, <3>4, <3>5, Appended
    <3>7. ServerTypes'
      BY <2>2, <3>1, <3>3, <3>6 DEF ConnInv, TypeOK, ServerTypes
    <3>8. TypeOK' /\ ListsInPlace'
      BY <1>0, <1>1, <2>2, <3>1, <3>7 DEF ConnInv, TypeOK, ListsInPlace
    <3>9. c \in served /\ c \notin failing
      BY <2>2 DEF ConnInv, ConnectionsAccountedFor, ListsInPlace
    <3>10. ASSUME NEW i \in 1..Len(queue')
           PROVE  queue'[i].conn \in served /\ queue'[i].conn \notin failing' \cup unread'
      <4>1. CASE i \in 1..Len(queue)
        BY <2>2, <3>1, <3>6, <4>1 DEF ConnInv, QueuedFromServed, QueuedPassed
      <4>2. CASE i = Len(queue) + 1
        BY <2>2, <3>1, <3>4, <3>6, <3>9, <4>2
      <4> QED
        BY <3>6, <4>1, <4>2
    <3>11. QueuedPassed' /\ QueuedFromServed'
      BY <2>2, <3>10 DEF QueuedPassed, QueuedFromServed
    <3>12. BacklogUnsent' /\ ConnectionsAccountedFor' /\ StreamsOfServed'
           /\ UnansweredKnowNothing'
      BY <1>0, <2>2, <3>1 DEF ConnInv, BacklogUnsent, ConnectionsAccountedFor, StreamsOfServed,
                              UnansweredKnowNothing
    <3> QED
      BY <1>1, <1>2, <3>8, <3>11, <3>12 DEF ConnInv
  <2>4. CASE ReceiveNothing(c) \/ ReceiveFails(c)
    <3>1. /\ inbox' = inbox /\ queue' = queue
          /\ failing' = failing \/ failing' = failing \cup {c}
      BY <2>4 DEF ReceiveNothing, ReceiveFails
    <3>2. ServerTypes'
      BY <2>2, <3>1 DEF ConnInv, TypeOK, ServerTypes
    <3>3. TypeOK' /\ ListsInPlace'
      BY <1>0, <1>1, <2>2, <3>1, <3>2 DEF ConnInv, TypeOK, ListsInPlace
    <3>4. QueuedPassed' /\ QueuedFromServed'
      BY <2>2, <3>1 DEF ConnInv, QueuedPassed, QueuedFromServed
    <3>5. BacklogUnsent' /\ ConnectionsAccountedFor' /\ StreamsOfServed'
          /\ UnansweredKnowNothing'
      BY <1>0, <2>2, <3>1 DEF ConnInv, BacklogUnsent, ConnectionsAccountedFor, StreamsOfServed,
                              UnansweredKnowNothing
    <3> QED
      BY <1>1, <1>2, <3>3, <3>4, <3>5 DEF ConnInv
  <2> QED
    BY <2>2, <2>3, <2>4
<1>7. CASE Reap /\ dpc' = "drop"
  <2>1. /\ spc = "receive" /\ unread = {} /\ removed' = removed \cup failing
        /\ served' = served \ failing /\ failing' = {} /\ spc' = "out" /\ dpc' = "drop"
        /\ UNCHANGED <<sock, via, inbox, asked, backlog, serving, queue, listeners, unread>>
    BY <1>7 DEF Reap, peerVars
  <2>2. ServerTypes'
    BY <2>1 DEF ConnInv, TypeOK, ServerTypes
  <2>3. TypeOK' /\ ListsInPlace'
    BY <1>0, <1>1, <2>1, <2>2 DEF ConnInv, TypeOK, ListsInPlace
  <2>4. QueuedPassed' /\ QueuedFromServed'
    BY <2>1 DEF ConnInv, QueuedPassed, QueuedFromServed
  <2>5. BacklogUnsent' /\ ConnectionsAccountedFor' /\ StreamsOfServed' /\ UnansweredKnowNothing'
    BY <1>0, <2>1 DEF ConnInv, BacklogUnsent, ConnectionsAccountedFor, StreamsOfServed,
                      UnansweredKnowNothing
  <2> QED
    BY <1>1, <1>2, <2>3, <2>4, <2>5 DEF ConnInv
<1> QED
  BY <1>0, <1>3, <1>4, <1>5, <1>6, <1>7 DEF InServer

\* The listener's device is a device, or the empty name.
LEMMA ServedOnTyped ==
    ASSUME TypeOK, NEW c \in Conns PROVE ServedOn(c) \in Devices \cup {None}
  BY DaemonAssumption DEF ServedOn, TypeOK, ServerTypes

\* A client that has learnt nothing yet.
LEMMA NewClientTyped == NewClient \in Knowledge
  BY DEF NewClient, Knowledge

\* Answering keeps types.
LEMMA AnswerTyped ==
    ASSUME TypeOK, NEW c \in Conns, NEW r \in Requests
    PROVE  Answer(c, r) \in Knowledge
<1>1. client[c] \in Knowledge /\ r.dev \in Devices
  BY DaemonAssumption DEF TypeOK
<1>2. present \subseteq MACs \X Devices /\ known \subseteq Devices
  BY DEF TypeOK, MonitorTypes
<1> QED
  BY <1>1, <1>2 DEF Answer, Knowledge

\* A request moves one stream of its connection between 0 and 1.
LEMMA StreamsAfterTyped ==
    ASSUME TypeOK, NoDuplicateStreams, NEW c \in Conns, NEW r \in Requests
    PROVE  /\ StreamsAfter(c, r) \in [Conns \X Devices -> Nat]
           /\ \A x \in Conns \X Devices :
                /\ StreamsAfter(c, r)[x] <= 1
                /\ StreamsAfter(c, r)[x] > 0 => streams[x] > 0 \/ x[1] = c
                /\ streams[x] > 0 /\ StreamsAfter(c, r)[x] = 0 =>
                      r.op = "disable-stream" /\ x = <<c, ServedOn(c)>>
<1>1. /\ ServedOn(c) \in Devices \cup {None} /\ r.dev \in Devices
      /\ streams \in [Conns \X Devices -> Nat]
      /\ \A x \in Conns \X Devices : streams[x] <= 1
  BY ServedOnTyped, DaemonAssumption DEF TypeOK, NoDuplicateStreams
<1>2. None \notin Devices
  BY MonitorAssumption
<1> DEFINE S == ServedOn(c)
<1> HIDE DEF S
<1>3. CASE r.op = "enable-stream" /\ ~streamEnabled(c, S) /\ ~streamEnabled(c, r.dev)
  <2>1. StreamsAfter(c, r) = [streams EXCEPT ![<<c, r.dev>>] = @ + 1]
    BY <1>3 DEF StreamsAfter, enableStream, S
  <2>2. <<c, r.dev>> \in Conns \X Devices /\ streams[<<c, r.dev>>] = 0
    BY <1>1, <1>2, <1>3 DEF streamEnabled
  <2> QED
    BY <1>1, <2>1, <2>2
<1>4. CASE r.op = "disable-stream" /\ streamEnabled(c, S)
  <2>1. StreamsAfter(c, r) = [streams EXCEPT ![<<c, S>>] = @ - 1]
    BY <1>4 DEF StreamsAfter, disableStream, S
  <2>2. <<c, S>> \in Conns \X Devices /\ streams[<<c, S>>] = 1
    BY <1>1, <1>2, <1>4 DEF streamEnabled, S
  <2> QED
    BY <1>1, <1>4, <2>1, <2>2 DEF S
<1>5. CASE /\ ~(r.op = "enable-stream" /\ ~streamEnabled(c, S) /\ ~streamEnabled(c, r.dev))
           /\ ~(r.op = "disable-stream" /\ streamEnabled(c, S))
  <2>1. StreamsAfter(c, r) = streams
    BY <1>5 DEF StreamsAfter, enableStream, S
  <2> QED
    BY <1>1, <2>1
<1> QED
  BY <1>3, <1>4, <1>5

\* The steps of the daemon that change nothing of Server but its sockets and its
\* queue: what they must keep.
LEMMA Conn_Sending ==
    ASSUME ConnInv,
           UNCHANGED <<monitorVars, via, inbox, asked, backlog, serving, served, failing,
                       removed, spc, listeners, unread>>,
           dpc \in {"handle", "dispatch"}, dpc' \in {dpc, "killed"} \cup {"network"},
           dpc' = "network" => dpc = "dispatch",
           queue' = queue \/ (queue # <<>> /\ queue' = Tail(queue)),
           sock' \in [Conns -> Live \cup {"free", "gone"}],
           \A c \in Conns : /\ sock'[c] = "free" <=> sock[c] = "free"
                            /\ sock'[c] \in Live <=> sock[c] \in Live
                            /\ c \in backlog => sock'[c] = sock[c] /\ client'[c] = client[c]
                            /\ sock[c] = "free" => client'[c] = client[c],
           streams' \in [Conns \X Devices -> Nat],
           \A x \in Conns \X Devices :
              streams'[x] <= 1 /\ (streams'[x] > 0 => streams[x] > 0 \/ x[1] \in served),
           client' \in [Conns -> Knowledge],
           cursor' \in Nat, dpc' = "dispatch" => cursor' > 0, shouldRun' = shouldRun
    PROVE  ConnInv'
<1>0. MonitorTypes' /\ ReportTyped'
  BY DEF ConnInv, TypeOK, MonitorTypes, ReportTyped, monitorVars
<1>1. /\ queue' \in Seq(Message)
      /\ queue = <<>> => queue' = <<>>
      /\ \A i \in 1..Len(queue') : \E j \in 1..Len(queue) : queue'[i] = queue[j]
  <2>1. queue \in Seq(Message)
    BY DEF ConnInv, TypeOK, ServerTypes
  <2>2. CASE queue # <<>> /\ queue' = Tail(queue)
    <3> DEFINE t == Tail(queue)
    <3>1. /\ t \in Seq(Message) /\ Len(queue) \in Nat /\ Len(t) \in Nat
          /\ Len(t) = Len(queue) - 1
          /\ \A i \in 1..Len(t) : t[i] = queue[i + 1]
      BY <2>1, <2>2, Shortened, LenProperties
    <3> HIDE DEF t
    <3>2. \A i \in 1..Len(t) : i + 1 \in 1..Len(queue) /\ t[i] = queue[i + 1]
      BY <3>1
    <3>3. queue' = t
      BY <2>2 DEF t
    <3> QED
      BY <2>2, <3>1, <3>2, <3>3
  <2> QED
    BY <2>1, <2>2
<1>2. ServerTypes'
  <2>1. \A c \in Conns : sock'[c] # "free" => via'[c] \in Servings
    BY DEF ConnInv, TypeOK, ServerTypes
  <2>2. serving' \in [DOMAIN serving' -> {"Stopped", "Started", "Invalid"}]
        /\ DOMAIN serving' \subseteq Servings /\ DOMAIN via' = Conns
    BY DEF ConnInv, TypeOK, ServerTypes
  <2>3. /\ inbox' \in [Conns -> Seq(Requests)] /\ asked' \in [Conns -> 0..MaxRequests]
        /\ backlog' \subseteq Conns /\ served' \subseteq Conns /\ removed' \subseteq Conns
        /\ failing' \subseteq Conns /\ unread' \subseteq Conns
        /\ spc' \in {"out", "accept", "receive"} /\ listeners' \subseteq Servings
    BY DEF ConnInv, TypeOK, ServerTypes
  <2> QED
    BY <1>1, <2>1, <2>2, <2>3 DEF ServerTypes
<1>3. TypeOK'
  BY <1>0, <1>2 DEF ConnInv, TypeOK
<1>4. ListsInPlace' /\ BacklogUnsent'
  BY <1>1 DEF ConnInv, TypeOK, ServerTypes, ListsInPlace, BacklogUnsent
<1>5. QueuedPassed' /\ QueuedFromServed'
  BY <1>1 DEF ConnInv, QueuedPassed, QueuedFromServed
<1>6. ConnectionsAccountedFor' /\ UnansweredKnowNothing'
  BY DEF ConnInv, ConnectionsAccountedFor, UnansweredKnowNothing
<1>7. StreamsOfServed' /\ NoDuplicateStreams'
  <2>1. removed = {}
    BY DEF ConnInv, ListsInPlace
  <2>2. NoDuplicateStreams'
    BY DEF NoDuplicateStreams
  <2>3. ASSUME NEW c \in Conns, NEW d \in Devices, streams'[<<c, d>>] > 0 PROVE c \in served
    BY <2>1, <2>3 DEF ConnInv, StreamsOfServed
  <2> QED
    BY <2>2, <2>3 DEF StreamsOfServed
<1> QED
  BY <1>0, <1>3, <1>4, <1>5, <1>6, <1>7 DEF ConnInv

\* A queued request comes from a served connection.
LEMMA QueueHead ==
    ASSUME ConnInv, queue # <<>>
    PROVE  /\ Head(queue).conn \in Conns /\ Head(queue).req \in Requests
           /\ Head(queue).conn \in served
<1>1. queue \in Seq(Message)
  BY DEF ConnInv, TypeOK, ServerTypes
<1>2. Head(queue) = queue[1] /\ Head(queue) \in Message /\ 1 \in 1..Len(queue)
  BY <1>1, Shortened
<1> QED
  BY <1>2 DEF ConnInv, QueuedFromServed, Message

\* Served connections do not wait to be accepted, and their sockets exist.
LEMMA ServedApart ==
    ASSUME ConnInv, NEW c \in served
    PROVE  c \in Conns /\ c \notin backlog /\ sock[c] \in Live /\ sock[c] # "free"
  BY DEF ConnInv, TypeOK, ServerTypes, ConnectionsAccountedFor, Live, Established

\* What a request does, its operators out of the way.
LEMMA Handled ==
    ASSUME ConnInv, HandleRequest
    PROVE  \E c \in served, r \in Requests :
             /\ c \in Conns
             /\ dpc' \in {"handle", "killed"}
             /\ sock' \in [Conns -> Live \cup {"free", "gone"}]
             /\ \A x \in Conns : /\ sock'[x] = "open" => sock[x] = "open"
                                 /\ sock'[x] = "free" <=> sock[x] = "free"
                                 /\ sock'[x] \in Live <=> sock[x] \in Live
                                 /\ x # c => sock'[x] = sock[x]
             /\ streams' = StreamsAfter(c, r)
             /\ client' = [x \in Conns |-> IF sock'[x] # "open" THEN NewClient
                                           ELSE IF x = c THEN Answer(x, r) ELSE client[x]]
<1> DEFINE c == Head(queue).conn
           r == Head(queue).req
           sends == [x \in Conns |-> IF x = c THEN 1 ELSE 0]
<1>1. /\ queue # <<>> /\ Send(sends, "handle") /\ streams' = StreamsAfter(c, r)
      /\ client' = [x \in Conns |-> IF sock'[x] # "open" THEN NewClient
                                    ELSE IF sends[x] > 0 THEN Answer(x, r) ELSE client[x]]
  BY DEF HandleRequest, Told
<1>2. c \in served /\ c \in Conns /\ r \in Requests
  BY <1>1, QueueHead
<1>3. sends \in [Conns -> Nat]
  OBVIOUS
<1>4. \A x \in Conns : (sends[x] > 0 <=> x = c) /\ (x # c => sends[x] = 0)
  OBVIOUS
<1> HIDE DEF sends, c, r
<1>5. /\ dpc' \in {"handle", "killed"}
      /\ sock' \in [Conns -> Live \cup {"free", "gone"}]
      /\ \A x \in Conns : /\ sock'[x] = "open" => sock[x] = "open"
                          /\ sock'[x] = "free" <=> sock[x] = "free"
                          /\ sock'[x] \in Live <=> sock[x] \in Live
                          /\ x # c => sock'[x] = sock[x]
  BY <1>1, <1>3, <1>4, Sent DEF ConnInv, TypeOK
<1>6. client' = [x \in Conns |-> IF sock'[x] # "open" THEN NewClient
                                 ELSE IF x = c THEN Answer(x, r) ELSE client[x]]
  BY <1>1, <1>4
<1> QED
  BY <1>1, <1>2, <1>5, <1>6

\* A request is answered, or its stream is switched.
LEMMA Conn_Handle == ConnInv /\ HandleRequest => ConnInv'
<1> SUFFICES ASSUME ConnInv, HandleRequest PROVE ConnInv'
  OBVIOUS
<1>1. PICK c \in served, r \in Requests :
        /\ c \in Conns
        /\ dpc' \in {"handle", "killed"}
        /\ sock' \in [Conns -> Live \cup {"free", "gone"}]
        /\ \A x \in Conns : /\ sock'[x] = "open" => sock[x] = "open"
                            /\ sock'[x] = "free" <=> sock[x] = "free"
                            /\ sock'[x] \in Live <=> sock[x] \in Live
                            /\ x # c => sock'[x] = sock[x]
        /\ streams' = StreamsAfter(c, r)
        /\ client' = [x \in Conns |-> IF sock'[x] # "open" THEN NewClient
                                      ELSE IF x = c THEN Answer(x, r) ELSE client[x]]
  BY Handled
<1>2. /\ dpc = "handle" /\ queue # <<>> /\ queue' = Tail(queue) /\ cursor' = cursor
      /\ shouldRun' = shouldRun
      /\ UNCHANGED <<monitorVars, via, inbox, asked, backlog, serving, served, failing,
                     removed, spc, listeners, unread>>
  BY DEF HandleRequest
<1>3. TypeOK /\ NoDuplicateStreams
  BY DEF ConnInv
<1>4. streams' \in [Conns \X Devices -> Nat]
  BY <1>1, <1>3, StreamsAfterTyped
<1>5. \A x \in Conns \X Devices :
          streams'[x] <= 1 /\ (streams'[x] > 0 => streams[x] > 0 \/ x[1] \in served)
  BY <1>1, <1>3, StreamsAfterTyped
<1>6. client' \in [Conns -> Knowledge]
  <2>1. Answer(c, r) \in Knowledge /\ NewClient \in Knowledge
    BY <1>1, <1>3, AnswerTyped, NewClientTyped
  <2> QED
    BY <1>1, <1>3, <2>1 DEF TypeOK
<1>7. c \notin backlog /\ sock[c] # "free"
  BY ServedApart
<1>8. \A x \in Conns : x # c => /\ sock'[x] = sock[x]
                                /\ sock[x] = "free" \/ x \in backlog => client'[x] = client[x]
  BY <1>1 DEF ConnInv, UnansweredKnowNothing
<1>9. cursor \in Nat
  BY <1>3 DEF TypeOK
<1> HIDE DEF HandleRequest
<1> QED
  BY <1>1, <1>2, <1>4, <1>5, <1>6, <1>7, <1>8, <1>9, Conn_Sending

\* Streams of removed connections are erased and their descriptors closed.
LEMMA Conn_Drop == ConnInv /\ DropRemoved => ConnInv'
<1> SUFFICES ASSUME ConnInv, DropRemoved PROVE ConnInv'
  OBVIOUS
<1>1. /\ dpc = "drop" /\ dpc' = "handle"
      /\ streams' = [x \in Conns \X Devices |-> IF x[1] \in removed THEN 0 ELSE streams[x]]
      /\ sock' = [c \in Conns |-> IF c \in removed THEN "gone" ELSE sock[c]]
      /\ client' = [c \in Conns |-> IF c \in removed THEN NewClient ELSE client[c]]
      /\ removed' = {}
      /\ UNCHANGED <<monitorVars, via, inbox, asked, backlog, serving, served, failing, queue,
                     spc, listeners, unread, shouldRun, cursor>>
  BY DEF DropRemoved
<1>2. MonitorTypes' /\ ReportTyped'
  BY <1>1 DEF ConnInv, TypeOK, MonitorTypes, ReportTyped, monitorVars
<1>3. NewClient \in Knowledge
  BY DEF NewClient, Knowledge
<1>4. ServerTypes'
  <2>1. \A c \in removed : sock[c] # "free"
    BY DEF ConnInv, TypeOK, ServerTypes, ConnectionsAccountedFor, Live, Established
  <2> QED
    BY <1>1, <2>1 DEF ConnInv, TypeOK, ServerTypes
<1>5. TypeOK'
  BY <1>1, <1>2, <1>3, <1>4 DEF ConnInv, TypeOK
<1>6. ListsInPlace' /\ BacklogUnsent'
  BY <1>1 DEF ConnInv, TypeOK, ServerTypes, ListsInPlace, BacklogUnsent, ConnectionsAccountedFor
<1>7. QueuedPassed' /\ QueuedFromServed'
  BY <1>1 DEF ConnInv, QueuedPassed, QueuedFromServed
<1>8. ConnectionsAccountedFor' /\ UnansweredKnowNothing'
  BY <1>1 DEF ConnInv, TypeOK, ServerTypes, ConnectionsAccountedFor,
              UnansweredKnowNothing, Live, Established
<1>9. StreamsOfServed' /\ NoDuplicateStreams'
  BY <1>1 DEF ConnInv, TypeOK, StreamsOfServed, NoDuplicateStreams
<1> QED
  BY <1>2, <1>5, <1>6, <1>7, <1>8, <1>9 DEF ConnInv

\* What a client makes of the messages that event e causes.
HeardBy(c, e) ==
    LET k == IF EndsStream(e, c) THEN LearnDisabled(client[c], e.dev) ELSE client[c]
    IN  IF c \in Recipients(e) THEN Learn(k, e) ELSE k

\* Handing out an event, its operators out of the way.
LEMMA Dispatched ==
    ASSUME ConnInv, DispatchEvent
    PROVE  \E e \in Reported :
             /\ cursor \in 1..Len(report) /\ e = report[cursor]
             /\ dpc' \in {"dispatch", "killed"}
             /\ sock' \in [Conns -> Live \cup {"free", "gone"}]
             /\ \A c \in Conns : /\ sock'[c] = "open" => sock[c] = "open"
                                 /\ sock'[c] = "free" <=> sock[c] = "free"
                                 /\ sock'[c] \in Live <=> sock[c] \in Live
                                 /\ c \notin served => sock'[c] = sock[c]
             /\ streams' = [x \in Conns \X Devices |->
                               IF e.type = "DeviceRemoved" /\ x[2] = e.dev THEN 0 ELSE streams[x]]
             /\ \A c \in Conns : c \notin served => HeardBy(c, e) = client[c]
             /\ client' = [c \in Conns |-> IF sock'[c] = "open" THEN HeardBy(c, e) ELSE NewClient]
<1> DEFINE e == report[cursor]
           ended == [c \in Conns |-> IF EndsStream(e, c) THEN streams[<<c, e.dev>>] ELSE 0]
           info  == [c \in Conns |-> IF c \in Recipients(e) THEN 1 ELSE 0]
           sends == [c \in Conns |-> ended[c] + info[c]]
           Heard(c) == LET k == IF ended[c] > 0 THEN LearnDisabled(client[c], e.dev)
                                                ELSE client[c]
                       IN  IF info[c] > 0 THEN Learn(k, e) ELSE k
<1>1. /\ cursor <= Len(report) /\ Send(sends, "dispatch") /\ dpc = "dispatch"
      /\ streams' = [x \in Conns \X Devices |->
                        IF e.type = "DeviceRemoved" /\ x[2] = e.dev THEN 0 ELSE streams[x]]
      /\ client' = [c \in Conns |-> IF sock'[c] # "open" THEN NewClient
                                    ELSE IF sends[c] > 0 THEN Heard(c) ELSE client[c]]
  BY DEF DispatchEvent, Told
<1>2. cursor \in 1..Len(report) /\ e \in Reported
  <2>1. report \in Seq(Reported) /\ cursor \in Nat /\ cursor # 0
    BY <1>1 DEF ConnInv, ReportTyped, TypeOK, ListsInPlace
  <2>2. cursor \in 1..Len(report)
    BY <1>1, <2>1, LenProperties
  <2> QED
    BY <2>1, <2>2, ElementOfSeq
<1>3. \A c \in Conns : EndsStream(e, c) => /\ streams[<<c, e.dev>>] \in Nat \ {0}
                                           /\ c \in served
  <2>1. SUFFICES ASSUME NEW c \in Conns, EndsStream(e, c)
                 PROVE  streams[<<c, e.dev>>] \in Nat \ {0} /\ c \in served
    OBVIOUS
  <2>2. e.dev \in Devices /\ streams[<<c, e.dev>>] > 0
    BY <1>2, <2>1 DEF Reported, EndsStream, streamEnabled
  <2>3. streams[<<c, e.dev>>] \in Nat
    BY <2>2 DEF ConnInv, TypeOK
  <2>4. c \in served
    BY <1>1, <2>2 DEF ConnInv, StreamsOfServed
  <2> QED
    BY <2>2, <2>3, <2>4
<1>4. ASSUME NEW c \in Conns
      PROVE  /\ ended[c] \in Nat /\ (ended[c] > 0 <=> EndsStream(e, c))
             /\ info[c] \in Nat /\ (info[c] > 0 <=> c \in Recipients(e))
             /\ sends[c] \in Nat /\ (sends[c] > 0 <=> ended[c] > 0 \/ info[c] > 0)
  <2>1. ended[c] \in Nat /\ (ended[c] > 0 <=> EndsStream(e, c))
    BY <1>3
  <2>2. info[c] \in Nat /\ (info[c] > 0 <=> c \in Recipients(e))
    OBVIOUS
  <2>3. sends[c] = ended[c] + info[c]
    OBVIOUS
  <2> HIDE DEF ended, info, sends
  <2> QED
    BY <2>1, <2>2, <2>3
<1>5. sends \in [Conns -> Nat]
  <2>1. \A c \in Conns : ended[c] + info[c] \in Nat
    BY <1>4
  <2> HIDE DEF ended, info
  <2> QED
    BY <2>1
<1>6. \A c \in Conns : Heard(c) = HeardBy(c, e)
  BY <1>4 DEF HeardBy
<1>7. \A c \in Conns : sends[c] = 0 => HeardBy(c, e) = client[c]
  BY <1>4 DEF HeardBy
<1>8. \A c \in Conns : c \notin served => sends[c] = 0
  BY <1>3, <1>4 DEF Recipients
<1> HIDE DEF sends, ended, info, Heard
<1>9. client' = [c \in Conns |-> IF sock'[c] = "open" THEN HeardBy(c, e) ELSE NewClient]
  BY <1>1, <1>4, <1>5, <1>6, <1>7
<1> HIDE DEF e
<1>10. /\ dpc' \in {"dispatch", "killed"}
       /\ sock' \in [Conns -> Live \cup {"free", "gone"}]
       /\ \A c \in Conns :
            /\ sock'[c] = "open" => sock[c] = "open"
            /\ sock'[c] = "free" <=> sock[c] = "free"
            /\ sock'[c] \in Live <=> sock[c] \in Live
            /\ sends[c] = 0 => sock'[c] = sock[c]
  BY <1>1, <1>5, Sent DEF ConnInv, TypeOK
<1>11. \A c \in Conns : c \notin served => sock'[c] = sock[c] /\ HeardBy(c, e) = client[c]
  BY <1>7, <1>8, <1>10
<1> QED
  BY <1>1, <1>2, <1>9, <1>10, <1>11 DEF e

\* A message about an event of the monitor keeps the type of what a client knows.
LEMMA HeardTyped ==
    ASSUME TypeOK, NEW c \in Conns, NEW e \in Reported PROVE HeardBy(c, e) \in Knowledge
<1> DEFINE k == IF EndsStream(e, c) THEN LearnDisabled(client[c], e.dev) ELSE client[c]
<1>1. k \in Knowledge
  <2>1. client[c] \in Knowledge
    BY DEF TypeOK
  <2> QED
    BY <2>1 DEF LearnDisabled, Knowledge
<1> HIDE DEF k
<1>2. Learn(k, e) \in Knowledge
  <2>1. CASE e.type \in {"DeviceAdded", "DeviceRemoved"}
    BY <1>1, <2>1 DEF Learn, Knowledge, Reported, OnDevice
  <2>2. CASE e.type \in {"MACAddressDiscovered", "MACAddressDisappeared"}
    BY <1>1, <2>2 DEF Learn, Knowledge, Reported
  <2> QED
    BY <1>1, <2>1, <2>2 DEF Learn
<1> QED
  BY <1>1, <1>2 DEF HeardBy, k

\* An event of the cycle goes out to the served connections.
LEMMA Conn_Dispatch == ConnInv /\ DispatchEvent => ConnInv'
<1> SUFFICES ASSUME ConnInv, DispatchEvent PROVE ConnInv'
  OBVIOUS
<1>1. PICK e \in Reported :
        /\ dpc' \in {"dispatch", "killed"}
        /\ sock' \in [Conns -> Live \cup {"free", "gone"}]
        /\ \A c \in Conns : /\ sock'[c] = "free" <=> sock[c] = "free"
                            /\ sock'[c] \in Live <=> sock[c] \in Live
                            /\ c \notin served => sock'[c] = sock[c]
        /\ streams' = [x \in Conns \X Devices |->
                          IF e.type = "DeviceRemoved" /\ x[2] = e.dev THEN 0 ELSE streams[x]]
        /\ \A c \in Conns : c \notin served => HeardBy(c, e) = client[c]
        /\ client' = [c \in Conns |-> IF sock'[c] = "open" THEN HeardBy(c, e) ELSE NewClient]
  BY Dispatched
<1>2. /\ dpc = "dispatch" /\ queue' = queue /\ cursor' = cursor + 1 /\ shouldRun' = shouldRun
      /\ UNCHANGED <<monitorVars, via, inbox, asked, backlog, serving, served, failing,
                     removed, spc, listeners, unread>>
  BY DEF DispatchEvent
<1>3. TypeOK /\ NoDuplicateStreams
  BY DEF ConnInv
<1>4. /\ streams' \in [Conns \X Devices -> Nat]
      /\ \A x \in Conns \X Devices :
            streams'[x] <= 1 /\ (streams'[x] > 0 => streams[x] > 0)
  BY <1>1, <1>3 DEF TypeOK, NoDuplicateStreams
<1>5. client' \in [Conns -> Knowledge]
  <2>1. NewClient \in Knowledge /\ \A c \in Conns : HeardBy(c, e) \in Knowledge
    BY <1>3, HeardTyped, NewClientTyped
  <2> QED
    BY <1>1, <1>3, <2>1 DEF TypeOK
<1>6. \A c \in Conns : c \in backlog \/ sock[c] = "free" =>
        c \notin served /\ client'[c] = client[c]
  BY <1>1, ServedApart DEF ConnInv, UnansweredKnowNothing
<1>7. cursor' \in Nat /\ cursor' > 0
  BY <1>2, <1>3 DEF TypeOK
<1> QED
  BY <1>1, <1>2, <1>4, <1>5, <1>6, <1>7, Conn_Sending

\* The keepalives.
LEMMA KeptAlive ==
    ASSUME ConnInv, EndCycle
    PROVE  /\ dpc' \in {"network", "killed"}
           /\ sock' \in [Conns -> Live \cup {"free", "gone"}]
           /\ \A c \in Conns : /\ sock'[c] = "open" => sock[c] = "open"
                               /\ sock'[c] = "free" <=> sock[c] = "free"
                               /\ sock'[c] \in Live <=> sock[c] \in Live
                               /\ c \notin served => sock'[c] = sock[c]
<1>1. PICK due \in BOOLEAN : Send([c \in Conns |-> IF due /\ c \in served THEN 1 ELSE 0], "network")
  BY DEF EndCycle
<1> DEFINE sends == [c \in Conns |-> IF due /\ c \in served THEN 1 ELSE 0]
<1>2. sends \in [Conns -> Nat] /\ \A c \in Conns : c \notin served => sends[c] = 0
  OBVIOUS
<1>3. Send(sends, "network")
  BY <1>1
<1> HIDE DEF sends
<1> QED
  BY <1>2, <1>3, Sent DEF ConnInv, TypeOK

\* The cycle is over.
LEMMA Conn_EndCycle == ConnInv /\ EndCycle => ConnInv'
<1> SUFFICES ASSUME ConnInv, EndCycle PROVE ConnInv'
  OBVIOUS
<1>1. /\ dpc = "dispatch" /\ cursor' = 0 /\ queue' = queue
      /\ UNCHANGED <<shouldRun, streams, client>>
      /\ UNCHANGED <<monitorVars, via, inbox, asked, backlog, serving, served, failing,
                     removed, spc, listeners, unread>>
  BY DEF EndCycle
<1>2. /\ streams' \in [Conns \X Devices -> Nat] /\ client' \in [Conns -> Knowledge]
      /\ \A x \in Conns \X Devices : streams'[x] <= 1
  BY <1>1 DEF ConnInv, TypeOK, NoDuplicateStreams
<1>3. \A c \in Conns : c \in backlog \/ sock[c] = "free" => c \notin served
  BY ServedApart
<1> QED
  BY <1>1, <1>2, <1>3, KeptAlive, Conn_Sending

\* Every step of the daemon, the monitor, the peers and the signal preserves it.
LEMMA Conn_Next == ConnInv /\ [Next]_vars => ConnInv'
  BY Conn_Peers, Conn_Quiet, Conn_Server, Conn_Drop, Conn_Handle, Conn_Dispatch, Conn_EndCycle
  DEF Next, DaemonStep, Over

\* The state of Daemon, of Server and of the clients has its type in every execution.
THEOREM DaemonTypes == Spec => []TypeOK
<1>1. ConnInv => TypeOK
  BY DEF ConnInv
<1> QED
  BY <1>1, Conn_Init, Conn_Next, PTL DEF Spec

\* Every connection is in one list only from its arrival until its descriptor is
\* closed: whatever accepting, failing, sweeping listeners and reaping do in between.
THEOREM DaemonConnections == Spec => []ConnectionsAccountedFor
<1>1. ConnInv => ConnectionsAccountedFor
  BY DEF ConnInv
<1> QED
  BY <1>1, Conn_Init, Conn_Next, PTL DEF Spec

\* m_lstStreams never outlives a connection.
THEOREM DaemonStreams == Spec => []StreamsOfServed
<1>1. ConnInv => StreamsOfServed
  BY DEF ConnInv
<1> QED
  BY <1>1, Conn_Init, Conn_Next, PTL DEF Spec

\* m_lstStreams holds no pair twice, although enabling tests another device.
THEOREM DaemonNoDuplicates == Spec => []NoDuplicateStreams
<1>1. ConnInv => NoDuplicateStreams
  BY DEF ConnInv
<1> QED
  BY <1>1, Conn_Init, Conn_Next, PTL DEF Spec

\* Requests of a connection reaped in the same cycle are not in the queue.
THEOREM DaemonQueue == Spec => []QueuedFromServed
<1>1. ConnInv => QueuedFromServed
  BY DEF ConnInv
<1> QED
  BY <1>1, Conn_Init, Conn_Next, PTL DEF Spec

=============================================================================
