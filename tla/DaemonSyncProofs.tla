-------------------------- MODULE DaemonSyncProofs --------------------------
(***************************************************************************)
(* Proofs that clients stay in step with the monitor: what one was told,   *)
(* in answers and in events that are handed out after them, adds up to the *)
(* devices and the addresses there are.                                    *)
(***************************************************************************)
EXTENDS DaemonProofs

(* The inductive invariant, on top of ConnInv.                             *)

\* The first event that clients have still to be told of.
Untold == IF dpc = "dispatch" THEN cursor
          ELSE IF AtRest THEN Len(report) + 1 ELSE 1

\* The last event about a device, or about an address on one, is right.
LastDeviceEvent ==
    \A i \in 1..Len(report), d \in Devices :
        OfDevice(report[i], d) /\ (\A j \in (i + 1)..Len(report) : ~OfDevice(report[j], d))
            => (report[i].type = "DeviceAdded" <=> d \in known)

LastPresenceEvent ==
    \A i \in 1..Len(report), m \in MACs, d \in Devices :
        OfPresence(report[i], m, d)
          /\ (\A j \in (i + 1)..Len(report) : ~OfPresence(report[j], m, d))
            => (report[i].type = "MACAddressDiscovered" <=> <<m, d>> \in present)

\* What clients have not been told of is still to come.
DevicesFollow ==
    \A c \in Conns, d \in Devices :
        /\ sock[c] = "open" /\ client[c].hasDevices
        /\ \A i \in 1..Len(report) : i >= Untold => ~OfDevice(report[i], d)
        => (d \in client[c].devices <=> d \in known)

ViewFollows ==
    \A c \in Conns, m \in MACs, d \in Devices :
        /\ sock[c] = "open" /\ SwitchedOwnOnly(c) /\ d \in client[c].synced
        /\ \A i \in 1..Len(report) : i >= Untold => ~OfPresence(report[i], m, d)
        => (<<m, d>> \in client[c].view <=> <<m, d>> \in present)

\* A client that counts on a device's events has its stream, unless it has switched off
\* another device than the one it connected by.
SyncedHaveStreams ==
    \A c \in Conns : sock[c] = "open" /\ SwitchedOwnOnly(c) =>
        \A d \in client[c].synced : streams[<<c, d>>] > 0

SyncInv == /\ LastDeviceEvent /\ LastPresenceEvent /\ DevicesFollow /\ ViewFollows
           /\ SyncedHaveStreams

-----------------------------------------------------------------------------
(* The steps that tell clients nothing.                                    *)

\* Clients know nothing to begin with.
LEMMA Sync_Init == Init => SyncInv
<1> SUFFICES ASSUME Init PROVE SyncInv
  OBVIOUS
<1>1. report = <<>> /\ Len(report) = 0 /\ \A c \in Conns : sock[c] = "free"
  BY DEF Init, MonitorInit, ServerInit
<1> QED
  BY <1>1 DEF SyncInv, LastDeviceEvent, LastPresenceEvent, DevicesFollow, ViewFollows,
              SyncedHaveStreams

\* The events stay as they are, none is taken for told, and an open connection's client
\* and streams are either unchanged or new.
LEMMA Sync_Kept ==
    ASSUME SyncInv, UNCHANGED monitorVars,
           client \in [Conns -> Knowledge],
           \A c \in Conns : sock'[c] = "open" =>
              \/ client'[c] = NewClient
              \/ /\ sock[c] = "open" /\ client'[c] = client[c] /\ via'[c] = via[c]
                 /\ \A d \in Devices : streams'[<<c, d>>] = streams[<<c, d>>],
           \A i \in 1..Len(report) : i >= Untold => i >= Untold'
    PROVE  SyncInv'
<1>1. LastDeviceEvent' /\ LastPresenceEvent'
  BY DEF SyncInv, LastDeviceEvent, LastPresenceEvent, monitorVars
<1>2. NewClient.hasDevices = FALSE /\ NewClient.synced = {}
  BY DEF NewClient
<1>3. \A c \in Conns : client[c].synced \subseteq Devices
  BY DEF Knowledge
<1>4. UNCHANGED <<report, known, present>>
  BY DEF monitorVars
<1>5. DevicesFollow'
  <2> SUFFICES ASSUME NEW c \in Conns, NEW d \in Devices,
                      sock'[c] = "open", client'[c].hasDevices,
                      \A i \in 1..Len(report) : i >= Untold' => ~OfDevice(report[i], d)
               PROVE  d \in client'[c].devices <=> d \in known
    BY <1>4 DEF DevicesFollow
  <2>1. sock[c] = "open" /\ client'[c] = client[c]
    BY <1>2
  <2>2. \A i \in 1..Len(report) : i >= Untold => ~OfDevice(report[i], d)
    OBVIOUS
  <2> QED
    BY <2>1, <2>2 DEF SyncInv, DevicesFollow
<1>6. ViewFollows'
  <2> SUFFICES ASSUME NEW c \in Conns, NEW m \in MACs, NEW d \in Devices,
                      sock'[c] = "open", SwitchedOwnOnly(c)', d \in client'[c].synced,
                      \A i \in 1..Len(report) : i >= Untold' => ~OfPresence(report[i], m, d)
               PROVE  <<m, d>> \in client'[c].view <=> <<m, d>> \in present
    BY <1>4 DEF ViewFollows
  <2>1. sock[c] = "open" /\ client'[c] = client[c] /\ SwitchedOwnOnly(c)
    BY <1>2 DEF SwitchedOwnOnly
  <2>2. \A i \in 1..Len(report) : i >= Untold => ~OfPresence(report[i], m, d)
    OBVIOUS
  <2> QED
    BY <2>1, <2>2 DEF SyncInv, ViewFollows
<1>7. SyncedHaveStreams'
  BY <1>2, <1>3 DEF SyncInv, SyncedHaveStreams, SwitchedOwnOnly
<1> QED
  BY <1>1, <1>5, <1>6, <1>7 DEF SyncInv

\* Peers connect, ask and leave: what clients know stays, or is forgotten whole.
LEMMA Sync_Peers == ConnInv /\ SyncInv /\ PeerStep => SyncInv'
<1> SUFFICES ASSUME ConnInv, SyncInv, PeerStep PROVE SyncInv'
  OBVIOUS
<1>1. UNCHANGED <<monitorVars, daemonVars>> /\ Peers
  BY DEF PeerStep
<1>2. \A c \in Conns : /\ sock'[c] = "open" => sock[c] \in {"open", "free"}
                       /\ sock[c] = "open" => via'[c] = via[c]
  BY <1>1 DEF Peers, Connect, SendRequest, Disconnect, ConnInv, TypeOK, ServerTypes
<1>3. \A c \in Conns : sock[c] = "free" => client'[c] = NewClient
  BY <1>1 DEF ConnInv, UnansweredKnowNothing, daemonVars
<1>4. Untold' = Untold
  BY <1>1 DEF Untold, AtRest, monitorVars, daemonVars
<1>5. client \in [Conns -> Knowledge] /\ client' = client /\ streams' = streams
  BY <1>1 DEF ConnInv, TypeOK, daemonVars
<1>6. ASSUME NEW c \in Conns, sock'[c] = "open"
      PROVE  \/ client'[c] = NewClient
             \/ /\ sock[c] = "open" /\ client'[c] = client[c] /\ via'[c] = via[c]
                /\ \A d \in Devices : streams'[<<c, d>>] = streams[<<c, d>>]
  <2>1. CASE sock[c] = "free"
    BY <1>3, <2>1
  <2>2. CASE sock[c] = "open"
    <3>1. via'[c] = via[c] /\ client'[c] = client[c]
      BY <1>2, <1>5, <2>2
    <3>2. \A d \in Devices : streams'[<<c, d>>] = streams[<<c, d>>]
      BY <1>5
    <3> QED
      BY <2>2, <3>1, <3>2
  <2> QED
    BY <1>2, <1>6, <2>1, <2>2
<1> QED
  BY <1>1, <1>4, <1>5, <1>6, Sync_Kept

\* The daemon moves on without a word.
LEMMA Sync_Quiet ==
    ConnInv /\ SyncInv /\ (Signal \/ SignalInServer \/ ServerStep \/ ServerStops \/ EndHandle
                           \/ UNCHANGED vars)
      => SyncInv'
<1> SUFFICES ASSUME ConnInv, SyncInv,
                    Signal \/ SignalInServer \/ ServerStep \/ ServerStops \/ EndHandle
                       \/ UNCHANGED vars
             PROVE  SyncInv'
  OBVIOUS
<1>1. UNCHANGED <<monitorVars, streams, client>>
  BY DEF Signal, SignalInServer, ServerStep, ServerStops, EndHandle, vars, daemonVars
<1>0. via' = via
  BY DEF Signal, SignalInServer, ServerStep, ServerStops, EndHandle, vars, serverVars,
         BeginServer, InServer, Accept, SweepServings, Receive, Reap, peerVars
<1>2. \A c \in Conns : sock'[c] = "open" => sock[c] = "open"
  <2>1. CASE ServerStep /\ ~UNCHANGED sock
    <3>1. (\E v \in Servings : Accept(v)) \/ SweepServings
      BY <2>1 DEF ServerStep, BeginServer, InServer, Receive, Reap, peerVars
    <3>2. ASSUME NEW v \in Servings, Accept(v) PROVE \A c \in Conns : sock'[c] = "open" => sock[c] = "open"
      <4>1. CASE AcceptOne(v)
        <5>1. PICK c \in backlog : \E s \in AfterSends(sock[c], 1) : sock' = [sock EXCEPT ![c] = s]
          BY <4>1 DEF AcceptOne
        <5>2. sock[c] \in {"open", "closed", "reset"}
          BY DEF ConnInv, BacklogUnsent
        <5>3. \A s \in AfterSends(sock[c], 1) : s = "open" => sock[c] = "open"
          BY <5>2 DEF AfterSends
        <5> QED
          BY <5>1, <5>3 DEF ConnInv, TypeOK, ServerTypes
      <4> QED
        BY <3>2, <4>1 DEF Accept, AcceptNone, AcceptFails
    <3>3. ASSUME SweepServings PROVE \A c \in Conns : sock'[c] = "open" => sock[c] = "open"
      <4>1. \E lost : sock' = [c \in Conns |-> IF c \in lost THEN "gone" ELSE sock[c]]
        BY <3>3 DEF SweepServings
      <4> QED
        BY <4>1
    <3> QED
      BY <3>1, <3>2, <3>3
  <2>2. CASE UNCHANGED sock
    BY <2>2
  <2> QED
    BY <2>1, <2>2 DEF Signal, SignalInServer, ServerStops, EndHandle, vars, serverVars
<1>3. \A i \in 1..Len(report) : i >= Untold => i >= Untold'
  <2>1. CASE Signal \/ UNCHANGED vars
    BY <2>1 DEF Signal, vars, daemonVars, monitorVars, Untold, AtRest
  <2>2. CASE SignalInServer \/ ServerStep \/ ServerStops
    BY <2>2 DEF SignalInServer, ServerStep, ServerStops, Untold, AtRest
  <2>3. CASE EndHandle
    BY <2>3 DEF EndHandle, Untold, AtRest
  <2> QED
    BY <2>1, <2>2, <2>3
<1>4. client \in [Conns -> Knowledge]
  BY DEF ConnInv, TypeOK
<1> QED
  BY <1>0, <1>1, <1>2, <1>3, <1>4, Sync_Kept

\* A dropped connection has nobody to tell.
LEMMA Sync_Drop == ConnInv /\ SyncInv /\ DropRemoved => SyncInv'
<1> SUFFICES ASSUME ConnInv, SyncInv, DropRemoved PROVE SyncInv'
  OBVIOUS
<1>1. /\ UNCHANGED <<monitorVars, via>> /\ dpc = "drop" /\ dpc' = "handle"
      /\ streams' = [x \in Conns \X Devices |-> IF x[1] \in removed THEN 0 ELSE streams[x]]
      /\ sock' = [c \in Conns |-> IF c \in removed THEN "gone" ELSE sock[c]]
      /\ client' = [c \in Conns |-> IF c \in removed THEN NewClient ELSE client[c]]
  BY DEF DropRemoved
<1>2. Untold' = Untold
  BY <1>1 DEF Untold, AtRest
<1>3. client \in [Conns -> Knowledge]
  BY DEF ConnInv, TypeOK
<1>4. ASSUME NEW c \in Conns, sock'[c] = "open"
      PROVE  /\ sock[c] = "open" /\ client'[c] = client[c] /\ via'[c] = via[c]
             /\ \A d \in Devices : streams'[<<c, d>>] = streams[<<c, d>>]
  BY <1>1, <1>4
<1> QED
  BY <1>1, <1>2, <1>3, <1>4, Sync_Kept

\* The end of a cycle, when every event has been told.
LEMMA Sync_EndCycle == ConnInv /\ SyncInv /\ EndCycle => SyncInv'
<1> SUFFICES ASSUME ConnInv, SyncInv, EndCycle PROVE SyncInv'
  OBVIOUS
<1>1. /\ UNCHANGED <<monitorVars, via, streams, client>>
      /\ dpc = "dispatch" /\ cursor > Len(report)
  BY DEF EndCycle
<1>2. \A c \in Conns : sock'[c] = "open" => sock[c] = "open"
  BY KeptAlive
<1>3. \A i \in 1..Len(report) : ~(i >= Untold)
  <2>1. Untold = cursor /\ cursor \in Nat /\ Len(report) \in Nat
    BY <1>1, LenProperties DEF Untold, ConnInv, TypeOK, ReportTyped
  <2> QED
    BY <1>1, <2>1
<1>4. client \in [Conns -> Knowledge]
  BY DEF ConnInv, TypeOK
<1> QED
  BY <1>1, <1>2, <1>3, <1>4, Sync_Kept

-----------------------------------------------------------------------------
(* The monitor's steps.                                                    *)

\* The tables change, and the report with them.
LEMMA Sync_Network == ConnInv /\ SyncInv /\ NetworkStep => SyncInv'
<1> SUFFICES ASSUME ConnInv, SyncInv, NetworkStep PROVE SyncInv'
  OBVIOUS
<1>1. /\ UNCHANGED <<serverVars, streams, client>> /\ dpc = "network"
      /\ Start \/ Happening \/ Progress
      /\ dpc' \in {"network", "server", "exited"}
      /\ dpc' = "network" <=> stage' # "idle"
  BY DEF NetworkStep
<1>2. UNCHANGED <<sock, via, streams, client>>
  BY <1>1 DEF serverVars
<1>3. report \in Seq(Reported) /\ Len(report) \in Nat
  BY LenProperties DEF ConnInv, ReportTyped
<1>4. Untold' = 1
  BY <1>1 DEF Untold, AtRest
<1>5. SyncedHaveStreams'
  BY <1>2 DEF SyncInv, SyncedHaveStreams, SwitchedOwnOnly
<1>6. CASE Start
  <2>1. /\ stage = "idle" /\ report' = <<>> /\ Len(report') = 0
        /\ known' = known /\ present' = present
    BY <1>6 DEF Start
  <2>2. \A i \in 1..Len(report) : ~(i >= Untold)
    BY <1>1, <1>3, <2>1 DEF Untold, AtRest
  <2>3. LastDeviceEvent' /\ LastPresenceEvent'
    BY <2>1 DEF LastDeviceEvent, LastPresenceEvent
  <2>4. DevicesFollow' /\ ViewFollows'
    BY <1>2, <2>1, <2>2 DEF SyncInv, DevicesFollow, ViewFollows, SwitchedOwnOnly
  <2> QED
    BY <1>5, <2>3, <2>4 DEF SyncInv
<1>7. CASE stage # "idle" /\ Accounted
  <2>1. Untold = 1
    BY <1>1, <1>7 DEF Untold, AtRest
  <2>2. /\ report' \in Seq(Reported) /\ Len(report') \in Nat /\ Len(report) <= Len(report')
        /\ \A i \in 1..Len(report) : report'[i] = report[i]
    BY <1>7 DEF Accounted
  <2>3. \A i \in 1..Len(report') : i > Len(report) =>
          /\ \A d \in Devices : OfDevice(report'[i], d) =>
                (report'[i].type = "DeviceAdded" <=> d \in known')
          /\ \A m \in MACs, d \in Devices : OfPresence(report'[i], m, d) =>
                (report'[i].type = "MACAddressDiscovered" <=> <<m, d>> \in present')
    BY <1>7 DEF Accounted
  <2>4. \A d \in Devices : ~(d \in known' <=> d \in known) =>
          \E i \in 1..Len(report') : i > Len(report) /\ OfDevice(report'[i], d)
    BY <1>7 DEF Accounted
  <2>5. \A m \in MACs, d \in Devices : ~(<<m, d>> \in present' <=> <<m, d>> \in present) =>
          \E i \in 1..Len(report') : i > Len(report) /\ OfPresence(report'[i], m, d)
    BY <1>7 DEF Accounted
  <2>6. LastDeviceEvent'
    <3> SUFFICES ASSUME NEW i \in 1..Len(report'), NEW d \in Devices, OfDevice(report'[i], d),
                        \A j \in (i + 1)..Len(report') : ~OfDevice(report'[j], d)
                 PROVE  report'[i].type = "DeviceAdded" <=> d \in known'
      BY DEF LastDeviceEvent
    <3>1. CASE i > Len(report)
      BY <2>3, <3>1
    <3>2. CASE i <= Len(report)
      <4>1. /\ i \in 1..Len(report) /\ OfDevice(report[i], d)
            /\ \A j \in (i + 1)..Len(report) : ~OfDevice(report[j], d)
        BY <1>3, <2>2, <3>2
      <4>2. report[i].type = "DeviceAdded" <=> d \in known
        BY <4>1 DEF SyncInv, LastDeviceEvent
      <4>3. d \in known' <=> d \in known
        BY <1>3, <2>2, <2>4, <3>2
      <4> QED
        BY <2>2, <4>1, <4>2, <4>3
    <3> QED
      BY <1>3, <3>1, <3>2
  <2>7. LastPresenceEvent'
    <3> SUFFICES ASSUME NEW i \in 1..Len(report'), NEW m \in MACs, NEW d \in Devices,
                        OfPresence(report'[i], m, d),
                        \A j \in (i + 1)..Len(report') : ~OfPresence(report'[j], m, d)
                 PROVE  report'[i].type = "MACAddressDiscovered" <=> <<m, d>> \in present'
      BY DEF LastPresenceEvent
    <3>1. CASE i > Len(report)
      BY <2>3, <3>1
    <3>2. CASE i <= Len(report)
      <4>1. /\ i \in 1..Len(report) /\ OfPresence(report[i], m, d)
            /\ \A j \in (i + 1)..Len(report) : ~OfPresence(report[j], m, d)
        BY <1>3, <2>2, <3>2
      <4>2. report[i].type = "MACAddressDiscovered" <=> <<m, d>> \in present
        BY <4>1 DEF SyncInv, LastPresenceEvent
      <4>3. <<m, d>> \in present' <=> <<m, d>> \in present
        BY <1>3, <2>2, <2>5, <3>2
      <4> QED
        BY <2>2, <4>1, <4>2, <4>3
    <3> QED
      BY <1>3, <3>1, <3>2
  <2>8. DevicesFollow'
    <3> SUFFICES ASSUME NEW c \in Conns, NEW d \in Devices,
                        sock[c] = "open", client[c].hasDevices,
                        \A i \in 1..Len(report') : ~OfDevice(report'[i], d)
                 PROVE  d \in client[c].devices <=> d \in known'
      BY <1>2, <1>4 DEF DevicesFollow
    <3>1. \A i \in 1..Len(report) : ~OfDevice(report[i], d)
      BY <1>3, <2>2
    <3>2. d \in client[c].devices <=> d \in known
      BY <3>1 DEF SyncInv, DevicesFollow
    <3> QED
      BY <2>4, <3>2
  <2>9. ViewFollows'
    <3> SUFFICES ASSUME NEW c \in Conns, NEW m \in MACs, NEW d \in Devices,
                        sock[c] = "open", SwitchedOwnOnly(c), d \in client[c].synced,
                        \A i \in 1..Len(report') : ~OfPresence(report'[i], m, d)
                 PROVE  <<m, d>> \in client[c].view <=> <<m, d>> \in present'
      BY <1>2, <1>4 DEF ViewFollows, SwitchedOwnOnly
    <3>1. \A i \in 1..Len(report) : ~OfPresence(report[i], m, d)
      BY <1>3, <2>2
    <3>2. <<m, d>> \in client[c].view <=> <<m, d>> \in present
      BY <3>1 DEF SyncInv, ViewFollows
    <3> QED
      BY <2>5, <3>2
  <2> QED
    BY <1>5, <2>6, <2>7, <2>8, <2>9 DEF SyncInv
<1>8. MonitorTypes /\ ReportTyped
  BY DEF ConnInv, TypeOK
<1> QED
  BY <1>1, <1>6, <1>7, <1>8, MonitorSteps

-----------------------------------------------------------------------------
(* Answers.                                                                *)

\* An answer tells the truth or nothing about devices and addresses, and keeps in step
\* only devices whose stream stays on, if it is the client's own device that is switched.
LEMMA AnswerTells ==
    ASSUME ConnInv, SyncInv, NEW c \in Conns, NEW r \in Requests, sock[c] = "open"
    PROVE  LET k == client[c]
               a == Answer(c, r)
           IN  /\ a.devices = known \/ (a.devices = k.devices /\ a.hasDevices = k.hasDevices)
               /\ a.view = present \/ (a.view = k.view /\ a.synced \subseteq k.synced)
               /\ k.off \subseteq a.off
               /\ a.off \subseteq {ServingDevice[via[c]]} =>
                    \A d \in a.synced : d \in Devices /\ StreamsAfter(c, r)[<<c, d>>] > 0
<1> DEFINE k == client[c]
           a == Answer(c, r)
           T == StreamsAfter(c, r)
<1>1. k \in Knowledge /\ TypeOK /\ NoDuplicateStreams
  BY DEF ConnInv, TypeOK
<1>2. a.devices = known \/ (a.devices = k.devices /\ a.hasDevices = k.hasDevices)
  BY <1>1 DEF Answer, Knowledge
<1>3. a.view = present \/ (a.view = k.view /\ a.synced \subseteq k.synced)
  BY <1>1 DEF Answer, Knowledge
<1>4. k.off \subseteq a.off
  BY <1>1 DEF Answer, Knowledge
<1>5. ASSUME a.off \subseteq {ServingDevice[via[c]]}, NEW d \in a.synced
      PROVE  d \in Devices /\ T[<<c, d>>] > 0
  <2>1. /\ d \in Devices
        /\ streams[<<c, d>>] > 0
        /\ r.op = "disable-stream" => d # ServedOn(c)
    <3>1. CASE r.op = "known-mac-addresses"
      BY <1>1, <1>5, <3>1 DEF Answer, Knowledge, streamEnabled
    <3>2. CASE r.op # "known-mac-addresses"
      <4>1. d \in k.synced /\ d \in Devices
        BY <1>1, <1>5, <3>2 DEF Answer, Knowledge
      <4>2. r.op = "disable-stream" => r.dev \in a.off /\ d # r.dev
        BY <1>1, <1>5 DEF Answer, Knowledge
      <4>3. ServedOn(c) \in {ServingDevice[via[c]], None}
        BY DEF ServedOn
      <4>4. r.op = "disable-stream" => d # ServedOn(c)
        BY <1>5, <4>1, <4>2, <4>3, MonitorAssumption
      <4>5. SwitchedOwnOnly(c)
        BY <1>4, <1>5 DEF SwitchedOwnOnly
      <4> QED
        BY <4>1, <4>4, <4>5 DEF SyncInv, SyncedHaveStreams
    <3> QED
      BY <3>1, <3>2
  <2>2. <<c, d>> \in Conns \X Devices /\ T \in [Conns \X Devices -> Nat]
    BY <1>1, <2>1, StreamsAfterTyped
  <2>3. T[<<c, d>>] # 0
    BY <1>1, <2>1, <2>2, StreamsAfterTyped
  <2>4. T[<<c, d>>] \in Nat
    BY <2>2
  <2> HIDE DEF T, a
  <2> QED
    BY <2>1, <2>3, <2>4
<1> QED
  BY <1>2, <1>3, <1>4, <1>5

\* An answer tells a client what the tables hold, ahead of the events still to be sent.
LEMMA Sync_Handle == ConnInv /\ SyncInv /\ HandleRequest => SyncInv'
<1> SUFFICES ASSUME ConnInv, SyncInv, HandleRequest PROVE SyncInv'
  OBVIOUS
<1>1. PICK c \in served, r \in Requests :
        /\ c \in Conns
        /\ dpc' \in {"handle", "killed"}
        /\ \A x \in Conns : sock'[x] = "open" => sock[x] = "open"
        /\ streams' = StreamsAfter(c, r)
        /\ client' = [x \in Conns |-> IF sock'[x] # "open" THEN NewClient
                                      ELSE IF x = c THEN Answer(x, r) ELSE client[x]]
  BY Handled
<1>2. dpc = "handle" /\ UNCHANGED <<stage, known, present, report, via>>
  BY DEF HandleRequest, monitorVars
<1>3. Untold = 1 /\ Untold' = 1
  BY <1>1, <1>2 DEF Untold, AtRest
<1>4. \A x \in Conns : x # c /\ sock'[x] = "open" => client'[x] = client[x]
  BY <1>1
<1>5. ASSUME sock'[c] = "open"
      PROVE  /\ client'[c].devices = known
                  \/ (client'[c].devices = client[c].devices
                       /\ client'[c].hasDevices = client[c].hasDevices)
             /\ client'[c].view = present
                  \/ (client'[c].view = client[c].view
                       /\ client'[c].synced \subseteq client[c].synced)
             /\ client[c].off \subseteq client'[c].off
             /\ client'[c].off \subseteq {ServingDevice[via[c]]} =>
                  \A d \in client'[c].synced : d \in Devices /\ streams'[<<c, d>>] > 0
  <2>1. client'[c] = Answer(c, r) /\ sock[c] = "open"
    BY <1>1, <1>5
  <2> QED
    BY <1>1, <2>1, AnswerTells
<1>6. LastDeviceEvent' /\ LastPresenceEvent'
  BY <1>2 DEF SyncInv, LastDeviceEvent, LastPresenceEvent
<1>7. DevicesFollow'
  BY <1>1, <1>2, <1>3, <1>4, <1>5 DEF SyncInv, DevicesFollow
<1>8. \A x \in Conns : sock'[x] = "open" /\ SwitchedOwnOnly(x)' => SwitchedOwnOnly(x)
  BY <1>2, <1>4, <1>5 DEF SwitchedOwnOnly
<1>9. ViewFollows'
  BY <1>1, <1>2, <1>3, <1>4, <1>5, <1>8 DEF SyncInv, ViewFollows
<1>10. SyncedHaveStreams'
  <2>1. SUFFICES ASSUME NEW x \in Conns, sock'[x] = "open", SwitchedOwnOnly(x)',
                        NEW d \in client'[x].synced
                 PROVE  streams'[<<x, d>>] > 0
    BY DEF SyncedHaveStreams
  <2>2. CASE x = c
    BY <1>2, <1>5, <2>1, <2>2 DEF SwitchedOwnOnly
  <2>3. CASE x # c
    <3>1. d \in Devices /\ streams[<<x, d>>] > 0
      BY <1>1, <1>4, <1>8, <2>1, <2>3 DEF ConnInv, TypeOK, Knowledge, SyncInv, SyncedHaveStreams
    <3>2. TypeOK /\ NoDuplicateStreams
      BY DEF ConnInv
    <3>3. streams' \in [Conns \X Devices -> Nat] /\ <<x, d>> \in Conns \X Devices
      BY <1>1, <3>1, <3>2, StreamsAfterTyped
    <3>4. streams'[<<x, d>>] # 0
      BY <1>1, <2>3, <3>1, <3>2, <3>3, StreamsAfterTyped
    <3> QED
      BY <3>3, <3>4
  <2> QED
    BY <2>2, <2>3
<1> QED
  BY <1>6, <1>7, <1>9, <1>10 DEF SyncInv

-----------------------------------------------------------------------------
(* Events.                                                                 *)

\* What hearing of an event does to what a client knows of one device or address.
LEMMA HeardTells ==
    ASSUME ConnInv, SyncInv, NEW c \in Conns, sock[c] = "open", NEW e \in Reported
    PROVE  LET k == client[c]
               h == HeardBy(c, e)
           IN  /\ h.hasDevices = k.hasDevices /\ h.synced \subseteq k.synced
               /\ h.off = k.off
               /\ SwitchedOwnOnly(c) /\ e.type = "DeviceRemoved" => e.dev \notin h.synced
               /\ \A d \in Devices :
                    /\ ~OfDevice(e, d) => (d \in h.devices <=> d \in k.devices)
                    /\ OfDevice(e, d) /\ c \in served =>
                          (d \in h.devices <=> e.type = "DeviceAdded")
               /\ SwitchedOwnOnly(c) => \A m \in MACs, d \in h.synced :
                    /\ ~OfPresence(e, m, d) => (<<m, d>> \in h.view <=> <<m, d>> \in k.view)
                    /\ OfPresence(e, m, d) /\ c \in Recipients(e) =>
                          (<<m, d>> \in h.view <=> e.type = "MACAddressDiscovered")
<1> DEFINE k == client[c]
           j == IF EndsStream(e, c) THEN LearnDisabled(k, e.dev) ELSE k
           h == HeardBy(c, e)
<1>1. k \in Knowledge
  BY DEF ConnInv, TypeOK
<1>2. /\ j \in Knowledge /\ j.hasDevices = k.hasDevices /\ j.devices = k.devices
      /\ j.view = k.view /\ j.synced \subseteq k.synced /\ j.off = k.off
  BY <1>1 DEF LearnDisabled, Knowledge
<1>3. SwitchedOwnOnly(c) /\ e.type = "DeviceRemoved" => e.dev \notin j.synced
  <2>1. SUFFICES ASSUME SwitchedOwnOnly(c), e.type = "DeviceRemoved", e.dev \in j.synced
                 PROVE  FALSE
    OBVIOUS
  <2>2. streams[<<c, e.dev>>] > 0 /\ e.dev \in Devices
    BY <1>1, <1>2, <2>1 DEF Knowledge, SyncInv, SyncedHaveStreams
  <2>3. EndsStream(e, c)
    BY <2>1, <2>2, MonitorAssumption DEF EndsStream, streamEnabled
  <2> QED
    BY <1>1, <2>1, <2>3 DEF LearnDisabled, Knowledge
<1>4. h = IF c \in Recipients(e) THEN Learn(j, e) ELSE j
  BY DEF HeardBy
<1>5. e.type \notin MACEventTypes /\ c \in served => c \in Recipients(e)
  BY DEF Recipients
<1> HIDE DEF h, j, k
<1>6. h.hasDevices = k.hasDevices /\ h.synced = j.synced /\ h.off = k.off
  BY <1>2, <1>4 DEF Learn, Knowledge
<1>7. ASSUME NEW d \in Devices
      PROVE  /\ ~OfDevice(e, d) => (d \in h.devices <=> d \in k.devices)
             /\ OfDevice(e, d) /\ c \in served => (d \in h.devices <=> e.type = "DeviceAdded")
  BY <1>2, <1>4, <1>5 DEF Learn, Knowledge, OfDevice, MACEventTypes
<1>8. ASSUME SwitchedOwnOnly(c), NEW m \in MACs, NEW d \in h.synced
      PROVE  /\ ~OfPresence(e, m, d) => (<<m, d>> \in h.view <=> <<m, d>> \in k.view)
             /\ OfPresence(e, m, d) /\ c \in Recipients(e) =>
                   (<<m, d>> \in h.view <=> e.type = "MACAddressDiscovered")
  <2>1. CASE e.type = "DeviceRemoved"
    <3>1. d # e.dev
      BY <1>3, <1>6, <1>8, <2>1
    <3>2. ~OfPresence(e, m, d)
      BY <2>1 DEF OfPresence
    <3>3. h.view = k.view \/ h.view = k.view \ OnDevice(k.view, e.dev)
      BY <1>2, <1>4, <2>1 DEF Learn, Knowledge
    <3>4. <<m, d>> \notin OnDevice(k.view, e.dev)
      BY <3>1 DEF OnDevice
    <3> QED
      BY <3>2, <3>3, <3>4
  <2>2. CASE e.type \in {"MACAddressDiscovered", "MACAddressDisappeared"}
    <3>1. \/ h.view = k.view /\ c \notin Recipients(e)
          \/ h.view = k.view \cup {<<e.mac, e.dev>>} /\ e.type = "MACAddressDiscovered"
          \/ h.view = k.view \ {<<e.mac, e.dev>>} /\ e.type = "MACAddressDisappeared"
      BY <1>2, <1>4, <2>2 DEF Learn, Knowledge
    <3>2. OfPresence(e, m, d) <=> <<m, d>> = <<e.mac, e.dev>>
      BY <2>2 DEF OfPresence
    <3> QED
      BY <2>2, <3>1, <3>2
  <2>3. CASE e.type \notin {"DeviceRemoved", "MACAddressDiscovered", "MACAddressDisappeared"}
    <3>1. h.view = k.view
      BY <1>2, <1>4, <2>3 DEF Learn, Knowledge
    <3> QED
      BY <2>3, <3>1 DEF OfPresence
  <2> QED
    BY <2>1, <2>2, <2>3
<1> QED
  BY <1>2, <1>3, <1>6, <1>7, <1>8 DEF h, k

\* An event goes out, and the clients that hear it follow.
LEMMA Sync_Dispatch == ConnInv /\ SyncInv /\ DispatchEvent => SyncInv'
<1> SUFFICES ASSUME ConnInv, SyncInv, DispatchEvent PROVE SyncInv'
  OBVIOUS
<1>1. PICK e \in Reported :
        /\ cursor \in 1..Len(report) /\ e = report[cursor]
        /\ dpc' \in {"dispatch", "killed"}
        /\ \A c \in Conns : sock'[c] = "open" => sock[c] = "open"
        /\ streams' = [x \in Conns \X Devices |->
                          IF e.type = "DeviceRemoved" /\ x[2] = e.dev THEN 0 ELSE streams[x]]
        /\ client' = [c \in Conns |-> IF sock'[c] = "open" THEN HeardBy(c, e) ELSE NewClient]
  BY Dispatched
<1>2. dpc = "dispatch" /\ cursor' = cursor + 1 /\ UNCHANGED <<stage, known, present, report, via>>
  BY DEF DispatchEvent, monitorVars
<1>3. Len(report) \in Nat /\ Untold = cursor /\ cursor \in Nat
  BY <1>1, <1>2, LenProperties DEF Untold, ConnInv, ReportTyped, TypeOK
<1>4. \A i \in 1..Len(report) : i > cursor => i >= Untold'
  BY <1>1, <1>2, <1>3 DEF Untold, AtRest
<1>5. removed = {}
  BY <1>2 DEF ConnInv, ListsInPlace
<1>6. \A c \in Conns : sock[c] = "open" /\ client[c].hasDevices => c \in served
  <2>1. \A c \in Conns : sock[c] = "open" => c \in backlog \cup served
    BY <1>5 DEF ConnInv, ConnectionsAccountedFor, Live, Established
  <2>2. \A c \in backlog : c \in Conns => ~client[c].hasDevices
    BY DEF ConnInv, UnansweredKnowNothing, NewClient
  <2> QED
    BY <2>1, <2>2
<1>7. ASSUME NEW c \in Conns, sock[c] = "open", SwitchedOwnOnly(c), NEW m \in MACs,
             NEW d \in client[c].synced, OfPresence(e, m, d)
      PROVE  c \in Recipients(e)
  <2>1. d \in Devices /\ streams[<<c, d>>] > 0
    BY <1>7 DEF ConnInv, TypeOK, Knowledge, SyncInv, SyncedHaveStreams
  <2>2. c \in served
    BY <1>2, <2>1 DEF ConnInv, StreamsOfServed
  <2> QED
    BY <1>7, <2>1, <2>2, MonitorAssumption DEF Recipients, streamEnabled, OfPresence
<1>8. LastDeviceEvent' /\ LastPresenceEvent'
  BY <1>2 DEF SyncInv, LastDeviceEvent, LastPresenceEvent
<1>0. ASSUME NEW c \in Conns, sock'[c] = "open", SwitchedOwnOnly(c)'
      PROVE  SwitchedOwnOnly(c)
  BY <1>0, <1>1, <1>2, HeardTells DEF SwitchedOwnOnly
<1>9. DevicesFollow'
  <2> SUFFICES ASSUME NEW c \in Conns, NEW d \in Devices,
                      sock[c] = "open", HeardBy(c, e).hasDevices,
                      \A i \in 1..Len(report) : i >= Untold' => ~OfDevice(report[i], d)
               PROVE  d \in HeardBy(c, e).devices <=> d \in known
    BY <1>1, <1>2 DEF DevicesFollow
  <2>1. client[c].hasDevices
    BY HeardTells
  <2>2. CASE OfDevice(e, d)
    <3>1. d \in HeardBy(c, e).devices <=> e.type = "DeviceAdded"
      BY <1>6, <2>1, <2>2, HeardTells
    <3>2. \A i \in (cursor + 1)..Len(report) : ~OfDevice(report[i], d)
      BY <1>3, <1>4
    <3>3. e.type = "DeviceAdded" <=> d \in known
      BY <1>1, <2>2, <3>2 DEF SyncInv, LastDeviceEvent
    <3> QED
      BY <3>1, <3>3
  <2>3. CASE ~OfDevice(e, d)
    <3>1. d \in HeardBy(c, e).devices <=> d \in client[c].devices
      BY <2>3, HeardTells
    <3>2. \A i \in 1..Len(report) : i >= Untold => ~OfDevice(report[i], d)
      BY <1>1, <1>3, <1>4, <2>3
    <3>3. d \in client[c].devices <=> d \in known
      BY <2>1, <3>2 DEF SyncInv, DevicesFollow
    <3> QED
      BY <3>1, <3>3
  <2> QED
    BY <2>2, <2>3
<1>10. ViewFollows'
  <2> SUFFICES ASSUME NEW c \in Conns, NEW m \in MACs, NEW d \in Devices,
                      sock[c] = "open", SwitchedOwnOnly(c), d \in HeardBy(c, e).synced,
                      \A i \in 1..Len(report) : i >= Untold' => ~OfPresence(report[i], m, d)
               PROVE  <<m, d>> \in HeardBy(c, e).view <=> <<m, d>> \in present
    BY <1>0, <1>1, <1>2 DEF ViewFollows
  <2>1. d \in client[c].synced
    BY HeardTells
  <2>2. CASE OfPresence(e, m, d)
    <3>1. <<m, d>> \in HeardBy(c, e).view <=> e.type = "MACAddressDiscovered"
      BY <1>7, <2>1, <2>2, HeardTells
    <3>2. \A i \in (cursor + 1)..Len(report) : ~OfPresence(report[i], m, d)
      BY <1>3, <1>4
    <3>3. e.type = "MACAddressDiscovered" <=> <<m, d>> \in present
      BY <1>1, <2>2, <3>2 DEF SyncInv, LastPresenceEvent
    <3> QED
      BY <3>1, <3>3
  <2>3. CASE ~OfPresence(e, m, d)
    <3>1. <<m, d>> \in HeardBy(c, e).view <=> <<m, d>> \in client[c].view
      BY <2>3, HeardTells
    <3>2. \A i \in 1..Len(report) : i >= Untold => ~OfPresence(report[i], m, d)
      BY <1>1, <1>3, <1>4, <2>3
    <3>3. <<m, d>> \in client[c].view <=> <<m, d>> \in present
      BY <2>1, <3>2 DEF SyncInv, ViewFollows
    <3> QED
      BY <3>1, <3>3
  <2> QED
    BY <2>2, <2>3
<1>11. SyncedHaveStreams'
  <2> SUFFICES ASSUME NEW c \in Conns, sock[c] = "open", SwitchedOwnOnly(c),
                      NEW d \in HeardBy(c, e).synced
               PROVE  streams'[<<c, d>>] > 0
    BY <1>0, <1>1 DEF SyncedHaveStreams
  <2>1. d \in client[c].synced /\ (e.type = "DeviceRemoved" => d # e.dev)
    BY HeardTells
  <2>2. d \in Devices /\ streams[<<c, d>>] > 0
    BY <2>1 DEF ConnInv, TypeOK, Knowledge, SyncInv, SyncedHaveStreams
  <2> QED
    BY <1>1, <2>1, <2>2
<1> QED
  BY <1>8, <1>9, <1>10, <1>11 DEF SyncInv

-----------------------------------------------------------------------------
SyncedInv == ConnInv /\ SyncInv

\* Every step preserves both invariants.
LEMMA Sync_Next == SyncedInv /\ [Next]_vars => SyncedInv'
<1>1. ConnInv /\ SyncInv /\ [Next]_vars => SyncInv'
  BY Sync_Peers, Sync_Quiet, Sync_Network, Sync_Drop, Sync_Handle, Sync_Dispatch, Sync_EndCycle
  DEF Next, DaemonStep, Over
<1> QED
  BY <1>1, Conn_Next DEF SyncedInv

\* Between two cycles a client that asked for the devices once has the right set of
\* them, whatever the answer and the events of its own cycle overlapped in.
THEOREM DaemonDevicesInSync == Spec => []DevicesInSync
<1>1. SyncedInv => DevicesInSync
  <2> SUFFICES ASSUME SyncedInv, AtRest, NEW c \in Conns, sock[c] = "open",
                      client[c].hasDevices
               PROVE  client[c].devices = known
    BY DEF DevicesInSync
  <2>1. \A i \in 1..Len(report) : ~(i >= Untold)
    <3>1. Len(report) \in Nat /\ Untold = Len(report) + 1
      BY LenProperties DEF SyncedInv, ConnInv, ReportTyped, Untold, AtRest
    <3> QED
      BY <3>1
  <2>2. \A d \in Devices : d \in client[c].devices <=> d \in known
    BY <2>1 DEF SyncedInv, SyncInv, DevicesFollow
  <2>3. client[c].devices \subseteq Devices /\ known \subseteq Devices
    BY DEF SyncedInv, ConnInv, TypeOK, MonitorTypes, Knowledge
  <2> QED
    BY <2>2, <2>3
<1>2. Init => SyncedInv
  BY Conn_Init, Sync_Init DEF SyncedInv
<1> QED
  BY <1>1, <1>2, Sync_Next, PTL DEF Spec

\* Between two cycles a client that had a device's stream on when it asked for the
\* addresses, was not told of its end and has switched off no device but the one it
\* connected by has the device's right addresses.
THEOREM DaemonViewInSync == Spec => []ViewInSync
<1>1. SyncedInv => ViewInSync
  <2> SUFFICES ASSUME SyncedInv, AtRest, NEW c \in Conns, sock[c] = "open",
                      SwitchedOwnOnly(c), NEW d \in client[c].synced
               PROVE  OnDevice(client[c].view, d) = OnDevice(present, d)
    BY DEF ViewInSync
  <2>1. \A i \in 1..Len(report) : ~(i >= Untold)
    <3>1. Len(report) \in Nat /\ Untold = Len(report) + 1
      BY LenProperties DEF SyncedInv, ConnInv, ReportTyped, Untold, AtRest
    <3> QED
      BY <3>1
  <2>2. /\ client[c].view \subseteq MACs \X Devices /\ present \subseteq MACs \X Devices
        /\ d \in Devices
    BY DEF SyncedInv, ConnInv, TypeOK, MonitorTypes, Knowledge
  <2>3. \A m \in MACs : <<m, d>> \in client[c].view <=> <<m, d>> \in present
    BY <2>1, <2>2 DEF SyncedInv, SyncInv, ViewFollows
  <2>4. \A p \in MACs \X Devices : p[2] = d => (p \in client[c].view <=> p \in present)
    BY <2>3
  <2> QED
    BY <2>2, <2>4 DEF OnDevice
<1>2. Init => SyncedInv
  BY Conn_Init, Sync_Init DEF SyncedInv
<1> QED
  BY <1>1, <1>2, Sync_Next, PTL DEF Spec
=============================================================================
