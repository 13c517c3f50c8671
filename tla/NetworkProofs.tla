--------------------------- MODULE NetworkProofs ---------------------------
(***************************************************************************)
(* Proofs about Network, for every set of devices, addresses and times.    *)
(***************************************************************************)
EXTENDS Network, SequenceTheorems, TLAPS

(* Every event constructor yields an event record (Event.cpp).             *)

\* The events of a device: added, removed, its state, its evidence.
LEMMA DeviceEventTypes ==
    ASSUME NEW d \in Devices
    PROVE  /\ DeviceEvent("DeviceAdded", d) \in EventRecord
           /\ DeviceEvent("DeviceRemoved", d) \in EventRecord
           /\ \A f \in {"up", "running"}, b \in BOOLEAN : StateEvent(d, f, b) \in EventRecord
           /\ \A f \in {"mac", "ip", "broadcast-ip"}, v \in MACs \cup IPs, w \in IPs \cup {None} :
                 DeviceEvidence(d, f, v, w) \in EventRecord
  BY DEF DeviceEvent, StateEvent, DeviceEvidence, EventRecord

\* The events of an address: discovered, disappeared, its evidence.
LEMMA MACEventTypes ==
    ASSUME NEW d \in Devices \cup {None}, NEW m \in MACs
    PROVE  /\ d \in Devices => /\ MACEvent("MACAddressDiscovered", d, m) \in EventRecord
                               /\ MACEvent("MACAddressDisappeared", d, m) \in EventRecord
           /\ \A f \in Fields, v \in EvidenceValue, w \in EvidenceValue :
                 MACEvidence(d, m, f, v, w) \in EventRecord
  BY DEF MACEvent, MACEvidence, EventRecord

\* scheduleEvent() on a typed list.
LEMMA EventsGrow ==
    ASSUME NEW s \in Seq(EventRecord), NEW t \in Seq(EventRecord), NEW x \in EventRecord
    PROVE  s \o t \in Seq(EventRecord) /\ Append(s, x) \in Seq(EventRecord)
           /\ <<x>> \in Seq(EventRecord) /\ <<>> \in Seq(EventRecord)
  BY ConcatProperties, AppendProperties, EmptySeq

\* The updates of a Device object keep its type.
LEMMA DeviceUpdates ==
    ASSUME NEW dv \in DeviceObject
    PROVE  /\ Unwired(dv) \in DeviceObject
           /\ \A t \in Nat : [dv EXCEPT !.pinged = t] \in DeviceObject
           /\ \A s \in Statuses : SetStatus(dv, s) \in DeviceObject
<1>1. Unwired(dv) \in DeviceObject
  <2>1. [dv EXCEPT !.wire = "dead"] \in DeviceObject
    BY DEF DeviceObject
  <2> QED
    BY <2>1 DEF Unwired
<1>2. ASSUME NEW t \in Nat
      PROVE  [dv EXCEPT !.pinged = t] \in DeviceObject
  BY DEF DeviceObject
<1>3. ASSUME NEW s \in Statuses
      PROVE  SetStatus(dv, s) \in DeviceObject
  <2>1. s.up \in BOOLEAN /\ s.running \in BOOLEAN /\ s.ip \in IPs /\ s.broadcast \in IPs
    BY NetworkAssumption
  <2> QED
    BY <2>1 DEF SetStatus, DeviceObject
<1> QED
  BY <1>1, <1>2, <1>3

-----------------------------------------------------------------------------
(* Type correctness, action by action.                                     *)

\* Nothing the environment or the configuration does breaks the types.
LEMMA TypeOK_Outside ==
    ASSUME TypeOK, Environment \/ Configure
    PROVE  TypeOK'
<1> USE NetworkAssumption DEF TypeOK, kernel, config, control, tables, Known
<1>1. CASE Tick
  BY <1>1 DEF Tick
<1>2. CASE \E d \in Devices : LinkUp(d) \/ LinkDown(d)
  BY <1>2 DEF LinkUp, LinkDown
<1>3. CASE \E d \in Devices : Unplug(d)
  <2>1. PICK d \in Devices : Unplug(d)
    BY <1>3
  <2>2. \A e \in DOMAIN device : device'[e] \in DeviceObject
    BY <2>1, DeviceUpdates DEF Unplug
  <2>3. DOMAIN device' = DOMAIN device /\ device' \in [DOMAIN device' -> DeviceObject]
    BY <2>1, <2>2 DEF Unplug
  <2> QED
    BY <2>1, <2>3 DEF Unplug
<1>4. CASE Shutdown
  BY <1>4 DEF Shutdown
<1>5. CASE Configure
  <2>1. CASE \E m \in {"whitelist", "blacklist"} : SetDeviceWhiteBlacklistMode(m)
    BY <2>1 DEF SetDeviceWhiteBlacklistMode
  <2>2. CASE \E p \in Patterns : AddDeviceWhiteBlacklistEntry(p)
    BY <2>2 DEF AddDeviceWhiteBlacklistEntry
  <2>3. CASE EndConfig
    BY <2>3 DEF EndConfig, Phases
  <2> QED
    BY <1>5, <2>1, <2>2, <2>3 DEF Configure
<1> QED
  BY <1>1, <1>2, <1>3, <1>4, <1>5 DEF Environment

\* What the reading part of a cycle appends is typed.
LEMMA ReadEventTypes ==
    ASSUME TypeOK, NEW m \in MACs, NEW d \in Devices \cup {None},
           NEW f \in Fields, NEW v \in EvidenceValue
    PROVE  /\ d \in Devices => DiscoveryEvents(m, d) \in Seq(EventRecord)
           /\ EvidenceEvents(d, m, f, v) \in Seq(EventRecord)
           /\ updateMACEvidence(m, f, v) \in [MACs -> [Fields -> EvidenceValue]]
<1>1. evidence[m][f] \in EvidenceValue
  BY DEF TypeOK
<1>2. MACEvidence(d, m, f, v, evidence[m][f]) \in EventRecord
  BY <1>1, MACEventTypes
<1>3. ASSUME d \in Devices PROVE DiscoveryEvents(m, d) \in Seq(EventRecord)
  BY <1>3, MACEventTypes, EventsGrow DEF DiscoveryEvents
<1>4. EvidenceEvents(d, m, f, v) \in Seq(EventRecord)
  BY <1>2, EventsGrow DEF EvidenceEvents
<1>5. updateMACEvidence(m, f, v) \in [MACs -> [Fields -> EvidenceValue]]
  BY DEF TypeOK, updateMACEvidence
<1> QED
  BY <1>3, <1>4, <1>5

\* Handling one frame keeps the types of the three members it changes.
LEMMA TypeOK_HandleFrame ==
    ASSUME TypeOK, NEW d \in Devices, NEW m \in MACs, NEW ip \in IPs \cup {None},
           HandleFrame(d, m, ip)
    PROVE  /\ macSeen' \subseteq Entry
           /\ evidence' \in [MACs -> [Fields -> EvidenceValue]]
           /\ events' \in Seq(EventRecord)
<1>1. addMAC(m, d) \subseteq Entry
  <2>1. NewEntry(m, d) \in Entry
    BY DEF TypeOK, NewEntry, Entry
  <2>2. \A e \in Entry : [e EXCEPT !.last = now] \in Entry
    BY DEF TypeOK, Entry
  <2> QED
    BY <2>1, <2>2 DEF TypeOK, addMAC, EntriesOf
<1>2. CASE ~macAllowed(m)
  BY <1>2 DEF HandleFrame, TypeOK
<1>3. CASE macAllowed(m) /\ ip # None /\ ipAllowed(ip)
  <2>1. "ip" \in Fields /\ ip \in EvidenceValue
    BY <1>3 DEF Fields, EvidenceValue
  <2>2. DiscoveryEvents(m, d) \in Seq(EventRecord)
        /\ EvidenceEvents(d, m, "ip", ip) \in Seq(EventRecord)
        /\ updateMACEvidence(m, "ip", ip) \in [MACs -> [Fields -> EvidenceValue]]
    BY <2>1, ReadEventTypes
  <2>3. events \in Seq(EventRecord)
    BY DEF TypeOK
  <2>4. (events \o DiscoveryEvents(m, d)) \o EvidenceEvents(d, m, "ip", ip) \in Seq(EventRecord)
    BY <2>2, <2>3, ConcatProperties
  <2> QED
    BY <1>1, <1>3, <2>2, <2>4 DEF HandleFrame
<1>4. CASE macAllowed(m) /\ ~(ip # None /\ ipAllowed(ip))
  <2>1. "ip" \in Fields /\ None \in EvidenceValue
    BY DEF Fields, EvidenceValue
  <2>2. DiscoveryEvents(m, d) \in Seq(EventRecord)
    BY <2>1, ReadEventTypes
  <2>3. events \in Seq(EventRecord) /\ evidence \in [MACs -> [Fields -> EvidenceValue]]
    BY DEF TypeOK
  <2>4. events \o DiscoveryEvents(m, d) \in Seq(EventRecord)
    BY <2>2, <2>3, ConcatProperties
  <2> QED
    BY <1>1, <1>4, <2>3, <2>4 DEF HandleFrame
<1> QED
  BY <1>2, <1>3, <1>4

\* The reading part: Begin, the frames, the host names.
LEMMA TypeOK_Read ==
    ASSUME TypeOK,
           \/ Begin \/ BeginHostnames
           \/ \E d \in Devices : ReadDevice(d)
           \/ \E m \in MACs : CheckHostname(m)
    PROVE  TypeOK'
<1> USE DEF kernel, config, control, tables, Known
<1>1. CASE Begin
  <2>1. <<>> \in Seq(EventRecord)
    BY EmptySeq
  <2> QED
    BY <1>1, <2>1 DEF Begin, TypeOK, Phases
<1>2. CASE BeginHostnames
  BY <1>2 DEF BeginHostnames, TypeOK, Phases
<1>3. CASE \E d \in Devices : ReadDevice(d)
  <2>1. PICK d \in Devices : ReadDevice(d)
    BY <1>3
  <2>2. /\ macSeen' \subseteq Entry
        /\ evidence' \in [MACs -> [Fields -> EvidenceValue]]
        /\ events' \in Seq(EventRecord)
    <3>1. CASE ReadNothing
      BY <3>1 DEF ReadNothing, TypeOK
    <3>2. CASE ReadError(d)
      BY <3>2, TypeOK_HandleFrame, NetworkAssumption DEF ReadError
    <3>3. CASE ReadFrame(d)
      BY <3>3, TypeOK_HandleFrame DEF ReadFrame
    <3> QED
      BY <2>1, <3>1, <3>2, <3>3 DEF ReadDevice
  <2> QED
    BY <2>1, <2>2 DEF ReadDevice, TypeOK
<1>4. CASE \E m \in MACs : CheckHostname(m)
  <2>1. PICK m \in MACs : CheckHostname(m)
    BY <1>4
  <2>2. /\ evidence' \in [MACs -> [Fields -> EvidenceValue]]
        /\ events' \in Seq(EventRecord)
    <3>1. CASE UNCHANGED <<evidence, events>>
      BY <3>1 DEF TypeOK
    <3>2. ASSUME NEW name \in Hostnames, NEW d \in Devices \cup {None},
                 evidence' = updateMACEvidence(m, "hostname", name),
                 events' = events \o EvidenceEvents(d, m, "hostname", name)
          PROVE  /\ evidence' \in [MACs -> [Fields -> EvidenceValue]]
                 /\ events' \in Seq(EventRecord)
      <4>1. "hostname" \in Fields /\ name \in EvidenceValue
        BY DEF Fields, EvidenceValue
      <4>2. events \in Seq(EventRecord)
        BY DEF TypeOK
      <4> QED
        BY <3>2, <4>1, <4>2, ReadEventTypes, ConcatProperties
    <3> QED
      BY <2>1, <3>1, <3>2 DEF CheckHostname
  <2> QED
    BY <2>1, <2>2 DEF CheckHostname, TypeOK
<1> QED
  BY <1>1, <1>2, <1>3, <1>4

\* The device part: scan, removals, additions.
LEMMA TypeOK_Devices ==
    ASSUME TypeOK,
           \/ Scan \/ EndRemoveDevice \/ BeginAdd \/ BeginMaintain
           \/ \E d \in Devices : RemoveDevice(d) \/ AddDevice(d)
           \/ \E e \in macSeen : RemoveMAC(e)
    PROVE  TypeOK'
<1> USE DEF kernel, config, control, tables, Known
<1>1. CASE Scan
  BY <1>1 DEF Scan, systemDeviceNames, TypeOK, Phases
<1>2. CASE EndRemoveDevice
  BY <1>2 DEF EndRemoveDevice, TypeOK, Phases
<1>3. CASE BeginAdd
  BY <1>3 DEF BeginAdd, TypeOK, Phases
<1>4. CASE BeginMaintain
  BY <1>4 DEF BeginMaintain, TypeOK, Phases
<1>5. CASE \E d \in Devices : RemoveDevice(d)
  <2>1. PICK d \in Devices : RemoveDevice(d)
    BY <1>5
  <2>2. events' \in Seq(EventRecord)
    BY <2>1, DeviceEventTypes, AppendProperties DEF RemoveDevice, TypeOK
  <2>3. DOMAIN device' \subseteq Devices /\ device' \in [DOMAIN device' -> DeviceObject]
    BY <2>1 DEF RemoveDevice, TypeOK
  <2> QED
    BY <2>1, <2>2, <2>3 DEF RemoveDevice, TypeOK, Phases
<1>6. CASE \E d \in Devices : AddDevice(d)
  <2>1. PICK d \in Devices : AddDevice(d)
    BY <1>6
  <2>2. NewDevice(d) \in DeviceObject /\ NewDevice(d).mac \in MACs
    BY NetworkAssumption DEF NewDevice, OpenWire, OwnMAC, DeviceObject
  <2>3. CASE UNCHANGED <<device, events>>
    BY <2>1, <2>3 DEF AddDevice, TypeOK
  <2>4. CASE /\ device' = [e \in Known \cup {d} |-> IF e = d THEN NewDevice(d) ELSE device[e]]
             /\ events' = events \o <<DeviceEvent("DeviceAdded", d),
                                      DeviceEvidence(d, "mac", NewDevice(d).mac, None)>>
    <3>1. DOMAIN device' \subseteq Devices /\ device' \in [DOMAIN device' -> DeviceObject]
      BY <2>2, <2>4 DEF TypeOK
    <3>2. /\ DeviceEvent("DeviceAdded", d) \in EventRecord
          /\ DeviceEvidence(d, "mac", NewDevice(d).mac, None) \in EventRecord
      BY <2>2, DeviceEventTypes
    <3>3. <<DeviceEvent("DeviceAdded", d),
            DeviceEvidence(d, "mac", NewDevice(d).mac, None)>> \in Seq(EventRecord)
      BY <3>2
    <3>4. events' \in Seq(EventRecord)
      BY <2>4, <3>3, ConcatProperties DEF TypeOK
    <3> QED
      BY <2>1, <3>1, <3>4 DEF AddDevice, TypeOK
  <2> QED
    BY <2>1, <2>3, <2>4 DEF AddDevice
<1>7. CASE \E e \in macSeen : RemoveMAC(e)
  <2>1. PICK e \in macSeen : RemoveMAC(e)
    BY <1>7
  <2>2. e.dev \in Devices /\ e.mac \in MACs
    BY DEF TypeOK, Entry
  <2>3. events' \in Seq(EventRecord)
    BY <2>1, <2>2, MACEventTypes, AppendProperties DEF RemoveMAC, TypeOK
  <2> QED
    BY <2>1, <2>3 DEF RemoveMAC, TypeOK
<1> QED
  BY <1>1, <1>2, <1>3, <1>4, <1>5, <1>6, <1>7

\* What maintainDeviceStatus() appends is typed.
LEMMA StatusEventTypes ==
    ASSUME TypeOK, NEW d \in Known, NEW s \in Statuses
    PROVE  StatusEvents(d, s) \in Seq(EventRecord)
<1> DEFINE E1 == IF device[d].up # s.up THEN <<StateEvent(d, "up", s.up)>> ELSE <<>>
           E2 == IF device[d].running # s.running
                 THEN <<StateEvent(d, "running", s.running)>> ELSE <<>>
           E3 == IF device[d].ip # s.ip
                 THEN <<DeviceEvidence(d, "ip", s.ip, device[d].ip)>> ELSE <<>>
           E4 == IF device[d].broadcast # s.broadcast
                 THEN <<DeviceEvidence(d, "broadcast-ip", s.broadcast, device[d].broadcast)>>
                 ELSE <<>>
<1>1. d \in Devices /\ device[d].ip \in IPs \cup {None} /\ device[d].broadcast \in IPs \cup {None}
  BY DEF TypeOK, DeviceObject, Known
<1>2. s.up \in BOOLEAN /\ s.running \in BOOLEAN /\ s.ip \in IPs /\ s.broadcast \in IPs
  BY NetworkAssumption
<1>3. /\ StateEvent(d, "up", s.up) \in EventRecord
      /\ StateEvent(d, "running", s.running) \in EventRecord
      /\ DeviceEvidence(d, "ip", s.ip, device[d].ip) \in EventRecord
      /\ DeviceEvidence(d, "broadcast-ip", s.broadcast, device[d].broadcast) \in EventRecord
  BY <1>1, <1>2, DeviceEventTypes
<1>4. /\ E1 \in Seq(EventRecord) /\ E2 \in Seq(EventRecord)
      /\ E3 \in Seq(EventRecord) /\ E4 \in Seq(EventRecord)
  BY <1>3, EventsGrow
<1> HIDE DEF E1, E2, E3, E4
<1>5. ((E1 \o E2) \o E3) \o E4 \in Seq(EventRecord)
  BY <1>4, ConcatProperties
<1> QED
  BY <1>5 DEF StatusEvents, E1, E2, E3, E4

\* The last part: status, expiry, pings.
LEMMA TypeOK_Status ==
    ASSUME TypeOK, LoopsCoverDevices,
           \/ BeginExpire \/ Finish
           \/ \E d \in Devices : MaintainDevice(d)
           \/ \E e \in macSeen : ExpireMAC(e)
    PROVE  TypeOK'
<1> USE DEF kernel, config, control, tables, Known
<1>1. CASE BeginExpire
  BY <1>1 DEF BeginExpire, TypeOK, Phases
<1>2. CASE Finish
  <2>1. \A d \in Known : Pinged(device[d]) \in DeviceObject
    BY DeviceUpdates DEF Pinged, TypeOK
  <2>2. DOMAIN device' \subseteq Devices /\ device' \in [DOMAIN device' -> DeviceObject]
    BY <1>2, <2>1 DEF Finish, TypeOK
  <2> QED
    BY <1>2, <2>2 DEF Finish, TypeOK, Phases
<1>3. CASE \E d \in Devices : MaintainDevice(d)
  <2>1. PICK d \in Devices : MaintainDevice(d)
    BY <1>3
  <2>2. PICK s \in Statuses : /\ device' = [device EXCEPT ![d] = SetStatus(device[d], s)]
                              /\ events' = events \o StatusEvents(d, s)
    BY <2>1 DEF MaintainDevice
  <2>3. d \in Known
    BY <2>1 DEF MaintainDevice, LoopsCoverDevices
  <2>4. SetStatus(device[d], s) \in DeviceObject
    BY <2>3, DeviceUpdates DEF TypeOK
  <2>5. DOMAIN device' \subseteq Devices /\ device' \in [DOMAIN device' -> DeviceObject]
    BY <2>2, <2>3, <2>4 DEF TypeOK
  <2>6. events' \in Seq(EventRecord)
    BY <2>2, <2>3, StatusEventTypes, ConcatProperties DEF TypeOK
  <2> QED
    BY <2>1, <2>5, <2>6 DEF MaintainDevice, TypeOK
<1>4. CASE \E e \in macSeen : ExpireMAC(e)
  <2>1. PICK e \in macSeen : ExpireMAC(e)
    BY <1>4
  <2>2. e.dev \in Devices /\ e.mac \in MACs
    BY DEF TypeOK, Entry
  <2>3. events' \in Seq(EventRecord)
    BY <2>1, <2>2, MACEventTypes, AppendProperties DEF ExpireMAC, TypeOK
  <2> QED
    BY <2>1, <2>3 DEF ExpireMAC, TypeOK
<1> QED
  BY <1>1, <1>2, <1>3, <1>4

-----------------------------------------------------------------------------
(* The loops over the devices.                                             *)

\* A step that leaves the device tables, the loop and the configuration alone
\* keeps LoopsCoverDevices: ticks, link changes, signals, frames, names, expiry.
LEMMA Loops_Unaffected ==
    ASSUME LoopsCoverDevices,
           UNCHANGED <<npc, sysNames, mode, listed, victim>>,
           Known' = Known,
           \/ todo' = todo
           \/ npc \in {"read", "maintain"} /\ todo' \subseteq todo
    PROVE  LoopsCoverDevices'
  BY DEF LoopsCoverDevices, deviceAllowed

\* LoopsCoverDevices is preserved by every step.
LEMMA Loops_Step ==
    ASSUME TypeOK, LoopsCoverDevices, DevicesTrackSystem, Next
    PROVE  LoopsCoverDevices' /\ DevicesTrackSystem'
<1> USE DEF kernel, config, control, tables, netVars, Known
<1>1. CASE Environment
  <2>1. UNCHANGED <<npc, todo, sysNames, mode, listed, victim, Known>>
    BY <1>1 DEF Environment, Tick, LinkUp, LinkDown, Unplug, Shutdown
  <2> QED
    BY <2>1, Loops_Unaffected DEF DevicesTrackSystem, deviceAllowed
<1>2. CASE Configure
  BY <1>2 DEF Configure, SetDeviceWhiteBlacklistMode, AddDeviceWhiteBlacklistEntry,
              EndConfig, LoopsCoverDevices, DevicesTrackSystem, deviceAllowed
<1>3. CASE Begin
  BY <1>3 DEF Begin, LoopsCoverDevices, DevicesTrackSystem, deviceAllowed
<1>4. CASE \E d \in Devices : ReadDevice(d) \/ MaintainDevice(d)
  <2>1. /\ UNCHANGED <<npc, sysNames, mode, listed, victim, Known>>
        /\ npc \in {"read", "maintain"} /\ todo' \subseteq todo
    BY <1>4 DEF ReadDevice, MaintainDevice
  <2> QED
    BY <2>1, Loops_Unaffected DEF DevicesTrackSystem, deviceAllowed
<1>5. CASE BeginHostnames \/ BeginExpire \/ Finish
  BY <1>5 DEF BeginHostnames, BeginExpire, Finish, LoopsCoverDevices, DevicesTrackSystem,
              deviceAllowed
<1>6. CASE \/ \E m \in MACs : CheckHostname(m)
           \/ \E e \in macSeen : RemoveMAC(e) \/ ExpireMAC(e)
  <2>1. UNCHANGED <<npc, todo, sysNames, mode, listed, victim, Known>>
    BY <1>6 DEF CheckHostname, RemoveMAC, ExpireMAC
  <2> QED
    BY <2>1, Loops_Unaffected DEF DevicesTrackSystem, deviceAllowed
<1>7. CASE Scan \/ EndRemoveDevice \/ BeginAdd \/ BeginMaintain
  BY <1>7 DEF Scan, EndRemoveDevice, BeginAdd, BeginMaintain, LoopsCoverDevices,
              DevicesTrackSystem, deviceAllowed
<1>8. CASE \E d \in Devices : RemoveDevice(d)
  BY <1>8 DEF RemoveDevice, LoopsCoverDevices, DevicesTrackSystem, deviceAllowed
<1>9. CASE \E d \in Devices : AddDevice(d)
  BY <1>9 DEF AddDevice, LoopsCoverDevices, DevicesTrackSystem, deviceAllowed
<1>10. CASE Stopped
  BY <1>10 DEF Stopped, LoopsCoverDevices, DevicesTrackSystem, deviceAllowed
<1> QED
  BY <1>1, <1>2, <1>3, <1>4, <1>5, <1>6, <1>7, <1>8, <1>9, <1>10 DEF Next, Cycle

-----------------------------------------------------------------------------
(* The table of addresses.                                                 *)

TableInv == KeysUnique /\ EntriesOnKnownDevices /\ ReservedNeverSeen /\ TimesOrdered

\* The part of TableInv that the table alone decides.
EntriesFine ==
    /\ KeysUnique
    /\ \A e \in macSeen : /\ e.mac \notin ReservedMACs
                          /\ e.first <= e.last /\ e.last <= now

\* A step that takes entries away, or none, and does not turn back the clock,
\* keeps EntriesFine.
LEMMA Entries_Fewer ==
    ASSUME TypeOK, TypeOK', EntriesFine, macSeen' \subseteq macSeen, now <= now'
    PROVE  EntriesFine'
  BY DEF EntriesFine, KeysUnique, TypeOK, Entry

\* addMAC() keeps EntriesFine, and puts entries on the frame's device only.
LEMMA Entries_addMAC ==
    ASSUME TypeOK, EntriesFine, NEW d \in Devices, NEW m \in MACs, macAllowed(m),
           macSeen' = addMAC(m, d), now' = now
    PROVE  /\ EntriesFine'
           /\ \A e \in macSeen' : e \in macSeen \/ e.dev = d
<1>1. CASE EntriesOf(m, d) = {}
  <2>1. macSeen' = macSeen \cup {NewEntry(m, d)}
    BY <1>1 DEF addMAC
  <2>2. \A e \in macSeen : ~(e.mac = m /\ e.dev = d)
    BY <1>1 DEF EntriesOf
  <2> QED
    BY <2>1, <2>2 DEF EntriesFine, KeysUnique, NewEntry, macAllowed, TypeOK
<1>2. CASE EntriesOf(m, d) # {}
  <2>1. PICK x \in macSeen : EntriesOf(m, d) = {x} /\ x.mac = m /\ x.dev = d
    BY <1>2 DEF EntriesOf, EntriesFine, KeysUnique
  <2>2. macSeen' = (macSeen \ {x}) \cup {[x EXCEPT !.last = now]}
    BY <1>2, <2>1 DEF addMAC
  <2>3. x \in Entry
    BY DEF TypeOK
  <2> DEFINE y == [x EXCEPT !.last = now]
  <2>4. y.mac = m /\ y.dev = d /\ y.first = x.first /\ y.last = now
    BY <2>1, <2>3 DEF Entry
  <2>5. x.first <= now
    BY <2>3 DEF EntriesFine, TypeOK, Entry
  <2> HIDE DEF y
  <2>6. macSeen' = (macSeen \ {x}) \cup {y}
    BY <2>2 DEF y
  <2>7. \A e \in macSeen \ {x} : ~(e.mac = m /\ e.dev = d)
    BY <2>1 DEF EntriesFine, KeysUnique
  <2>8. KeysUnique'
    BY <2>4, <2>6, <2>7 DEF EntriesFine, KeysUnique
  <2>9. \A e \in macSeen' : e.mac \notin ReservedMACs /\ e.first <= e.last /\ e.last <= now
    BY <2>4, <2>5, <2>6 DEF EntriesFine, macAllowed, TypeOK
  <2> QED
    BY <2>4, <2>6, <2>8, <2>9 DEF EntriesFine
<1> QED
  BY <1>1, <1>2

\* Every step keeps EntriesFine; a new entry is on the device being read.
LEMMA Entries_Step ==
    ASSUME TypeOK, TypeOK', LoopsCoverDevices, EntriesFine, Next
    PROVE  /\ EntriesFine'
           /\ now <= now'
           /\ \A e \in macSeen' : e \in macSeen \/ (npc = "read" /\ npc' = npc /\ e.dev \in Known
                                                    /\ Known' = Known)
<1> USE DEF kernel, config, control, tables, netVars, Known
<1>1. CASE \E d \in Devices : ReadDevice(d)
  <2>1. PICK d \in Devices : ReadDevice(d)
    BY <1>1
  <2>2. now' = now /\ npc = "read" /\ npc' = npc /\ d \in Known /\ Known' = Known
    BY <2>1 DEF ReadDevice, LoopsCoverDevices
  <2>3. ASSUME NEW m \in MACs, NEW ip \in IPs \cup {None}, HandleFrame(d, m, ip)
        PROVE  EntriesFine' /\ \A e \in macSeen' : e \in macSeen \/ e.dev = d
    <3>1. CASE macAllowed(m)
      BY <2>2, <2>3, <3>1, Entries_addMAC DEF HandleFrame
    <3>2. CASE ~macAllowed(m)
      BY <2>2, <2>3, <3>2, Entries_Fewer DEF HandleFrame, TypeOK
    <3> QED
      BY <3>1, <3>2
  <2>4. CASE ReadNothing
    BY <2>2, <2>4, Entries_Fewer DEF ReadNothing, TypeOK
  <2>5. CASE ReadError(d)
    <3>1. ZeroMAC \in MACs /\ None \in IPs \cup {None}
      BY NetworkAssumption
    <3>2. HandleFrame(d, ZeroMAC, None)
      BY <2>5 DEF ReadError
    <3> QED
      BY <2>2, <2>3, <3>1, <3>2 DEF TypeOK
  <2>6. CASE ReadFrame(d)
    BY <2>2, <2>3, <2>6 DEF ReadFrame, TypeOK
  <2> QED
    BY <2>1, <2>4, <2>5, <2>6 DEF ReadDevice
<1>2. CASE ~(\E d \in Devices : ReadDevice(d))
  <2>1. macSeen' \subseteq macSeen /\ now <= now'
    <3>1. CASE Environment
      BY <3>1 DEF Environment, Tick, LinkUp, LinkDown, Unplug, Shutdown, TypeOK
    <3>2. CASE Configure
      BY <3>2 DEF Configure, SetDeviceWhiteBlacklistMode, AddDeviceWhiteBlacklistEntry,
                  EndConfig, TypeOK
    <3>3. CASE Begin \/ Stopped
      BY <3>3 DEF Begin, Stopped, TypeOK
    <3>4. CASE BeginHostnames \/ \E m \in MACs : CheckHostname(m)
      BY <3>4 DEF BeginHostnames, CheckHostname, TypeOK
    <3>5. CASE Scan \/ EndRemoveDevice \/ BeginAdd \/ BeginMaintain \/ BeginExpire \/ Finish
      BY <3>5 DEF Scan, EndRemoveDevice, BeginAdd, BeginMaintain, BeginExpire, Finish, TypeOK
    <3>6. CASE \E d \in Devices : RemoveDevice(d) \/ AddDevice(d) \/ MaintainDevice(d)
      BY <3>6 DEF RemoveDevice, AddDevice, MaintainDevice, TypeOK
    <3>7. CASE \E e \in macSeen : RemoveMAC(e) \/ ExpireMAC(e)
      BY <3>7 DEF RemoveMAC, ExpireMAC, TypeOK
    <3> QED
      BY <1>2, <3>1, <3>2, <3>3, <3>4, <3>5, <3>6, <3>7 DEF Next, Cycle
  <2> QED
    BY <2>1, Entries_Fewer
<1> QED
  BY <1>1, <1>2

\* Every step keeps the entries on known devices.
LEMMA EntriesOnKnown_Step ==
    ASSUME TypeOK, TypeOK', LoopsCoverDevices, EntriesFine, EntriesOnKnownDevices, Next
    PROVE  EntriesOnKnownDevices'
<1> USE DEF kernel, config, control, tables, netVars, Known
<1>1. SUFFICES ASSUME NEW e \in macSeen', e \in macSeen
               PROVE  e.dev \in Known' \/ (npc' = "purge" /\ e.dev = victim')
  BY Entries_Step DEF EntriesOnKnownDevices
<1>2. e.dev \in Known \/ (npc = "purge" /\ e.dev = victim)
  BY <1>1 DEF EntriesOnKnownDevices
<1>3. CASE Environment
  BY <1>2, <1>3 DEF Environment, Tick, LinkUp, LinkDown, Unplug, Shutdown
<1>4. CASE Configure
  BY <1>2, <1>4 DEF Configure, SetDeviceWhiteBlacklistMode, AddDeviceWhiteBlacklistEntry,
                    EndConfig
<1>5. CASE Begin \/ Stopped
  BY <1>2, <1>5 DEF Begin, Stopped
<1>6. CASE \/ BeginHostnames \/ \E m \in MACs : CheckHostname(m)
           \/ \E d \in Devices : ReadDevice(d)
  BY <1>2, <1>6 DEF BeginHostnames, CheckHostname, ReadDevice
<1>7. CASE Scan \/ BeginAdd \/ BeginMaintain \/ BeginExpire \/ Finish
  BY <1>2, <1>7 DEF Scan, BeginAdd, BeginMaintain, BeginExpire, Finish
<1>8. CASE EndRemoveDevice
  BY <1>1, <1>2, <1>8 DEF EndRemoveDevice
<1>9. CASE \E d \in Devices : RemoveDevice(d)
  BY <1>2, <1>9 DEF RemoveDevice
<1>10. CASE \E d \in Devices : AddDevice(d) \/ MaintainDevice(d)
  BY <1>2, <1>10 DEF AddDevice, MaintainDevice
<1>11. CASE \E f \in macSeen : RemoveMAC(f) \/ ExpireMAC(f)
  BY <1>2, <1>11 DEF RemoveMAC, ExpireMAC
<1> QED
  BY <1>3, <1>4, <1>5, <1>6, <1>7, <1>8, <1>9, <1>10, <1>11 DEF Next, Cycle

NothingReserved == \A m \in ReservedMACs, f \in Fields : evidence[m][f] = None

\* updateMACEvidence() is behind macAllowed() on both of its paths.
LEMMA NothingReserved_Step ==
    ASSUME TypeOK, NothingReserved, Next
    PROVE  NothingReserved'
<1> USE DEF kernel, config, control, tables, netVars, Known
<1>1. ASSUME NEW m \in MACs, macAllowed(m), NEW f, NEW v, evidence' = updateMACEvidence(m, f, v)
      PROVE  NothingReserved'
  <2>1. m \notin ReservedMACs
    BY <1>1 DEF macAllowed
  <2>2. \A r \in ReservedMACs : evidence'[r] = evidence[r]
    BY <1>1, <2>1, NetworkAssumption DEF updateMACEvidence, TypeOK
  <2> QED
    BY <2>2 DEF NothingReserved
<1>2. CASE UNCHANGED evidence
  BY <1>2 DEF NothingReserved
<1>3. CASE \E d \in Devices : ReadDevice(d)
  <2>1. PICK d \in Devices : ReadDevice(d)
    BY <1>3
  <2>2. ASSUME NEW m \in MACs, NEW ip \in IPs \cup {None}, HandleFrame(d, m, ip)
        PROVE  NothingReserved'
    BY <1>1, <1>2, <2>2 DEF HandleFrame
  <2>3. CASE ReadNothing
    BY <1>2, <2>3 DEF ReadNothing
  <2>4. CASE ReadError(d)
    <3>1. ZeroMAC \in MACs /\ None \in IPs \cup {None}
      BY NetworkAssumption
    <3> QED
      BY <2>2, <2>4, <3>1 DEF ReadError
  <2>5. CASE ReadFrame(d)
    BY <2>2, <2>5 DEF ReadFrame
  <2> QED
    BY <2>1, <2>3, <2>4, <2>5 DEF ReadDevice
<1>4. CASE \E m \in MACs : CheckHostname(m)
  BY <1>1, <1>2, <1>4 DEF CheckHostname
<1>5. CASE Environment \/ Configure \/ Begin \/ Stopped
  BY <1>2, <1>5 DEF Environment, Tick, LinkUp, LinkDown, Unplug, Shutdown, Configure, Begin,
                    SetDeviceWhiteBlacklistMode, AddDeviceWhiteBlacklistEntry, EndConfig, Stopped
<1>6. CASE \/ BeginHostnames \/ Scan \/ EndRemoveDevice \/ BeginAdd \/ BeginMaintain
           \/ BeginExpire \/ Finish
  BY <1>2, <1>6 DEF BeginHostnames, Scan, EndRemoveDevice, BeginAdd, BeginMaintain,
                    BeginExpire, Finish
<1>7. CASE \/ \E d \in Devices : RemoveDevice(d) \/ AddDevice(d) \/ MaintainDevice(d)
           \/ \E e \in macSeen : RemoveMAC(e) \/ ExpireMAC(e)
  BY <1>2, <1>7 DEF RemoveDevice, AddDevice, MaintainDevice, RemoveMAC, ExpireMAC
<1> QED
  BY <1>3, <1>4, <1>5, <1>6, <1>7 DEF Next, Cycle

CycleTimes == /\ dTime <= now /\ hostTime <= now
              /\ \A d \in Known : device[d].pinged <= dTime

\* The time kept by the cycle, by checkHostnames() and by the pings.
LEMMA CycleTimes_Step ==
    ASSUME TypeOK, TypeOK', LoopsCoverDevices, CycleTimes, Next
    PROVE  CycleTimes'
<1> USE DEF kernel, config, control, tables, netVars, Known
<1>1. now \in Nat /\ dTime \in Nat /\ hostTime \in Nat
      /\ \A d \in Known : device[d] \in DeviceObject /\ device[d].pinged \in Nat
  BY DEF TypeOK, DeviceObject
<1>2. CASE UNCHANGED <<now, dTime, hostTime, device>>
  BY <1>2 DEF CycleTimes
<1>3. CASE Tick
  BY <1>1, <1>3 DEF Tick, CycleTimes
<1>4. CASE \E d \in Devices : Unplug(d)
  <2>1. \A d \in Known : Unwired(device[d]).pinged = device[d].pinged
    BY <1>1 DEF Unwired, DeviceObject
  <2> QED
    BY <1>4, <2>1 DEF Unplug, CycleTimes
<1>5. CASE Begin
  BY <1>1, <1>5 DEF Begin, CycleTimes
<1>6. CASE BeginHostnames
  BY <1>1, <1>6 DEF BeginHostnames, CycleTimes
<1>7. CASE \E d \in Devices : RemoveDevice(d)
  BY <1>7 DEF RemoveDevice, CycleTimes
<1>8. CASE \E d \in Devices : AddDevice(d)
  BY <1>1, <1>8 DEF AddDevice, NewDevice, CycleTimes
<1>9. CASE \E d \in Devices : MaintainDevice(d)
  <2>1. PICK d \in Devices, s \in Statuses :
            /\ d \in todo /\ npc = "maintain"
            /\ device' = [device EXCEPT ![d] = SetStatus(device[d], s)]
            /\ UNCHANGED <<now, dTime, hostTime>>
    BY <1>9 DEF MaintainDevice
  <2>2. d \in Known
    BY <2>1 DEF LoopsCoverDevices
  <2>3. SetStatus(device[d], s).pinged = device[d].pinged
    BY <1>1, <2>2 DEF SetStatus, DeviceObject
  <2> QED
    BY <1>1, <2>1, <2>2, <2>3 DEF CycleTimes, TypeOK
<1>10. CASE Finish
  <2>1. \A d \in Known : Pinged(device[d]).pinged <= dTime
    BY <1>1 DEF Pinged, CycleTimes, DeviceObject
  <2> QED
    BY <1>10, <2>1 DEF Finish, CycleTimes
<1>11. CASE \/ \E d \in Devices : LinkUp(d) \/ LinkDown(d) \/ ReadDevice(d)
            \/ \E m \in MACs : CheckHostname(m)
            \/ \E e \in macSeen : RemoveMAC(e) \/ ExpireMAC(e)
  BY <1>2, <1>11 DEF LinkUp, LinkDown, ReadDevice, CheckHostname, RemoveMAC, ExpireMAC
<1>12. CASE Shutdown \/ Configure \/ Stopped
  BY <1>2, <1>12 DEF Shutdown, Configure, SetDeviceWhiteBlacklistMode,
                     AddDeviceWhiteBlacklistEntry, EndConfig, Stopped
<1>13. CASE Scan \/ EndRemoveDevice \/ BeginAdd \/ BeginMaintain \/ BeginExpire
  BY <1>2, <1>13 DEF Scan, EndRemoveDevice, BeginAdd, BeginMaintain, BeginExpire
<1> QED
  BY <1>3, <1>4, <1>5, <1>6, <1>7, <1>8, <1>9, <1>10, <1>11, <1>12, <1>13
     DEF Next, Environment, Cycle

-----------------------------------------------------------------------------
(* The inductive invariant and the theorems.                               *)

NetInv == TypeOK /\ LoopsCoverDevices /\ DevicesTrackSystem /\ TableInv

\* Every step of the monitor keeps the types.
LEMMA TypeOK_Step ==
    ASSUME TypeOK, LoopsCoverDevices, Next
    PROVE  TypeOK'
<1>1. CASE Stopped
  BY <1>1 DEF Stopped, netVars, TypeOK, Known
<1> QED
  BY <1>1, TypeOK_Outside, TypeOK_Read, TypeOK_Devices, TypeOK_Status DEF Next, Cycle

\* The constructor of Network and Daemon::Daemon() establish the invariant.
LEMMA NetInv_Init ==
    ASSUME Init
    PROVE  NetInv
<1>1. Known = {}
  BY DEF Init, Known
<1>2. TypeOK
  <2>1. evidence \in [MACs -> [Fields -> EvidenceValue]]
    BY DEF Init, EvidenceValue
  <2>2. events \in Seq(EventRecord)
    BY EmptySeq DEF Init
  <2>3. Known \subseteq Devices /\ device \in [Known -> DeviceObject]
    BY <1>1 DEF Init, Known
  <2> QED
    BY <2>1, <2>2, <2>3 DEF Init, TypeOK, Phases
<1>3. LoopsCoverDevices /\ DevicesTrackSystem
  BY <1>1 DEF Init, LoopsCoverDevices, DevicesTrackSystem
<1>4. KeysUnique /\ EntriesOnKnownDevices
  BY DEF Init, KeysUnique, EntriesOnKnownDevices
<1>5. ReservedNeverSeen
  BY NetworkAssumption DEF Init, ReservedNeverSeen
<1>6. TimesOrdered
  BY <1>1 DEF Init, TimesOrdered
<1> QED
  BY <1>2, <1>3, <1>4, <1>5, <1>6 DEF NetInv, TableInv

\* Every step keeps the invariant.
LEMMA NetInv_Step ==
    ASSUME NetInv, [Next]_netVars
    PROVE  NetInv'
<1>1. CASE Next
  <2>1. TypeOK /\ LoopsCoverDevices /\ DevicesTrackSystem /\ EntriesFine
        /\ EntriesOnKnownDevices /\ NothingReserved /\ CycleTimes
    BY DEF NetInv, TableInv, EntriesFine, NothingReserved, CycleTimes, ReservedNeverSeen,
           TimesOrdered
  <2>2. TypeOK'
    BY <1>1, <2>1, TypeOK_Step
  <2>3. LoopsCoverDevices' /\ DevicesTrackSystem'
    BY <1>1, <2>1, Loops_Step
  <2>4. EntriesFine' /\ EntriesOnKnownDevices'
    BY <1>1, <2>1, <2>2, Entries_Step, EntriesOnKnown_Step
  <2>5. NothingReserved' /\ CycleTimes'
    BY <1>1, <2>1, <2>2, NothingReserved_Step, CycleTimes_Step
  <2>6. ReservedNeverSeen' /\ TimesOrdered' /\ KeysUnique'
    BY <2>4, <2>5 DEF EntriesFine, NothingReserved, CycleTimes, ReservedNeverSeen, TimesOrdered
  <2> QED
    BY <2>2, <2>3, <2>4, <2>6 DEF NetInv, TableInv
<1>2. CASE UNCHANGED netVars
  <2>1. TypeOK'
    BY <1>2 DEF netVars, NetInv, TypeOK, Known
  <2>2. LoopsCoverDevices' /\ DevicesTrackSystem'
    BY <1>2 DEF netVars, NetInv, LoopsCoverDevices, DevicesTrackSystem, deviceAllowed, Known
  <2>3. KeysUnique' /\ EntriesOnKnownDevices' /\ ReservedNeverSeen' /\ TimesOrdered'
    BY <1>2 DEF netVars, NetInv, TableInv, KeysUnique, EntriesOnKnownDevices,
                ReservedNeverSeen, TimesOrdered, Known
  <2> QED
    BY <2>1, <2>2, <2>3 DEF NetInv, TableInv
<1> QED
  BY <1>1, <1>2

\* NetInv holds in every state Network::cycle() and its surroundings reach.
THEOREM NetworkInvariant == Spec => []NetInv
<1>1. Init => NetInv
  BY NetInv_Init
<1>2. NetInv /\ [Next]_netVars => NetInv'
  BY NetInv_Step
<1> QED
  BY <1>1, <1>2, PTL DEF Spec

\* The members of Network always have their types.
THEOREM NetworkTypes == Spec => []TypeOK
<1>1. NetInv => TypeOK
  BY DEF NetInv
<1> QED
  BY <1>1, NetworkInvariant, PTL

\* m_lstMACSeen is a map from (address, device) although it is kept as a list.
THEOREM NetworkKeysUnique == Spec => []KeysUnique
<1>1. NetInv => KeysUnique
  BY DEF NetInv, TableInv
<1> QED
  BY <1>1, NetworkInvariant, PTL

\* No entry of m_lstMACSeen outlives its Device object.
THEOREM NetworkEntriesOnKnownDevices == Spec => []EntriesOnKnownDevices
<1>1. NetInv => EntriesOnKnownDevices
  BY DEF NetInv, TableInv
<1> QED
  BY <1>1, NetworkInvariant, PTL

\* The reserved addresses, and so the failed reads, leave no trace.
THEOREM NetworkReservedNeverSeen == Spec => []ReservedNeverSeen
<1>1. NetInv => ReservedNeverSeen
  BY DEF NetInv, TableInv
<1> QED
  BY <1>1, NetworkInvariant, PTL

\* Outside the device part of a cycle the Device objects are the allowed names of
\* the last scan, whatever happened to the interfaces while it ran.
THEOREM NetworkDevicesTrackSystem == Spec => []DevicesTrackSystem
<1>1. NetInv => DevicesTrackSystem
  BY DEF NetInv
<1> QED
  BY <1>1, NetworkInvariant, PTL

\* An address leaves the table only when it was silent for longer than the maximal
\* age, or with its device: the stale time of a cycle errs on the safe side.
THEOREM NetworkNoEarlyDisappearance == Spec => NoEarlyDisappearance
<1> DEFINE Early(e) == /\ \A f \in macSeen' : f.mac # e.mac \/ f.dev # e.dev
                       /\ ~(now > e.last + MaxMACAge \/ e.dev \notin Known)
<1>1. ASSUME NetInv, NetInv', Next, NEW e \in macSeen, Early(e)
      PROVE  FALSE
  <2>1. e \notin macSeen'
    BY <1>1
  <2>2. TypeOK /\ LoopsCoverDevices /\ TimesOrdered
    BY <1>1 DEF NetInv, TableInv
  <2>3. e \in Entry /\ e.last \in Nat /\ now \in Nat /\ dTime \in Nat /\ MaxMACAge \in Nat
        /\ dTime <= now
    BY <2>2, NetworkAssumption DEF TypeOK, Entry, TimesOrdered
  <2>4. CASE \E d \in Devices : ReadDevice(d)
    <3>1. ASSUME NEW d \in Devices, NEW m \in MACs
          PROVE  \A x \in macSeen : \E y \in addMAC(m, d) : y.mac = x.mac /\ y.dev = x.dev
      <4>1. \A x \in Entry : [x EXCEPT !.last = now].mac = x.mac
                             /\ [x EXCEPT !.last = now].dev = x.dev
        BY DEF Entry
      <4> QED
        BY <2>2, <4>1 DEF addMAC, EntriesOf, TypeOK
    <3>2. ASSUME NEW d \in Devices, NEW m \in MACs, NEW ip, HandleFrame(d, m, ip)
          PROVE  FALSE
      BY <1>1, <2>1, <3>1, <3>2 DEF HandleFrame
    <3>3. ZeroMAC \in MACs
      BY NetworkAssumption
    <3> QED
      BY <2>1, <2>4, <3>2, <3>3 DEF ReadDevice, ReadNothing, ReadError, ReadFrame
  <2>5. CASE \E f \in macSeen : RemoveMAC(f)
    BY <1>1, <2>1, <2>2, <2>5 DEF RemoveMAC, LoopsCoverDevices
  <2>6. CASE \E f \in macSeen : ExpireMAC(f)
    BY <1>1, <2>1, <2>3, <2>6 DEF ExpireMAC, TooOld
  <2>7. CASE UNCHANGED macSeen
    BY <2>1, <2>7
  <2>8. CASE Environment \/ Configure \/ Begin \/ Stopped
    BY <2>7, <2>8 DEF Environment, Tick, LinkUp, LinkDown, Unplug, Shutdown, Configure, Begin,
                      SetDeviceWhiteBlacklistMode, AddDeviceWhiteBlacklistEntry, EndConfig,
                      Stopped, netVars, tables
  <2>9. CASE \/ BeginHostnames \/ Scan \/ EndRemoveDevice \/ BeginAdd \/ BeginMaintain
             \/ BeginExpire \/ Finish \/ \E m \in MACs : CheckHostname(m)
    BY <2>7, <2>9 DEF BeginHostnames, Scan, EndRemoveDevice, BeginAdd, BeginMaintain,
                      BeginExpire, Finish, CheckHostname, tables
  <2>10. CASE \E d \in Devices : RemoveDevice(d) \/ AddDevice(d) \/ MaintainDevice(d)
    BY <2>7, <2>10 DEF RemoveDevice, AddDevice, MaintainDevice
  <2> QED
    BY <1>1, <2>4, <2>5, <2>6, <2>8, <2>9, <2>10 DEF Next, Cycle
<1>2. NetInv /\ NetInv' /\ [Next]_netVars =>
        [\A e \in macSeen : (\A f \in macSeen' : f.mac # e.mac \/ f.dev # e.dev)
             => now > e.last + MaxMACAge \/ e.dev \notin Known]_netVars
  BY <1>1
<1> QED
  BY <1>2, NetworkInvariant, PTL DEF Spec, NoEarlyDisappearance

\* Each loop of a cycle visits what it should, whatever the kernel's interfaces do
\* while it runs.
THEOREM NetworkLoopsCoverDevices == Spec => []LoopsCoverDevices
<1>1. NetInv => LoopsCoverDevices
  BY DEF NetInv
<1> QED
  BY <1>1, NetworkInvariant, PTL

\* No time kept by a cycle, an entry or a Device object is ahead of the clock.
THEOREM NetworkTimesOrdered == Spec => []TimesOrdered
<1>1. NetInv => TimesOrdered
  BY DEF NetInv, TableInv
<1> QED
  BY <1>1, NetworkInvariant, PTL

-----------------------------------------------------------------------------
(* What the host name loop and the status loop have still to do.           *)

\* checkHostnames() has still to visit addresses whose name it does not know.
NamesUnknown ==
    \A m \in unresolved : /\ npc = "hosts"
                          /\ evidence[m]["ip"] # None /\ evidence[m]["hostname"] = None

HasAddresses(d) == device[d].ip # None /\ device[d].broadcast # None

\* The status loop leaves behind it devices that have their addresses.
StatusLoop ==
    /\ npc = "maintain" => \A d \in Known \ todo : HasAddresses(d)
    /\ npc = "expire" => \A d \in Known : HasAddresses(d)

PendingInv == NamesUnknown /\ StatusLoop

\* checkHostnames() takes the addresses once, and asks for each once.
LEMMA NamesUnknown_Step ==
    ASSUME TypeOK, NamesUnknown, Next
    PROVE  NamesUnknown'
<1> USE DEF kernel, config, control, tables, netVars
<1>1. CASE UNCHANGED <<unresolved, evidence, npc>>
  BY <1>1 DEF NamesUnknown
<1>2. CASE unresolved = {} /\ unresolved' = {}
  BY <1>2 DEF NamesUnknown
<1>3. CASE npc # "hosts" /\ UNCHANGED unresolved
  BY <1>2, <1>3 DEF NamesUnknown
<1>4. CASE BeginHostnames
  <2>1. unresolved = {}
    BY <1>4 DEF BeginHostnames, NamesUnknown
  <2> QED
    BY <1>4, <2>1 DEF BeginHostnames, NamesUnknown
<1>5. CASE \E m \in MACs : CheckHostname(m)
  <2>1. PICK m \in MACs : CheckHostname(m)
    BY <1>5
  <2>2. \A x \in MACs \ {m} : evidence'[x] = evidence[x]
    BY <2>1 DEF CheckHostname, updateMACEvidence, TypeOK
  <2>3. unresolved' = unresolved \ {m} /\ unresolved \subseteq MACs /\ npc = "hosts" /\ npc' = npc
    BY <2>1 DEF CheckHostname, TypeOK
  <2> QED
    BY <2>2, <2>3 DEF NamesUnknown
<1>6. CASE Scan
  BY <1>2, <1>6 DEF Scan
<1>7. CASE Environment \/ Configure \/ Begin \/ Stopped
  BY <1>1, <1>3, <1>7 DEF Environment, Tick, LinkUp, LinkDown, Unplug, Shutdown, Configure,
     Begin, SetDeviceWhiteBlacklistMode, AddDeviceWhiteBlacklistEntry, EndConfig, Stopped
<1>8. CASE EndRemoveDevice \/ BeginAdd \/ BeginMaintain \/ BeginExpire \/ Finish
  BY <1>3, <1>8 DEF EndRemoveDevice, BeginAdd, BeginMaintain, BeginExpire, Finish
<1>9. CASE \/ \E d \in Devices : ReadDevice(d) \/ RemoveDevice(d) \/ AddDevice(d)
                                 \/ MaintainDevice(d)
           \/ \E e \in macSeen : RemoveMAC(e) \/ ExpireMAC(e)
  BY <1>3, <1>9 DEF ReadDevice, RemoveDevice, AddDevice, MaintainDevice, RemoveMAC, ExpireMAC
<1> QED
  BY <1>4, <1>5, <1>6, <1>7, <1>8, <1>9 DEF Next, Cycle

\* maintainDeviceStatus() stores both addresses, and nothing takes them away.
LEMMA StatusLoop_Step ==
    ASSUME TypeOK, LoopsCoverDevices, StatusLoop, Next
    PROVE  StatusLoop'
<1> USE DEF kernel, config, control, tables, netVars, Known
<1>1. \A d \in Known : device[d] \in DeviceObject
  BY DEF TypeOK
<1>2. CASE UNCHANGED <<npc, todo, device>>
  BY <1>2 DEF StatusLoop, HasAddresses
<1>3. CASE npc' \notin {"maintain", "expire"}
  BY <1>3 DEF StatusLoop
<1>4. CASE \E d \in Devices : Unplug(d)
  <2>1. \A d \in Known : /\ Unwired(device[d]).ip = device[d].ip
                         /\ Unwired(device[d]).broadcast = device[d].broadcast
    BY <1>1 DEF Unwired, DeviceObject
  <2>2. Known' = Known /\ npc' = npc /\ todo' = todo
        /\ \A d \in Known : HasAddresses(d)' <=> HasAddresses(d)
    BY <1>4, <2>1 DEF Unplug, HasAddresses
  <2> QED
    BY <2>2 DEF StatusLoop
<1>5. CASE \E d \in Devices : MaintainDevice(d)
  <2>1. PICK d \in Devices, s \in Statuses :
            /\ npc = "maintain" /\ npc' = npc /\ d \in todo /\ todo' = todo \ {d}
            /\ device' = [device EXCEPT ![d] = SetStatus(device[d], s)]
    BY <1>5 DEF MaintainDevice
  <2>2. d \in Known
    BY <2>1 DEF LoopsCoverDevices
  <2>3. s.ip \in IPs /\ s.broadcast \in IPs /\ None \notin IPs
    BY NetworkAssumption
  <2>4. SetStatus(device[d], s).ip = s.ip /\ SetStatus(device[d], s).broadcast = s.broadcast
    BY <1>1, <2>2 DEF SetStatus, DeviceObject
  <2>5. Known' = Known /\ HasAddresses(d)'
        /\ \A e \in Known \ {d} : HasAddresses(e)' <=> HasAddresses(e)
    BY <2>1, <2>2, <2>3, <2>4 DEF HasAddresses, TypeOK
  <2> QED
    BY <2>1, <2>5 DEF StatusLoop
<1>6. CASE BeginMaintain \/ BeginExpire
  BY <1>6 DEF BeginMaintain, BeginExpire, StatusLoop, HasAddresses
<1>7. CASE \/ Tick \/ Shutdown \/ Stopped
           \/ \E d \in Devices : LinkUp(d) \/ LinkDown(d)
           \/ \E e \in macSeen : RemoveMAC(e) \/ ExpireMAC(e)
  BY <1>2, <1>7 DEF Tick, Shutdown, Stopped, LinkUp, LinkDown, RemoveMAC, ExpireMAC
<1>8. CASE Configure \/ Begin \/ BeginHostnames \/ Scan \/ EndRemoveDevice \/ BeginAdd \/ Finish
  BY <1>3, <1>8 DEF Configure, SetDeviceWhiteBlacklistMode, AddDeviceWhiteBlacklistEntry,
     EndConfig, Begin, BeginHostnames, Scan, EndRemoveDevice, BeginAdd, Finish
<1>9. CASE \/ \E d \in Devices : ReadDevice(d) \/ RemoveDevice(d) \/ AddDevice(d)
           \/ \E m \in MACs : CheckHostname(m)
  BY <1>3, <1>9 DEF ReadDevice, RemoveDevice, AddDevice, CheckHostname
<1> QED
  BY <1>4, <1>5, <1>6, <1>7, <1>8, <1>9 DEF Next, Environment, Cycle

\* Nothing is taken up before its loop begins, and every step keeps PendingInv.
THEOREM NetworkPending == Spec => []PendingInv
<1>1. Init => PendingInv
  BY DEF Init, PendingInv, NamesUnknown, StatusLoop
<1>2. NetInv /\ PendingInv /\ [Next]_netVars => PendingInv'
  <2>1. ASSUME NetInv, PendingInv, Next PROVE PendingInv'
    BY <2>1, NamesUnknown_Step, StatusLoop_Step DEF NetInv, PendingInv
  <2>2. ASSUME PendingInv, UNCHANGED netVars PROVE PendingInv'
    BY <2>2 DEF netVars, PendingInv, NamesUnknown, StatusLoop, HasAddresses, Known
  <2> QED
    BY <2>1, <2>2
<1> QED
  BY <1>1, <1>2, NetworkInvariant, PTL DEF Spec

\* sendPingBroadcast() never meets a device without its two addresses, although
\* devices are added with none and the ioctls may fail.
THEOREM NetworkPingersHaveAddresses == Spec => []PingersHaveAddresses
<1>1. PendingInv => PingersHaveAddresses
  BY DEF PendingInv, StatusLoop, HasAddresses, PingersHaveAddresses
<1> QED
  BY <1>1, NetworkPending, PTL

\* Evidence is replaced and never lost, and a host name, once found, stays: the
\* addresses to resolve are chosen at the start of the loop and used after it waited.
THEOREM NetworkEvidenceKept == Spec => EvidenceKept
<1> DEFINE Kept == \A m \in MACs, f \in Fields :
              evidence[m][f] # None => /\ evidence'[m][f] # None
                                       /\ f = "hostname" => evidence'[m][f] = evidence[m][f]
<1>1. ASSUME NetInv, PendingInv, Next PROVE Kept
  <2> USE DEF kernel, config, control, tables, netVars
  <2>1. TypeOK /\ NamesUnknown
    BY <1>1 DEF NetInv, PendingInv
  <2>2. CASE UNCHANGED evidence
    BY <2>2
  <2>3. ASSUME NEW m \in MACs, NEW f \in Fields, NEW v, v # None,
               f = "hostname" => evidence[m][f] = None,
               evidence' = updateMACEvidence(m, f, v)
        PROVE  Kept
    <3>1. \A x \in MACs, g \in Fields :
              evidence'[x][g] = IF x = m /\ g = f THEN v ELSE evidence[x][g]
      BY <2>1, <2>3 DEF updateMACEvidence, TypeOK
    <3> QED
      BY <2>3, <3>1
  <2>4. CASE \E d \in Devices : ReadDevice(d)
    <3>1. ASSUME NEW d \in Devices, NEW m \in MACs, NEW ip \in IPs \cup {None},
                 HandleFrame(d, m, ip)
          PROVE  Kept
      <4>1. "ip" \in Fields /\ "ip" # "hostname"
        BY DEF Fields
      <4> QED
        BY <2>2, <2>3, <3>1, <4>1 DEF HandleFrame
    <3>2. ZeroMAC \in MACs /\ None \in IPs \cup {None}
      BY NetworkAssumption
    <3> QED
      BY <2>2, <2>4, <3>1, <3>2 DEF ReadDevice, ReadNothing, ReadError, ReadFrame
  <2>5. CASE \E m \in MACs : CheckHostname(m)
    <3>1. "hostname" \in Fields /\ None \notin Hostnames
      BY NetworkAssumption DEF Fields
    <3>2. \A m \in unresolved : evidence[m]["hostname"] = None
      BY <2>1 DEF NamesUnknown
    <3> QED
      BY <2>2, <2>3, <2>5, <3>1, <3>2 DEF CheckHostname
  <2>6. CASE Environment \/ Configure \/ Begin \/ Stopped
    BY <2>2, <2>6 DEF Environment, Tick, LinkUp, LinkDown, Unplug, Shutdown, Configure, Begin,
       SetDeviceWhiteBlacklistMode, AddDeviceWhiteBlacklistEntry, EndConfig, Stopped
  <2>7. CASE \/ BeginHostnames \/ Scan \/ EndRemoveDevice \/ BeginAdd \/ BeginMaintain
             \/ BeginExpire \/ Finish
    BY <2>2, <2>7 DEF BeginHostnames, Scan, EndRemoveDevice, BeginAdd, BeginMaintain,
       BeginExpire, Finish
  <2>8. CASE \/ \E d \in Devices : RemoveDevice(d) \/ AddDevice(d) \/ MaintainDevice(d)
             \/ \E e \in macSeen : RemoveMAC(e) \/ ExpireMAC(e)
    BY <2>2, <2>8 DEF RemoveDevice, AddDevice, MaintainDevice, RemoveMAC, ExpireMAC
  <2> QED
    BY <1>1, <2>4, <2>5, <2>6, <2>7, <2>8 DEF Next, Cycle
<1>2. NetInv /\ PendingInv /\ [Next]_netVars => [Kept]_netVars
  BY <1>1
<1> QED
  BY <1>2, NetworkInvariant, NetworkPending, PTL DEF Spec, EvidenceKept
=============================================================================
