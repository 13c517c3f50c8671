------------------------------ MODULE Network ------------------------------
(***************************************************************************)
(* The monitor of macdetectd (macdetectd/src/Network.cpp): the table of    *)
(* MAC addresses seen, the known network devices, what is known about each *)
(* address, and the list of events one call of Network::cycle() leaves for *)
(* the daemon.                                                             *)
(*                                                                         *)
(* Network::cycle() is one thread, but it looks at the outside world (the  *)
(* clock, the frames, the resolver, the kernel's interface list) at many   *)
(* places, and the world moves in between.  The call is therefore a        *)
(* sequence of steps ordered by npc; a loop of the code takes one step per *)
(* iteration, over the elements still in todo.  The order in which a loop  *)
(* visits devices is that of the kernel's list, which the model leaves     *)
(* open.                                                                   *)
(***************************************************************************)
EXTENDS Naturals, Sequences, FiniteSets

CONSTANTS
    Devices,               \* names of network interfaces
    MACs,                  \* hardware addresses that appear in frames
    ReservedMACs,          \* 00:00:00:00:00:00 and ff:ff:ff:ff:ff:ff
    ZeroMAC,               \* the former
    DeviceMAC,             \* the hardware address of an interface
    IPs,                   \* IP addresses
    AllowedIPs,            \* the ones ipAllowed() accepts
    Hostnames,             \* host names the resolver can answer with
    Patterns,              \* list entries of the configuration, each the set of names its regex matches
    Statuses,              \* what the ioctls of maintainDeviceStatus() can report
    None,                  \* the empty string
    MaxMACAge, PingBroadcastInterval, HostnameCheckInterval,
    MaxTime                \* bound on the clock, for model checking only

ASSUME NetworkAssumption ==
    /\ ReservedMACs \subseteq MACs
    /\ ZeroMAC \in ReservedMACs
    /\ AllowedIPs \subseteq IPs
    /\ DeviceMAC \in [Devices -> MACs]
    /\ Patterns \subseteq SUBSET Devices
    /\ Statuses \subseteq [up : BOOLEAN, running : BOOLEAN, ip : IPs, broadcast : IPs]
    /\ None \notin Devices \cup IPs \cup Hostnames
    /\ {MaxMACAge, PingBroadcastInterval, HostnameCheckInterval, MaxTime} \subseteq Nat

VARIABLES
    now,        \* CLOCK_MONOTONIC
    link,       \* the kernel's interfaces: "absent", "bare" (no address), "addressed"
    npc,        \* where Network::cycle() is; "idle" between two calls
    todo,       \* devices the current loop has still to visit
    unresolved, \* addresses checkHostnames() has still to visit
    dTime,      \* local of cycle(): the time read at its start
    mode,       \* m_wbmDevices
    listed,     \* names matched by m_lstDeviceWhiteBlackList
    sysNames,   \* m_lstSystemDeviceNames
    device,     \* m_lstDevices: name -> Device object
    victim,     \* the device whose addresses removeDevice() is erasing
    macSeen,    \* m_lstMACSeen
    evidence,   \* m_mapMACEvidence
    hostTime,   \* m_dHostnamesLastChecked
    events,     \* m_lstEvents
    shouldRun   \* m_bShouldRun

kernel  == <<now, link>>
config  == <<mode, listed>>
control == <<npc, todo, unresolved, dTime, sysNames, victim, hostTime>>
tables  == <<device, macSeen, evidence>>
netVars == <<now, link, npc, todo, unresolved, dTime, mode, listed, sysNames, device,
             victim, macSeen, evidence, hostTime, events, shouldRun>>

Known == DOMAIN device      \* knownDevices(), by name

Fields == {"ip", "hostname"}

-----------------------------------------------------------------------------
(* Events (Event.cpp).  A record carries the fields its class sets.        *)

DeviceEvent(type, d) == [type |-> type, dev |-> d]

StateEvent(d, field, value) ==
    [type |-> "DeviceStateChanged", dev |-> d, field |-> field, value |-> value]

DeviceEvidence(d, field, value, former) ==
    [type |-> "DeviceEvidenceChanged", dev |-> d, field |-> field,
     value |-> value, former |-> former]

MACEvent(type, d, m) == [type |-> type, dev |-> d, mac |-> m]

MACEvidence(d, m, field, value, former) ==
    [type |-> "MACEvidenceChanged", dev |-> d, mac |-> m, field |-> field,
     value |-> value, former |-> former]

-----------------------------------------------------------------------------
(* Predicates and lookups.                                                 *)

\* Fault: the names are read once and kept.
systemDeviceNamesCached ==
    IF sysNames = {} THEN {d \in Devices : link[d] = "addressed"} ELSE sysNames

\* SIOCGIFCONF lists the interfaces that have an address.
systemDeviceNames == {d \in Devices : link[d] = "addressed"}

deviceAllowed(d) ==
    \/ mode = "whitelist" /\ d \in listed
    \/ mode = "blacklist" /\ d \notin listed

ipAllowed(ip) == ip \in AllowedIPs

\* Fault: only the devices' own addresses are ignored.
macAllowedReserved(m) == \A d \in Known : device[d].mac # m

\* m_bIgnoreDeviceMACs is true and nothing in the program clears it.
macAllowed(m) == m \notin ReservedMACs /\ \A d \in Known : device[d].mac # m

EntriesOf(m, d) == {e \in macSeen : e.mac = m /\ e.dev = d}

\* The first match in the list; the list is in order of insertion, hence of
\* first.  None stands for the empty string returned when there is no match.
IsDeviceForMAC(d, m) ==
    LET matches == {e \in macSeen : e.mac = m}
    IN  \/ matches = {} /\ d = None
        \/ \E e \in matches : /\ d = e.dev
                              /\ \A f \in matches : e.first <= f.first

\* Wire::createSocket() opens a packet socket on the interface.
OpenWire(d) == IF link[d] = "absent" THEN "none" ELSE "live"

\* Fault: no address is stored when the kernel gives none.
OwnMACUnset(d) == IF link[d] = "absent" THEN None ELSE DeviceMAC[d]

\* Device::mac() asks the kernel once; the result of the ioctl is not looked at.
OwnMAC(d) == IF link[d] = "absent" THEN ZeroMAC ELSE DeviceMAC[d]

\* A new Device object.  It is kept also when it has no socket.
NewDevice(d) ==
    [up |-> FALSE, running |-> FALSE, ip |-> None, broadcast |-> None, pinged |-> 0,
     wire |-> OpenWire(d), mac |-> OwnMAC(d)]

-----------------------------------------------------------------------------
(* The environment.                                                        *)

Tick ==
    /\ now < MaxTime
    /\ now' = now + 1
    /\ UNCHANGED <<link, control, config, tables, events, shouldRun>>

\* An interface appears or gets its address.
LinkUp(d) ==
    /\ link[d] # "addressed"
    /\ link' = [link EXCEPT ![d] = "addressed"]
    /\ UNCHANGED <<now, control, config, tables, events, shouldRun>>

\* An interface loses its address and stays.
LinkDown(d) ==
    /\ link[d] = "addressed"
    /\ link' = [link EXCEPT ![d] = "bare"]
    /\ UNCHANGED <<now, control, config, tables, events, shouldRun>>

Unwired(dv) == IF dv.wire = "live" THEN [dv EXCEPT !.wire = "dead"] ELSE dv

\* An interface goes; a packet socket bound to it is dead from then on, also
\* when an interface of that name returns.
Unplug(d) ==
    /\ link[d] # "absent"
    /\ link' = [link EXCEPT ![d] = "absent"]
    /\ device' = [e \in Known |-> IF e = d THEN Unwired(device[e]) ELSE device[e]]
    /\ UNCHANGED <<now, control, config, macSeen, evidence, events, shouldRun>>

\* Network::shutdown(), called from the signal handler at any instruction.
Shutdown ==
    /\ shouldRun
    /\ shouldRun' = FALSE
    /\ UNCHANGED <<kernel, control, config, tables, events>>

-----------------------------------------------------------------------------
(* Configuration, before the first cycle: the calls parseConfigFile() makes *)
(* while no device is known yet.                                           *)

SetDeviceWhiteBlacklistMode(m) ==
    /\ npc = "config"
    /\ listed = {}
    /\ mode' = m
    /\ UNCHANGED <<kernel, control, listed, tables, events, shouldRun>>

AddDeviceWhiteBlacklistEntry(p) ==
    /\ npc = "config"
    /\ listed' = listed \cup p
    /\ UNCHANGED <<kernel, control, mode, tables, events, shouldRun>>

EndConfig ==
    /\ npc = "config"
    /\ npc' = "idle"
    /\ UNCHANGED <<kernel, todo, unresolved, dTime, config, sysNames, victim,
                   tables, hostTime, events, shouldRun>>

-----------------------------------------------------------------------------
(* Network::cycle(), first part: detectNetworkActivity().                  *)

\* Fault: the time is not read.
BeginStale ==
    /\ npc = "idle"
    /\ events' = <<>>
    /\ todo' = Known
    /\ npc' = "read"
    /\ UNCHANGED <<kernel, dTime, unresolved, config, sysNames, victim, tables, hostTime,
                   shouldRun>>

Begin ==
    /\ npc = "idle"
    /\ dTime' = now
    /\ events' = <<>>
    /\ todo' = Known
    /\ npc' = "read"
    /\ UNCHANGED <<kernel, unresolved, config, sysNames, victim, tables, hostTime,
                   shouldRun>>

\* Fault: the cycle's time and a fresh one are mixed.
NewEntryMixed(m, d) == [mac |-> m, dev |-> d, first |-> now, last |-> dTime]

NewEntry(m, d) == [mac |-> m, dev |-> d, first |-> now, last |-> now]

\* Fault: an entry is made without looking for an old one.
addMACBlindly(m, d) == macSeen \cup {NewEntry(m, d)}

\* addMAC(): the entry of the address on the device is touched, or made.
addMAC(m, d) ==
    IF EntriesOf(m, d) = {}
    THEN macSeen \cup {NewEntry(m, d)}
    ELSE (macSeen \ EntriesOf(m, d)) \cup {[e EXCEPT !.last = now] : e \in EntriesOf(m, d)}

\* Fault: an address already seen on another device is taken for old.
DiscoveryEventsOnce(m, d) ==
    IF \E e \in macSeen : e.mac = m THEN <<>> ELSE <<MACEvent("MACAddressDiscovered", d, m)>>

DiscoveryEvents(m, d) ==
    IF EntriesOf(m, d) = {} THEN <<MACEvent("MACAddressDiscovered", d, m)>> ELSE <<>>

\* updateMACEvidence(): what is stored is reported only when it differs.
updateMACEvidence(m, field, value) == [evidence EXCEPT ![m][field] = value]

\* Fault: the former value is not filled in.
EvidenceEventsNoFormer(d, m, field, value) ==
    IF evidence[m][field] = value THEN <<>> ELSE <<MACEvidence(d, m, field, value, None)>>

EvidenceEvents(d, m, field, value) ==
    IF evidence[m][field] = value
    THEN <<>>
    ELSE <<MACEvidence(d, m, field, value, evidence[m][field])>>

\* What is done with a frame of source address m read from d; ip is the sender's
\* address in an IP frame and None in any other.  macAllowed() guards both updates.
HandleFrame(d, m, ip) ==
    IF ~macAllowed(m)
    THEN UNCHANGED <<macSeen, evidence, events>>
    ELSE /\ macSeen' = addMAC(m, d)
         /\ IF ip # None /\ ipAllowed(ip)
            THEN /\ evidence' = updateMACEvidence(m, "ip", ip)
                 /\ events' = events \o DiscoveryEvents(m, d)
                                     \o EvidenceEvents(d, m, "ip", ip)
            ELSE /\ events' = events \o DiscoveryEvents(m, d)
                 /\ UNCHANGED evidence

\* The length of a failed read, -1, is compared with an unsigned number and passes
\* the test for a whole header: the zeroed buffer is handled as a frame.
ReadError(d) == HandleFrame(d, ZeroMAC, None)

\* A dead socket may still hold frames.
ReadFrame(d) ==
    /\ device[d].wire # "none"
    /\ \E m \in MACs, ip \in IPs \cup {None} : HandleFrame(d, m, ip)

ReadNothing == UNCHANGED <<macSeen, evidence, events>>

ReadDevice(d) ==
    /\ npc = "read"
    /\ d \in todo
    /\ todo' = todo \ {d}
    /\ ReadNothing \/ ReadError(d) \/ ReadFrame(d)
    /\ UNCHANGED <<kernel, npc, unresolved, dTime, config, sysNames, victim, device,
                   hostTime, shouldRun>>

\* The reads are done: the interval of the host name checks is looked at.
BeginHostnames ==
    /\ npc = "read"
    /\ todo = {}
    /\ IF now > hostTime + HostnameCheckInterval
       THEN /\ hostTime' = now
            /\ unresolved' = {m \in MACs : /\ evidence[m]["ip"] # None
                                           /\ evidence[m]["hostname"] = None}
       ELSE UNCHANGED <<hostTime, unresolved>>
    /\ npc' = "hosts"
    /\ UNCHANGED <<kernel, todo, dTime, config, sysNames, victim, tables, events,
                   shouldRun>>

\* One turn of checkHostnames(): gethostbyaddr() answers, after any delay.
CheckHostname(m) ==
    /\ npc = "hosts"
    /\ m \in unresolved
    /\ unresolved' = unresolved \ {m}
    /\ \/ UNCHANGED <<evidence, events>>
       \/ \E name \in Hostnames, d \in Devices \cup {None} :
            /\ macAllowed(m)
            /\ IsDeviceForMAC(d, m)
            /\ evidence' = updateMACEvidence(m, "hostname", name)
            /\ events' = events \o EvidenceEvents(d, m, "hostname", name)
    /\ UNCHANGED <<kernel, npc, todo, dTime, config, sysNames, victim, device, macSeen,
                   hostTime, shouldRun>>

-----------------------------------------------------------------------------
(* Second part: devices that went and came.                                *)

Scan ==
    /\ npc = "hosts"
    /\ unresolved = {}
    /\ sysNames' = systemDeviceNames
    /\ todo' = Known \ sysNames'
    /\ npc' = "remove"
    /\ UNCHANGED <<kernel, unresolved, dTime, config, victim, tables, hostTime, events,
                   shouldRun>>

\* Fault: the removal is reported and the Device object stays.
RemoveDeviceKept(d) ==
    /\ npc = "remove"
    /\ d \in todo
    /\ todo' = todo \ {d}
    /\ events' = Append(events, DeviceEvent("DeviceRemoved", d))
    /\ victim' = d
    /\ npc' = "purge"
    /\ UNCHANGED <<kernel, unresolved, dTime, config, sysNames, tables, hostTime, shouldRun>>

\* removeDevice(), up to its loop over the addresses.
RemoveDevice(d) ==
    /\ npc = "remove"
    /\ d \in todo
    /\ todo' = todo \ {d}
    /\ device' = [e \in Known \ {d} |-> device[e]]
    /\ events' = Append(events, DeviceEvent("DeviceRemoved", d))
    /\ victim' = d
    /\ npc' = "purge"
    /\ UNCHANGED <<kernel, unresolved, dTime, config, sysNames, macSeen, evidence,
                   hostTime, shouldRun>>

\* Fault: the addresses go without a report.
RemoveMACSilently(e) ==
    /\ npc = "purge"
    /\ e.dev = victim
    /\ macSeen' = macSeen \ {e}
    /\ UNCHANGED <<kernel, control, config, device, evidence, events, shouldRun>>

\* removeMAC(), called for one address of the removed device after the other.
RemoveMAC(e) ==
    /\ npc = "purge"
    /\ e.dev = victim
    /\ macSeen' = macSeen \ {e}
    /\ events' = Append(events, MACEvent("MACAddressDisappeared", e.dev, e.mac))
    /\ UNCHANGED <<kernel, control, config, device, evidence, shouldRun>>

\* Fault: the erasing loop ends early, as after an invalidated iterator.
EndRemoveDeviceEarly ==
    /\ npc = "purge"
    /\ victim' = None
    /\ npc' = "remove"
    /\ UNCHANGED <<kernel, todo, unresolved, dTime, config, sysNames, tables, hostTime,
                   events, shouldRun>>

EndRemoveDevice ==
    /\ npc = "purge"
    /\ \A e \in macSeen : e.dev # victim
    /\ victim' = None
    /\ npc' = "remove"
    /\ UNCHANGED <<kernel, todo, unresolved, dTime, config, sysNames, tables, hostTime,
                   events, shouldRun>>

\* Fault: the names are read again for the second loop.
BeginAddRescan ==
    /\ npc = "remove"
    /\ todo = {}
    /\ sysNames' = systemDeviceNames
    /\ todo' = sysNames' \ Known
    /\ npc' = "add"
    /\ UNCHANGED <<kernel, unresolved, dTime, config, victim, tables, hostTime, events,
                   shouldRun>>

BeginAdd ==
    /\ npc = "remove"
    /\ todo = {}
    /\ todo' = sysNames \ Known
    /\ npc' = "add"
    /\ UNCHANGED <<kernel, unresolved, dTime, config, sysNames, victim, tables, hostTime,
                   events, shouldRun>>

AddDevice(d) ==
    /\ npc = "add"
    /\ d \in todo
    /\ todo' = todo \ {d}
    /\ IF deviceAllowed(d) /\ d \notin Known /\ d \in sysNames
       THEN /\ device' = [e \in Known \cup {d} |-> IF e = d THEN NewDevice(d) ELSE device[e]]
            /\ events' = events \o <<DeviceEvent("DeviceAdded", d),
                                     DeviceEvidence(d, "mac", NewDevice(d).mac, None)>>
       ELSE UNCHANGED <<device, events>>
    /\ UNCHANGED <<kernel, npc, unresolved, dTime, config, sysNames, victim, macSeen,
                   evidence, hostTime, shouldRun>>

\* Fault: only devices that are up are looked after.
BeginMaintainUp ==
    /\ npc = "add"
    /\ todo = {}
    /\ todo' = {d \in Known : device[d].up}
    /\ npc' = "maintain"
    /\ UNCHANGED <<kernel, unresolved, dTime, config, sysNames, victim, tables, hostTime,
                   events, shouldRun>>

BeginMaintain ==
    /\ npc = "add"
    /\ todo = {}
    /\ todo' = Known
    /\ npc' = "maintain"
    /\ UNCHANGED <<kernel, unresolved, dTime, config, sysNames, victim, tables, hostTime,
                   events, shouldRun>>

-----------------------------------------------------------------------------
(* Third part: device status, old addresses, pings.                        *)

\* The events for what differs between the stored status and the one reported.
StatusEvents(d, s) ==
    LET dv == device[d]
    IN  (IF dv.up # s.up THEN <<StateEvent(d, "up", s.up)>> ELSE <<>>)
        \o (IF dv.running # s.running THEN <<StateEvent(d, "running", s.running)>> ELSE <<>>)
        \o (IF dv.ip # s.ip THEN <<DeviceEvidence(d, "ip", s.ip, dv.ip)>> ELSE <<>>)
        \o (IF dv.broadcast # s.broadcast
            THEN <<DeviceEvidence(d, "broadcast-ip", s.broadcast, dv.broadcast)>> ELSE <<>>)

SetStatus(dv, s) == [dv EXCEPT !.up = s.up, !.running = s.running,
                               !.ip = s.ip, !.broadcast = s.broadcast]

\* maintainDeviceStatus().  The results of its ioctls are not looked at, so an
\* interface that is gone yields arbitrary flags and the address 0.0.0.0.
MaintainDevice(d) ==
    /\ npc = "maintain"
    /\ d \in todo
    /\ todo' = todo \ {d}
    /\ \E s \in Statuses :
         /\ device' = [device EXCEPT ![d] = SetStatus(device[d], s)]
         /\ events' = events \o StatusEvents(d, s)
    /\ UNCHANGED <<kernel, npc, unresolved, dTime, config, sysNames, victim, macSeen,
                   evidence, hostTime, shouldRun>>

BeginExpire ==
    /\ npc = "maintain"
    /\ todo = {}
    /\ npc' = "expire"
    /\ UNCHANGED <<kernel, todo, unresolved, dTime, config, sysNames, victim, tables,
                   hostTime, events, shouldRun>>

\* Fault: the age counts from the first frame.
TooOldSinceFirst(e) == dTime > e.first + MaxMACAge

TooOld(e) == dTime > e.last + MaxMACAge

\* Fault: what is known about the address goes with the entry.
ExpireMACForgetting(e) ==
    /\ npc = "expire"
    /\ TooOld(e)
    /\ macSeen' = macSeen \ {e}
    /\ evidence' = [evidence EXCEPT ![e.mac] = [f \in Fields |-> None]]
    /\ events' = Append(events, MACEvent("MACAddressDisappeared", e.dev, e.mac))
    /\ UNCHANGED <<kernel, control, config, device, shouldRun>>

ExpireMAC(e) ==
    /\ npc = "expire"
    /\ TooOld(e)
    /\ macSeen' = macSeen \ {e}
    /\ events' = Append(events, MACEvent("MACAddressDisappeared", e.dev, e.mac))
    /\ UNCHANGED <<kernel, control, config, device, evidence, shouldRun>>

\* sendPingBroadcast() keeps the time also when sendPing() sends nothing.
Pinged(dv) == IF dTime >= dv.pinged + PingBroadcastInterval
              THEN [dv EXCEPT !.pinged = dTime] ELSE dv

\* Fault: cycle() always returns true.
FinishTrue ==
    /\ npc = "expire"
    /\ \A e \in macSeen : ~TooOld(e)
    /\ device' = [d \in Known |-> Pinged(device[d])]
    /\ npc' = "idle"
    /\ UNCHANGED <<kernel, todo, unresolved, dTime, config, sysNames, victim, macSeen,
                   evidence, hostTime, events, shouldRun>>

\* The rest of the cycle, and the value it returns.  dLastUpdate of an entry,
\* which nothing reads but the test that sets it, is left out.
Finish ==
    /\ npc = "expire"
    /\ \A e \in macSeen : ~TooOld(e)
    /\ device' = [d \in Known |-> Pinged(device[d])]
    /\ npc' = IF shouldRun THEN "idle" ELSE "stopped"
    /\ UNCHANGED <<kernel, todo, unresolved, dTime, config, sysNames, victim, macSeen,
                   evidence, hostTime, events, shouldRun>>

-----------------------------------------------------------------------------
Init ==
    /\ now = 0
    /\ link \in [Devices -> {"absent", "bare", "addressed"}]
    /\ npc = "config"
    /\ todo = {} /\ unresolved = {} /\ dTime = 0
    /\ mode = "whitelist" /\ listed = {}      \* Daemon::Daemon()
    /\ sysNames = {} /\ victim = None
    /\ device = [d \in {} |-> NewDevice(d)]
    /\ macSeen = {}
    /\ evidence = [m \in MACs |-> [f \in Fields |-> None]]
    /\ hostTime = 0
    /\ events = <<>>
    /\ shouldRun = TRUE

Environment ==
    \/ Tick
    \/ \E d \in Devices : LinkUp(d) \/ LinkDown(d) \/ Unplug(d)
    \/ Shutdown

Configure ==
    \/ \E m \in {"whitelist", "blacklist"} : SetDeviceWhiteBlacklistMode(m)
    \/ \E p \in Patterns : AddDeviceWhiteBlacklistEntry(p)
    \/ EndConfig

\* The steps of Network::cycle() after its first one.
Cycle ==
    \/ \E d \in Devices : ReadDevice(d)
    \/ BeginHostnames
    \/ \E m \in MACs : CheckHostname(m)
    \/ Scan
    \/ \E d \in Devices : RemoveDevice(d)
    \/ \E e \in macSeen : RemoveMAC(e)
    \/ EndRemoveDevice
    \/ BeginAdd
    \/ \E d \in Devices : AddDevice(d)
    \/ BeginMaintain
    \/ \E d \in Devices : MaintainDevice(d)
    \/ BeginExpire
    \/ \E e \in macSeen : ExpireMAC(e)
    \/ Finish

\* The process has left its main loop.
Stopped == npc = "stopped" /\ UNCHANGED netVars

Next == Environment \/ Configure \/ Begin \/ Cycle \/ Stopped

Spec == Init /\ [][Next]_netVars

\* The thread keeps running: its system calls return (the sockets are read with
\* MSG_DONTWAIT and the resolver gives up).  Nothing is assumed of the environment.
FairSpec == Spec /\ WF_netVars(EndConfig) /\ WF_netVars(Begin \/ Cycle)

-----------------------------------------------------------------------------
(* Properties.                                                             *)

Entry == [mac : MACs, dev : Devices, first : Nat, last : Nat]

DeviceObject ==
    [up : BOOLEAN, running : BOOLEAN, ip : IPs \cup {None}, broadcast : IPs \cup {None},
     pinged : Nat, wire : {"none", "live", "dead"}, mac : MACs]

EvidenceValue == IPs \cup Hostnames \cup {None}

EventRecord ==
    [type : {"DeviceAdded", "DeviceRemoved"}, dev : Devices]
    \cup [type : {"DeviceStateChanged"}, dev : Devices, field : {"up", "running"},
          value : BOOLEAN]
    \cup [type : {"DeviceEvidenceChanged"}, dev : Devices,
          field : {"mac", "ip", "broadcast-ip"}, value : MACs \cup IPs,
          former : IPs \cup {None}]
    \cup [type : {"MACAddressDiscovered", "MACAddressDisappeared"}, dev : Devices,
          mac : MACs]
    \cup [type : {"MACEvidenceChanged"}, dev : Devices \cup {None}, mac : MACs,
          field : Fields, value : EvidenceValue, former : EvidenceValue]

Phases == {"config", "idle", "read", "hosts", "remove", "purge", "add", "maintain",
           "expire", "stopped"}

\* The members of Network hold what their types and the callers allow; there is
\* at most one Device object per name.
TypeOK ==
    /\ now \in Nat /\ dTime \in Nat /\ hostTime \in Nat
    /\ link \in [Devices -> {"absent", "bare", "addressed"}]
    /\ npc \in Phases
    /\ todo \subseteq Devices /\ unresolved \subseteq MACs
    /\ mode \in {"whitelist", "blacklist"} /\ listed \subseteq Devices
    /\ sysNames \subseteq Devices
    /\ Known \subseteq Devices /\ device \in [Known -> DeviceObject]
    /\ victim \in Devices \cup {None}
    /\ macSeen \subseteq Entry
    /\ evidence \in [MACs -> [Fields -> EvidenceValue]]
    /\ events \in Seq(EventRecord)
    /\ shouldRun \in BOOLEAN

\* m_lstMACSeen never holds two entries for one address on one device, although
\* addMAC() appends to a list and looks for the entry in two separate loops.
KeysUnique == \A e, f \in macSeen : e.mac = f.mac /\ e.dev = f.dev => e = f

\* Every entry belongs to a known device; only removeDevice() may be in the middle
\* of erasing those of the device it has just dropped.
EntriesOnKnownDevices ==
    \A e \in macSeen : e.dev \in Known \/ (npc = "purge" /\ e.dev = victim)

\* 00:00:00:00:00:00 and ff:ff:ff:ff:ff:ff are never listed and nothing is stored
\* about them, although a failed read is handled as a frame of the former.
ReservedNeverSeen ==
    /\ \A e \in macSeen : e.mac \notin ReservedMACs
    /\ \A m \in ReservedMACs, f \in Fields : evidence[m][f] = None

\* Each loop of a cycle has still to visit what it should although the kernel's
\* interfaces change meanwhile: the reading and the status loop run over Device
\* objects that exist, the removing loop over all those the kernel did not list,
\* and the adding loop misses no device that is listed and allowed.
LoopsCoverDevices ==
    /\ npc = "config" => Known = {} /\ sysNames = {}
    /\ npc \in {"read", "maintain"} => todo \subseteq Known
    /\ npc \in {"remove", "purge"} => todo = Known \ sysNames
    /\ npc = "purge" => victim \notin Known
    /\ npc = "add" => /\ Known \subseteq sysNames
                      /\ \A d \in sysNames : deviceAllowed(d) => d \in Known \cup todo
    /\ \A d \in Known : deviceAllowed(d)

\* From the end of the device scan until the next one the known devices are
\* exactly the allowed ones among the names last read from the kernel.
DevicesTrackSystem ==
    npc \in {"idle", "read", "hosts", "maintain", "expire", "stopped"}
        => Known = {d \in sysNames : deviceAllowed(d)}

\* When the pings are sent every known device has its two addresses, so that
\* sendPingBroadcast() never spends an interval on a ping sendPing() refuses.
PingersHaveAddresses ==
    npc = "expire" => \A d \in Known : device[d].ip # None /\ device[d].broadcast # None

IsPresenceEvent(i, m, d) ==
    /\ events[i].type \in {"MACAddressDiscovered", "MACAddressDisappeared"}
    /\ events[i].mac = m /\ events[i].dev = d

\* The reports of one cycle about one address on one device alternate, and the
\* last one agrees with the table: a client that follows the events knows it.
PresenceReportsMatchTable ==
    \A i \in 1..Len(events) : \A m \in MACs, d \in Devices :
        IsPresenceEvent(i, m, d) =>
            LET later == {j \in (i + 1)..Len(events) : IsPresenceEvent(j, m, d)}
            IN  IF later = {}
                THEN events[i].type = "MACAddressDiscovered" <=> EntriesOf(m, d) # {}
                ELSE \E j \in later : /\ \A k \in later : j <= k
                                      /\ events[j].type # events[i].type

IsEvidenceEvent(i, m, f) ==
    /\ events[i].type = "MACEvidenceChanged"
    /\ events[i].mac = m /\ events[i].field = f

\* The evidence reports of one cycle about one address chain up (the former value
\* of each is the value of the one before) and end in the stored value.
EvidenceReportsMatchTable ==
    \A i \in 1..Len(events) : \A m \in MACs, f \in Fields :
        IsEvidenceEvent(i, m, f) =>
            LET later == {j \in (i + 1)..Len(events) : IsEvidenceEvent(j, m, f)}
            IN  IF later = {}
                THEN events[i].value = evidence[m][f]
                ELSE \E j \in later : /\ \A k \in later : j <= k
                                      /\ events[j].former = events[i].value

\* Once a cycle has reported a device removed, the rest of its events say nothing
\* more of that device than that its addresses disappeared.
RemovedDeviceStaysSilent ==
    \A i, j \in 1..Len(events) :
        (i < j /\ events[i].type = "DeviceRemoved" /\ events[j].dev = events[i].dev)
            => events[j].type = "MACAddressDisappeared"

\* Clock readings are ordered: the time a cycle started with is stale but never
\* ahead, and so are the times kept in the tables.
TimesOrdered ==
    /\ dTime <= now /\ hostTime <= now
    /\ \A e \in macSeen : e.first <= e.last /\ e.last <= now
    /\ \A d \in Known : device[d].pinged <= dTime

\* An address leaves the table only when it has been silent for longer than the
\* maximal age, by the real clock and not only by the cycle's stale one, or when
\* its device is gone.
NoEarlyDisappearance ==
    [][\A e \in macSeen :
          (\A f \in macSeen' : f.mac # e.mac \/ f.dev # e.dev)
              => now > e.last + MaxMACAge \/ e.dev \notin Known]_netVars

\* Evidence about an address is only ever replaced, never lost: it outlives the
\* entry in the table, and checkHostnames() asks for a name at most once.
EvidenceKept ==
    [][\A m \in MACs, f \in Fields :
          evidence[m][f] # None => /\ evidence'[m][f] # None
                                   /\ f = "hostname" => evidence'[m][f] = evidence[m][f]]_netVars

-----------------------------------------------------------------------------
(* Liveness, under FairSpec.                                               *)

Overdue(m, d) == \E e \in EntriesOf(m, d) : now > e.last + MaxMACAge

\* An address silent for too long is taken from the table, unless it is heard
\* again or the daemon stops.
OldAddressesGo ==
    \A m \in MACs, d \in Devices : Overdue(m, d) ~> (~Overdue(m, d) \/ npc = "stopped")

InStep(d) == (d \in Known) <=> (link[d] = "addressed" /\ deviceAllowed(d))

\* A device that came is found and one that went is dropped, unless the link
\* changes again or the daemon stops.
DevicesFollowLinks ==
    \A d \in Devices : npc # "config" /\ ~InStep(d) ~> (InStep(d) \/ npc = "stopped")

\* A signal ends the main loop, from wherever the cycle is.
ShutdownStops == ~shouldRun ~> npc = "stopped"

\* README.md: "macdetectd accomodates for removed or newly added network interfaces":
\* a device whose interface was removed and added again is listened to again.
ListensAgain ==
    \A d \in Devices :
        d \in Known /\ link[d] = "addressed" /\ device[d].wire # "live"
            ~> (d \notin Known \/ link[d] # "addressed" \/ device[d].wire = "live"
                \/ npc = "stopped")
=============================================================================
