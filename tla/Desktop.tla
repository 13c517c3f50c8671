------------------------------ MODULE Desktop ------------------------------
(***************************************************************************)
(* The graphical client: the window (pymacdetect/lib/pymd/pymdGui/MDGui.py *)
(* and ConnectionManager.py), the Python binding (PyMACDetect.cpp) and the *)
(* client library (client/src) below it, and a daemon that is as much of   *)
(* module Daemon as one client sees.                                       *)
(*                                                                         *)
(* The window runs in one thread: a click, a poll timer or a dialog is an  *)
(* action.  Handlers that fail raise a Python exception; a timer whose     *)
(* handler does is removed like one that returns False.                    *)
(*                                                                         *)
(* Discovery, which fills the dialog's list, is module Startup.  Evidence, *)
(* identities, nicknames and the timeline change neither list and are left *)
(* out; keepalives and answers about streams are read and ignored.         *)
(* The window is taken to read its connection in time: the daemon's socket *)
(* does not block, and when its buffer is full values are lost, which      *)
(* module Server has as the state "cut" of a socket.                       *)
(***************************************************************************)
EXTENDS Naturals, Sequences

CONSTANTS
    Devices,
    MACs,
    Listener,       \* device of the serve entry the client comes in by
    MaxChanges,     \* bounds, for model checking: changes of the network,
    MaxReport,      \* events of one cycle,
    MaxReplies,     \* values sent and not read yet,
    MaxSessions,    \* connects
    MaxToggles      \* and clicks on a device

ASSUME DesktopAssumption ==
    /\ Listener \in Devices
    /\ {MaxChanges, MaxReport, MaxReplies, MaxSessions, MaxToggles} \subseteq Nat

VARIABLES
    known, present,     \* the monitor's tables: devices, and <<mac, device>>
    report,             \* events not handed out yet
    phase,              \* where Daemon::cycle() is
    up,                 \* the daemon is running
    served,             \* it has accepted the connection
    streams,            \* devices of m_lstStreams for this connection
    fd,                 \* m_nSocketFD: "none" is -1, "failed" a socket never connected
    peerClosed,         \* the daemon's end is closed
    requests, replies,  \* values on their way
    connectionState,    \* "DISCONNECTED" or "CONNECTED"; connect() blocks in between
    dialog,             \* the connection manager is open, and modal
    timers,             \* poll timers of checkPyMACDetect()
    shown, active,      \* lsDeviceList and its ticked rows
    rows,               \* tsMACList
    history,            \* table macs_history of identities.db
    changes, sessions, toggles,
    doubled,            \* addresses that have been on two devices at once
    familiar            \* history held every address when the window was opened

daemonVars  == <<known, present, report, phase, up>>
sessionVars == <<served, streams, fd, peerClosed, requests, replies>>
listVars    == <<shown, active, rows, history>>
countVars   == <<changes, sessions, toggles, doubled, familiar>>
windowVars  == <<connectionState, dialog, timers>>
vars == <<daemonVars, sessionVars, windowVars, listVars, countVars>>

-----------------------------------------------------------------------------
(* The daemon.                                                             *)

OnDevice(pairs, d) == {p \in pairs : p[2] = d}

Addresses(pairs) == {p[1] : p \in pairs}

Changed(k, p, e) ==
    /\ up /\ phase = "monitor"
    /\ changes < MaxChanges /\ Len(report) < MaxReport
    /\ changes' = changes + 1
    /\ known' = k /\ present' = p
    /\ report' = Append(report, e)
    /\ doubled' = doubled \cup {m \in MACs : \E d, f \in Devices :
                                    d # f /\ {<<m, d>>, <<m, f>>} \subseteq p}
    /\ UNCHANGED <<phase, up, sessionVars, windowVars, listVars, sessions, toggles,
                   familiar>>

NetworkChanges ==
    \/ \E d \in Devices \ known :
          Changed(known \cup {d}, present, [what |-> "device-added", dev |-> d])
    \/ \E d \in known :
          Changed(known \ {d}, present \ OnDevice(present, d),
                  [what |-> "device-removed", dev |-> d])
    \/ \E p \in (MACs \X known) \ present :
          Changed(known, present \cup {p},
                  [what |-> "mac-address-discovered", mac |-> p[1], dev |-> p[2]])
    \/ \E p \in present :
          Changed(known, present \ {p},
                  [what |-> "mac-address-disappeared", mac |-> p[1], dev |-> p[2]])

\* Server::cycle() accepts.
Serve ==
    /\ up /\ phase = "monitor"
    /\ phase' = "handle"
    /\ served' = (fd = "open" /\ ~peerClosed)
    /\ UNCHANGED <<known, present, report, up, streams, fd, peerClosed, requests, replies,
                   windowVars, listVars, countVars>>

\* The values below one that lists addresses, as a dictionary: one device each.
Listed == {f \in [Addresses(present) -> Devices] : \A m \in DOMAIN f : <<m, f[m]>> \in present}

HandleRequest ==
    /\ up /\ phase = "handle"
    /\ served /\ requests # <<>>
    /\ Len(replies) < MaxReplies
    /\ requests' = Tail(requests)
    /\ LET r == Head(requests)
           on == Listener \in streams
       IN  /\ streams' = CASE r.what = "enable-stream" /\ ~on -> streams \cup {r.dev}
                           [] r.what = "disable-stream" /\ on -> streams \ {Listener}
                           [] OTHER -> streams
           /\ CASE r.what = "devices-list" ->
                      replies' = Append(replies, [what |-> r.what, devs |-> known])
                [] r.what = "known-mac-addresses" ->
                      \E f \in Listed : replies' = Append(replies, [what |-> r.what, macs |-> f])
                [] OTHER -> UNCHANGED replies
    /\ UNCHANGED <<daemonVars, served, fd, peerClosed, windowVars, listVars, countVars>>

\* What the daemon has read so far is answered.
EndHandle ==
    /\ up /\ phase = "handle"
    /\ phase' = "dispatch"
    /\ UNCHANGED <<known, present, report, up, sessionVars, windowVars, listVars, countVars>>

MACEvents == {"mac-address-discovered", "mac-address-disappeared"}

\* The next event goes out; after the last one the cycle is over.
Dispatch ==
    /\ up /\ phase = "dispatch"
    /\ Len(replies) < MaxReplies
    /\ IF report = <<>>
       THEN phase' = "monitor" /\ UNCHANGED <<report, streams, replies>>
       ELSE LET e == Head(report)
            IN  /\ report' = Tail(report)
                /\ streams' = IF e.what = "device-removed" THEN streams \ {e.dev} ELSE streams
                /\ replies' = IF served /\ (e.what \in MACEvents => e.dev \in streams)
                              THEN Append(replies, e) ELSE replies
                /\ UNCHANGED phase
    /\ UNCHANGED <<known, present, up, served, fd, peerClosed, requests,
                   windowVars, listVars, countVars>>

\* The daemon ends; what it has sent can still be read.
DaemonEnds ==
    /\ up
    /\ up' = FALSE
    /\ known' = {} /\ present' = {} /\ report' = <<>> /\ phase' = "monitor"
    /\ peerClosed' = (fd = "open")
    /\ served' = FALSE /\ streams' = {} /\ requests' = <<>>
    /\ UNCHANGED <<fd, replies, windowVars, listVars, countVars>>

DaemonStarts ==
    /\ ~up
    /\ up' = TRUE
    /\ UNCHANGED <<known, present, report, phase, sessionVars, windowVars, listVars, countVars>>

-----------------------------------------------------------------------------
(* The client library and the binding.                                     *)

connected == fd # "none"

\* Client::connect() and disconnect() close the descriptor there was; on the new one
\* nothing has been sent but msgs.
NewDescriptor(f, msgs) ==
    /\ fd' = f /\ peerClosed' = FALSE
    /\ served' = FALSE /\ streams' = {}
    /\ requests' = msgs /\ replies' = <<>>

\* MDClient::send(), whose result is ignored.
sent(msgs) == IF fd = "open" /\ ~peerClosed THEN requests \o msgs ELSE requests

-----------------------------------------------------------------------------
(* The two lists.                                                          *)

ClearLists == shown' = {} /\ active' = {} /\ rows' = {} /\ UNCHANGED history

\* addMAC() of each item of dictionary f.  A new address is entered into the list
\* and the history; then the history's view is given a row in the wrong form, and
\* the exception leaves the other items of the dictionary aside.
addMACs(f) ==
    LET new == DOMAIN f \ history
    IN  \/ /\ new = {}
           /\ rows' = rows \cup {<<m, f[m]>> : m \in DOMAIN f}
           /\ UNCHANGED <<history, timers>>
        \/ \E m \in new, before \in SUBSET (DOMAIN f \ new) :
              /\ rows' = rows \cup {<<k, f[k]>> : k \in before \cup {m}}
              /\ history' = history \cup {m}
              /\ timers' = timers - 1

removeDevice(d) ==
    /\ shown' = shown \ {d} /\ active' = active \ {d}
    /\ rows' = rows \ OnDevice(rows, d)
    /\ UNCHANGED <<history, timers>>

\* Fault: the list of devices starts anew with each one added.
addDevicesAnew(ds) == shown' = ds /\ UNCHANGED <<active, rows, history, timers>>

\* A device that is in the list already stays as it is.
addDevices(ds) == shown' = shown \cup ds /\ UNCHANGED <<active, rows, history, timers>>

-----------------------------------------------------------------------------
(* The window.                                                             *)

\* checkPyMACDetect() with a value received.  removeMAC() looks in the list of devices
\* and finds nothing there.
Receive ==
    /\ timers > 0
    /\ fd = "open" /\ replies # <<>>
    /\ LET r == Head(replies)
       IN  CASE r.what = "devices-list" -> addDevices(r.devs)
             [] r.what = "device-added" -> addDevices({r.dev})
             [] r.what = "device-removed" -> removeDevice(r.dev)
             [] r.what = "known-mac-addresses" -> addMACs(r.macs) /\ UNCHANGED <<shown, active>>
             [] r.what = "mac-address-discovered" ->
                   addMACs([m \in {r.mac} |-> r.dev]) /\ UNCHANGED <<shown, active>>
             [] r.what = "mac-address-disappeared" -> UNCHANGED <<listVars, timers>>
    /\ replies' = Tail(replies)
    /\ UNCHANGED <<daemonVars, served, streams, fd, peerClosed, requests,
                   connectionState, dialog, countVars>>

\* No value has come in: the timer stays.
ReceiveNothing ==
    /\ timers > 0
    /\ fd = "open" /\ replies = <<>> /\ ~peerClosed
    /\ UNCHANGED vars

\* Fault: the end of a connection is taken for silence.
ReceiveEndIgnored ==
    /\ timers > 0
    /\ fd = "failed" \/ (fd = "open" /\ replies = <<>> /\ peerClosed)
    /\ UNCHANGED vars

\* DisconnectedError: the lists are cleared and the end is logged.  Then
\* ConnectionState.Disconnected, which does not exist, raises an exception: the state is
\* not set, and the button goes on to say that there is a connection.
ReceiveEnd ==
    /\ timers > 0
    /\ fd = "failed" \/ (fd = "open" /\ replies = <<>> /\ peerClosed)
    /\ ClearLists
    /\ timers' = timers - 1
    /\ UNCHANGED <<daemonVars, sessionVars, connectionState, dialog, countVars>>

\* A timer that has outlived its connection.
StopPolling ==
    /\ timers > 0
    /\ ~connected
    /\ timers' = timers - 1
    /\ UNCHANGED <<daemonVars, sessionVars, connectionState, dialog, listVars, countVars>>

\* clickConnectionManager() on "Connect".
OpenDialog ==
    /\ ~dialog /\ connectionState = "DISCONNECTED"
    /\ dialog' = TRUE
    /\ UNCHANGED <<daemonVars, sessionVars, connectionState, timers, listVars, countVars>>

\* clickConnectionManager() on "Disconnect".
Disconnect ==
    /\ ~dialog /\ connectionState = "CONNECTED"
    /\ NewDescriptor("none", <<>>)
    /\ connectionState' = "DISCONNECTED"
    /\ ClearLists
    /\ UNCHANGED <<daemonVars, dialog, timers, countVars>>

\* triggerClose(), or clickConnect() with no row selected.
Cancel ==
    /\ dialog
    /\ dialog' = FALSE
    /\ UNCHANGED <<daemonVars, sessionVars, connectionState, timers, listVars, countVars>>

\* processConnectionManager(): Client::connect() ends a former connection first and
\* leaves the descriptor of a failed one set.
ConnectFails ==
    /\ dialog
    /\ dialog' = FALSE
    /\ NewDescriptor("failed", <<>>)
    /\ connectionState' = "DISCONNECTED"
    /\ UNCHANGED <<daemonVars, timers, listVars, countVars>>

\* Fault: polling is begun by the first connect only.
ConnectPollingOnce ==
    /\ dialog /\ up
    /\ sessions < MaxSessions
    /\ dialog' = FALSE
    /\ NewDescriptor("open", <<[what |-> "devices-list"], [what |-> "known-mac-addresses"]>>)
    /\ connectionState' = "CONNECTED"
    /\ timers' = IF sessions = 0 THEN timers + 1 ELSE timers
    /\ sessions' = sessions + 1
    /\ UNCHANGED <<daemonVars, listVars, changes, toggles, doubled, familiar>>

\* Each connect adds a timer.
Connect ==
    /\ dialog /\ up
    /\ sessions < MaxSessions
    /\ dialog' = FALSE
    /\ NewDescriptor("open", <<[what |-> "devices-list"], [what |-> "known-mac-addresses"]>>)
    /\ connectionState' = "CONNECTED"
    /\ timers' = timers + 1
    /\ sessions' = sessions + 1
    /\ UNCHANGED <<daemonVars, listVars, changes, toggles, doubled, familiar>>

\* Fault: the addresses known already are not asked for.
ToggleWithoutAsking(d) ==
    /\ ~dialog /\ d \in shown
    /\ toggles < MaxToggles
    /\ toggles' = toggles + 1
    /\ active' = IF d \in active THEN active \ {d} ELSE active \cup {d}
    /\ requests' = sent(<<[what |-> IF d \in active THEN "disable-stream" ELSE "enable-stream",
                           dev |-> d]>>)
    /\ UNCHANGED <<daemonVars, served, streams, fd, peerClosed, replies, windowVars,
                   shown, rows, history, changes, sessions, doubled, familiar>>

\* deviceListToggled(): enableStream() asks for the addresses, and so does its caller.
Toggle(d) ==
    /\ ~dialog /\ d \in shown
    /\ toggles < MaxToggles
    /\ toggles' = toggles + 1
    /\ IF d \in active
       THEN /\ active' = active \ {d}
            /\ requests' = sent(<<[what |-> "disable-stream", dev |-> d]>>)
       ELSE /\ active' = active \cup {d}
            /\ requests' = sent(<<[what |-> "enable-stream", dev |-> d],
                                  [what |-> "known-mac-addresses"],
                                  [what |-> "known-mac-addresses"]>>)
    /\ UNCHANGED <<daemonVars, served, streams, fd, peerClosed, replies, windowVars,
                   shown, rows, history, changes, sessions, doubled, familiar>>

-----------------------------------------------------------------------------
\* The daemon may have been running for a while, and the program may have run before.
Init ==
    /\ known \in {{}, Devices} /\ present = {} /\ report = <<>> /\ phase = "monitor" /\ up = TRUE
    /\ served = FALSE /\ streams = {} /\ fd = "none" /\ peerClosed = FALSE
    /\ requests = <<>> /\ replies = <<>>
    /\ connectionState = "DISCONNECTED" /\ dialog = FALSE /\ timers = 0
    /\ shown = {} /\ active = {} /\ rows = {} /\ history \in {{}, MACs}
    /\ changes = 0 /\ sessions = 0 /\ toggles = 0 /\ doubled = {}
    /\ familiar = (MACs \subseteq history)

DaemonStep == Serve \/ HandleRequest \/ EndHandle \/ Dispatch

Poll == Receive \/ ReceiveNothing \/ ReceiveEnd \/ StopPolling

User == OpenDialog \/ Disconnect \/ Cancel \/ ConnectFails \/ Connect \/ \E d \in Devices : Toggle(d)

Next == NetworkChanges \/ DaemonStep \/ DaemonEnds \/ DaemonStarts \/ Poll \/ User

Spec == Init /\ [][Next]_vars

\* GLib calls a timer again and again; nobody has to click.
FairSpec == Spec /\ WF_vars(Poll)

-----------------------------------------------------------------------------
(* Properties.                                                             *)

\* As long as a connection may have something to read, a timer reads it: timers of former
\* connections run out at their ends, at failed connects and on no connection at all, and
\* never leave a later one without (checkPyMACDetect(), processConnectionManager()).  An
\* address that is new to the history does, with its exception, and so all have to be in
\* it to begin with.
ConnectionPolled ==
    familiar /\ fd = "open" /\ (peerClosed => replies # <<>>) => timers > 0

\* MDGui.py:154 logs "Connection closed by server." and means to set the state with it:
\* once everything is read and the last timer has met the end of the connection, the
\* button offers to connect again.
EndShown ==
    familiar /\ fd = "open" /\ peerClosed /\ replies = <<>> /\ timers = 0
        => connectionState = "DISCONNECTED"

\* Everything the daemon had to say has been read and all it was asked answered.
InStep ==
    /\ fd = "open" /\ up /\ ~peerClosed
    /\ requests = <<>> /\ replies = <<>> /\ report = <<>>

\* The list of devices then is the daemon's, and no address in the other list is on a
\* device that is not, although answers are taken from tables whose events are still
\* to be sent, and connections come and go.
DevicesShown == InStep => shown = known /\ \A p \in rows : p[2] \in shown

\* Every address on a device with a stream is in the list then, provided all addresses
\* were in the history to begin with and it has not been on two devices at once.
AddressesShown ==
    InStep /\ familiar =>
        \A p \in present : p[2] \in streams /\ p[1] \notin doubled => p \in rows

\* Data of a daemon that has ended does not stay on the screen as long as a timer
\* polls.
CloseNoticed == (peerClosed /\ timers > 0) ~> ((rows = {} /\ shown = {}) \/ timers = 0)
=============================================================================
