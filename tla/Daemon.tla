------------------------------- MODULE Daemon -------------------------------
(***************************************************************************)
(* macdetectd as a whole (macdetectd/src/Daemon.cpp and the main loop of   *)
(* daemon.cpp): a cycle of the monitor, a cycle of the server, then the    *)
(* streams of dropped connections, the queued requests, the events of the  *)
(* monitor, discovery and keepalives.  One thread does all of it, while    *)
(* peers connect, ask and leave and a signal may come at any time; dpc     *)
(* says where it is.                                                       *)
(*                                                                         *)
(* A client is modelled by what one that follows the protocol has learnt   *)
(* and asked: a connection delivers in order, so a message is accounted    *)
(* for when it is sent.  When one could not be sent whole, or the peer has *)
(* left, what it knows does not matter any more and is forgotten.          *)
(***************************************************************************)
EXTENDS Monitor, Server

CONSTANTS
    ServingDevice,   \* the device of each serve entry
    MaxReport        \* bound on the events of one cycle, for model checking

ASSUME DaemonAssumption ==
    /\ ServingDevice \in [Servings -> Devices]
    /\ Requests \subseteq [op : {"devices-list", "known-mac-addresses", "enable-stream",
                                 "disable-stream", "mac-evidence"}, dev : Devices]
    /\ MaxReport \in Nat

VARIABLES
    dpc,        \* where Daemon::cycle() is
    shouldRun,  \* m_bShouldRun and m_bRun, which shutdown() clears together
    streams,    \* m_lstStreams: how often it holds a connection and a device
    cursor,     \* index of the next event to hand out
    client      \* what the peer of each connection has learnt and asked

daemonVars == <<dpc, shouldRun, streams, cursor, client>>
vars == <<monitorVars, serverVars, daemonVars>>

Ended == dpc \in {"exited", "killed"}

-----------------------------------------------------------------------------
(* The clients.                                                            *)

\* view is what the client has been told of addresses, on the devices it was told the
\* stream of is on, off the devices it has asked to switch off, and synced those whose
\* stream was on when it last asked for the addresses and of whose end it was not told.
NewClient == [hasDevices |-> FALSE, devices |-> {}, view |-> {}, on |-> {}, off |-> {},
              synced |-> {}]

OnDevice(pairs, d) == {p \in pairs : p[2] = d}

\* What a client makes of an info message about event e.
Learn(k, e) ==
    CASE e.type = "DeviceAdded"           -> [k EXCEPT !.devices = @ \cup {e.dev}]
      [] e.type = "DeviceRemoved"         -> [k EXCEPT !.devices = @ \ {e.dev},
                                                       !.view = @ \ OnDevice(@, e.dev)]
      [] e.type = "MACAddressDiscovered"  -> [k EXCEPT !.view = @ \cup {<<e.mac, e.dev>>}]
      [] e.type = "MACAddressDisappeared" -> [k EXCEPT !.view = @ \ {<<e.mac, e.dev>>}]
      [] OTHER                            -> k

\* "info: stream-disabled".
LearnDisabled(k, d) == [k EXCEPT !.on = @ \ {d}, !.synced = @ \ {d}]

-----------------------------------------------------------------------------
(* The streams.                                                            *)

streamEnabled(c, d) == d # None /\ streams[<<c, d>>] > 0

\* Fault: an entry is added without looking for an old one.
enableStreamBlindly(c, d) == [streams EXCEPT ![<<c, d>>] = @ + 1]

enableStream(c, d) ==
    IF streamEnabled(c, d) THEN streams ELSE [streams EXCEPT ![<<c, d>>] = @ + 1]

disableStream(c, d) ==
    IF streamEnabled(c, d) THEN [streams EXCEPT ![<<c, d>>] = @ - 1] ELSE streams

\* servingByID(): the device of the listener a connection came in by, and the
\* empty name when that listener has been closed since.
ServedOn(c) == IF via[c] \in DOMAIN serving THEN ServingDevice[via[c]] ELSE None

-----------------------------------------------------------------------------
(* Sending.  Each c is sent sends[c] messages; a signal ends the process.  *)

Send(sends, next) ==
    \E after \in [Conns -> {"free", "open", "cut", "closed", "reset", "broken", "gone", "killed"}] :
        /\ \A c \in Conns : after[c] \in AfterSends(sock[c], sends[c])
        /\ IF \E c \in Conns : after[c] = "killed"
           THEN dpc' = "killed" /\ UNCHANGED sock
           ELSE dpc' = next /\ sock' = after

\* Only an open socket leads to a peer that reads, and has read everything so far.
Told(sends, f(_)) ==
    [c \in Conns |-> IF sock'[c] # "open" THEN NewClient
                      ELSE IF sends[c] > 0 THEN f(c) ELSE client[c]]

-----------------------------------------------------------------------------
(* The monitor's and the server's turn.                                    *)

\* Network::shutdown() and Server::shutdown(), from the signal handler.
Signal ==
    /\ shouldRun
    /\ shouldRun' = FALSE
    /\ UNCHANGED <<monitorVars, serverVars, dpc, streams, cursor, client>>

\* Fault: Daemon::cycle() returns true when the monitor's cycle returned false.
NetworkStepGoingOn ==
    /\ dpc = "network"
    /\ \/ Start
       \/ Happening /\ Len(report') <= MaxReport
       \/ Progress
    /\ dpc' = IF stage' # "idle" \/ ~shouldRun THEN "network" ELSE "server"
    /\ UNCHANGED <<serverVars, shouldRun, streams, cursor, client>>

NetworkStep ==
    /\ dpc = "network"
    /\ \/ Start
       \/ Happening /\ Len(report') <= MaxReport
       \/ Progress
    /\ dpc' = IF stage' # "idle" THEN "network" ELSE IF shouldRun THEN "server" ELSE "exited"
    /\ UNCHANGED <<serverVars, shouldRun, streams, cursor, client>>

ServerStep ==
    /\ dpc = "server"
    /\ \/ shouldRun /\ BeginServer /\ UNCHANGED dpc
       \/ InServer /\ UNCHANGED dpc
       \/ Reap /\ dpc' = "drop"
    /\ UNCHANGED <<monitorVars, shouldRun, streams, cursor, client>>

\* Server::cycle() finds m_bRun cleared.
ServerStops ==
    /\ dpc = "server" /\ spc = "out" /\ ~shouldRun
    /\ dpc' = "exited"
    /\ UNCHANGED <<monitorVars, serverVars, shouldRun, streams, cursor, client>>

\* The signal comes between the two reads of m_bRun at the start of Server::cycle():
\* it does nothing and yet returns true.
SignalInServer ==
    /\ dpc = "server" /\ spc = "out" /\ shouldRun
    /\ shouldRun' = FALSE
    /\ dpc' = "drop"
    /\ UNCHANGED <<monitorVars, serverVars, streams, cursor, client>>

-----------------------------------------------------------------------------
(* The daemon's own turn.                                                  *)

\* Fault: the streams of a removed connection stay.
DropRemovedNotStreams ==
    /\ dpc = "drop"
    /\ dpc' = "handle"
    /\ sock' = [c \in Conns |-> IF c \in removed THEN "gone" ELSE sock[c]]
    /\ client' = [c \in Conns |-> IF c \in removed THEN NewClient ELSE client[c]]
    /\ removed' = {}
    /\ UNCHANGED <<monitorVars, via, inbox, asked, backlog, serving, served, failing, queue,
                   spc, listeners, unread, shouldRun, streams, cursor>>

\* Streams of removed connections are erased; with the last reference to a
\* connection its descriptor is closed.
DropRemoved ==
    /\ dpc = "drop"
    /\ dpc' = "handle"
    /\ streams' = [x \in Conns \X Devices |-> IF x[1] \in removed THEN 0 ELSE streams[x]]
    /\ sock' = [c \in Conns |-> IF c \in removed THEN "gone" ELSE sock[c]]
    /\ client' = [c \in Conns |-> IF c \in removed THEN NewClient ELSE client[c]]
    /\ removed' = {}
    /\ UNCHANGED <<monitorVars, via, inbox, asked, backlog, serving, served, failing, queue,
                   spc, listeners, unread, shouldRun, cursor>>

\* Fault: the answer names the listener's device, which may be none by now.
AnswerListener(c, r) ==
    LET k == client[c]
    IN  CASE r.op = "devices-list" -> [k EXCEPT !.hasDevices = TRUE, !.devices = known]
          [] r.op = "known-mac-addresses" ->
                [k EXCEPT !.view = present,
                          !.synced = {d \in Devices : streamEnabled(c, d)}]
          [] r.op = "enable-stream"  -> [k EXCEPT !.on = @ \cup {ServedOn(c)}]
          [] r.op = "disable-stream" -> [k EXCEPT !.on = @ \ {ServedOn(c)},
                                                  !.off = @ \cup {ServedOn(c)},
                                                  !.synced = @ \ {ServedOn(c)}]
          [] OTHER -> k

\* What the answer to request r tells its client: it names the device asked for.
Answer(c, r) ==
    LET k == client[c]
    IN  CASE r.op = "devices-list" -> [k EXCEPT !.hasDevices = TRUE, !.devices = known]
          [] r.op = "known-mac-addresses" ->
                [k EXCEPT !.view = present,
                          !.synced = {d \in Devices : streamEnabled(c, d)}]
          [] r.op = "enable-stream"  -> [k EXCEPT !.on = @ \cup {r.dev}]
          [] r.op = "disable-stream" -> [k EXCEPT !.on = @ \ {r.dev}, !.off = @ \cup {r.dev},
                                                  !.synced = @ \ {r.dev}]
          [] OTHER -> k

\* The stream tests look at the listener's device, not at the one asked for.
StreamsAfter(c, r) ==
    CASE r.op = "enable-stream" /\ ~streamEnabled(c, ServedOn(c)) -> enableStream(c, r.dev)
      [] r.op = "disable-stream" /\ streamEnabled(c, ServedOn(c)) ->
            disableStream(c, ServedOn(c))
      [] OTHER -> streams

HandleRequest ==
    /\ dpc = "handle"
    /\ queue # <<>>
    /\ LET c == Head(queue).conn
           r == Head(queue).req
           sends == [x \in Conns |-> IF x = c THEN 1 ELSE 0]
       IN  /\ Send(sends, "handle")
           /\ streams' = StreamsAfter(c, r)
           /\ client' = Told(sends, LAMBDA x : Answer(x, r))
    /\ queue' = Tail(queue)
    /\ UNCHANGED <<monitorVars, via, inbox, asked, backlog, serving, served, failing, removed,
                   spc, listeners, unread, shouldRun, cursor>>

EndHandle ==
    /\ dpc = "handle"
    /\ queue = <<>>
    /\ dpc' = "dispatch"
    /\ cursor' = 1
    /\ UNCHANGED <<monitorVars, serverVars, shouldRun, streams, client>>

MACEventTypes == {"MACAddressDiscovered", "MACAddressDisappeared", "MACEvidenceChanged"}

\* Fault: events about devices go to streams only, too.
RecipientsOfStreams(e) == {c \in served : e.dev # None => streamEnabled(c, e.dev)}

\* A MAC event goes to the streams of its device; strDeviceName is empty for all
\* other events, and for those everybody is told.
Recipients(e) ==
    {c \in served : e.type \in MACEventTypes /\ e.dev # None => streamEnabled(c, e.dev)}

\* Fault: the streams of a removed device end without a word.
EndsStreamSilently(e, c) == FALSE

\* The removal of a device first ends its streams, telling their connections.
EndsStream(e, c) == e.type = "DeviceRemoved" /\ streamEnabled(c, e.dev)

DispatchEvent ==
    /\ dpc = "dispatch"
    /\ cursor <= Len(report)
    /\ LET e == report[cursor]
           ended == [c \in Conns |-> IF EndsStream(e, c) THEN streams[<<c, e.dev>>] ELSE 0]
           info  == [c \in Conns |-> IF c \in Recipients(e) THEN 1 ELSE 0]
           sends == [c \in Conns |-> ended[c] + info[c]]
           Heard(c) == LET k == IF ended[c] > 0 THEN LearnDisabled(client[c], e.dev)
                                                ELSE client[c]
                       IN  IF info[c] > 0 THEN Learn(k, e) ELSE k
       IN  /\ Send(sends, "dispatch")
           /\ streams' = [x \in Conns \X Devices |->
                             IF e.type = "DeviceRemoved" /\ x[2] = e.dev THEN 0 ELSE streams[x]]
           /\ client' = Told(sends, Heard)
    /\ cursor' = cursor + 1
    /\ UNCHANGED <<monitorVars, via, inbox, asked, backlog, serving, served, failing, removed,
                   queue, spc, listeners, unread, shouldRun>>

\* DiscoveryServer::cycle() touches nothing of this state; then the keepalives,
\* when their interval is over.
EndCycle ==
    /\ dpc = "dispatch"
    /\ cursor > Len(report)
    /\ \E due \in BOOLEAN :
         Send([c \in Conns |-> IF due /\ c \in served THEN 1 ELSE 0], "network")
    /\ cursor' = 0
    /\ UNCHANGED <<monitorVars, via, inbox, asked, backlog, serving, served, failing, removed,
                   queue, spc, listeners, unread, shouldRun, streams, client>>

-----------------------------------------------------------------------------
Init ==
    /\ MonitorInit
    /\ ServerInit
    /\ dpc = "network" /\ shouldRun = TRUE
    /\ streams = [x \in Conns \X Devices |-> 0]
    /\ cursor = 0
    /\ client = [c \in Conns |-> NewClient]

PeerStep == ~Ended /\ Peers /\ UNCHANGED <<monitorVars, daemonVars>>

DaemonStep ==
    \/ NetworkStep \/ ServerStep \/ ServerStops \/ DropRemoved
    \/ HandleRequest \/ EndHandle \/ DispatchEvent \/ EndCycle

Over == Ended /\ UNCHANGED vars

Next == Signal \/ SignalInServer \/ PeerStep \/ DaemonStep \/ Over

Spec == Init /\ [][Next]_vars

\* The one thread keeps running; its sockets are non-blocking.
FairSpec == Spec /\ WF_vars(DaemonStep)

-----------------------------------------------------------------------------
(* Properties.                                                             *)

Message == [conn : Conns, req : Requests]

EventRecord == [type : {"DeviceAdded", "DeviceRemoved", "DeviceStatus"} \cup MACEventTypes,
                dev : Devices \cup {None}, mac : MACs \cup {None}]

Knowledge == [hasDevices : BOOLEAN, devices : SUBSET Devices, on : SUBSET Devices,
              off : SUBSET Devices, view : SUBSET (MACs \X Devices), synced : SUBSET Devices]

MonitorTypes ==
    /\ stage \in Stages /\ known \subseteq Devices /\ present \subseteq MACs \X Devices
    /\ heard \subseteq MACs
    /\ report \in Seq(EventRecord)

ServerTypes ==
    /\ sock \in [Conns -> Live \cup {"free", "gone"}]
    /\ DOMAIN via = Conns /\ \A c \in Conns : sock[c] # "free" => via[c] \in Servings
    /\ inbox \in [Conns -> Seq(Requests)] /\ asked \in [Conns -> 0..MaxRequests]
    /\ DOMAIN serving \subseteq Servings
    /\ serving \in [DOMAIN serving -> {"Stopped", "Started", "Invalid"}]
    /\ backlog \subseteq Conns /\ served \subseteq Conns /\ removed \subseteq Conns
    /\ failing \subseteq Conns /\ unread \subseteq Conns
    /\ queue \in Seq(Message)
    /\ spc \in {"out", "accept", "receive"} /\ listeners \subseteq Servings

\* The state of the three components and of the clients has its type.
TypeOK ==
    /\ MonitorTypes
    /\ ServerTypes
    /\ dpc \in {"network", "server", "drop", "handle", "dispatch", "exited", "killed"}
    /\ shouldRun \in BOOLEAN
    /\ streams \in [Conns \X Devices -> Nat]
    /\ cursor \in Nat
    /\ client \in [Conns -> Knowledge]

\* A connection is in one place only, from its arrival until its descriptor is
\* closed: none is lost with an open socket, none is served after it was removed.
ConnectionsAccountedFor ==
    /\ \A c \in Conns : sock[c] \in Live <=> c \in backlog \cup served \cup removed
    /\ backlog \cap served = {} /\ served \cap removed = {} /\ backlog \cap removed = {}
    /\ failing \subseteq served /\ unread \subseteq served

\* A stream belongs to a served connection, or to a removed one that the daemon is
\* about to see: m_lstStreams never keeps a connection alive or is sent to after it.
StreamsOfServed ==
    \A c \in Conns, d \in Devices : streams[<<c, d>>] > 0 =>
        c \in served \/ (c \in removed /\ dpc \in {"server", "drop"})

\* A queued request is answered to a connection that is still served.
QueuedFromServed == \A i \in 1..Len(queue) : queue[i].conn \in served

\* m_lstStreams holds a connection and a device at most once although the test
\* made before the insertion is about another device: no event is sent twice.
NoDuplicateStreams == \A x \in Conns \X Devices : streams[x] <= 1

AtRest == dpc = "network" /\ stage = "idle"

\* Between two cycles a client that once asked for the devices, and was told of
\* changes since, has the right set of them.
DevicesInSync ==
    AtRest => \A c \in Conns : sock[c] = "open" /\ client[c].hasDevices
                                   => client[c].devices = known

\* The client has asked to switch off no device but the one it connected by.
SwitchedOwnOnly(c) == client[c].off \subseteq {ServingDevice[via[c]]}

\* Between two cycles a client that had a device's stream on when it asked for the
\* addresses, and was not told since that it is off, has the device's right ones,
\* although the answer is sent ahead of events of the same cycle that it already takes
\* into account and streams end with their device.  A client that switches off another
\* device than the one it connected by is left out: the daemon then ends the stream of
\* the latter and names the former (Daemon.cpp:212), which ClientsKnowStreams is about.
ViewInSync ==
    AtRest => \A c \in Conns : sock[c] = "open" /\ SwitchedOwnOnly(c) =>
        \A d \in client[c].synced : OnDevice(client[c].view, d) = OnDevice(present, d)

\* docs/index.rst: clients "switch on and off MAC address notifications for them
\* individually": a client that was told a device's stream is on, or off, is right.
ClientsKnowStreams ==
    AtRest => \A c \in Conns : sock[c] = "open" =>
        \A d \in Devices : d \in client[c].on <=> streamEnabled(c, d)

\* README.md: "A client can decide whether they want to receive live updates": one
\* that has no stream on is sent no MAC event.
OnlySubscribersHear ==
    (dpc = "dispatch" /\ cursor <= Len(report) /\ report[cursor].type \in MACEventTypes)
        => \A c \in Recipients(report[cursor]) : \E d \in Devices : streamEnabled(c, d)

\* README.md counts "Connecting, disconnecting" to what "definitely works": no
\* client's leaving ends the daemon.
SurvivesDisconnects == dpc # "killed"

-----------------------------------------------------------------------------
(* Liveness, under FairSpec.                                               *)

Waiting(c) == inbox[c] # <<>> \/ \E i \in 1..Len(queue) : queue[i].conn = c

\* What an open connection has asked is answered, whatever else goes on.
RequestsAnswered ==
    \A c \in Conns : Waiting(c) ~> (~Waiting(c) \/ sock[c] \notin Established \/ Ended)

\* A connection whose peer left is dropped and its descriptor closed.
LeftConnectionsReaped ==
    \A c \in Conns : sock[c] \in Live \ Established ~> (sock[c] = "gone" \/ Ended)

\* A signal ends the main loop wherever it comes.
SignalEnds == ~shouldRun ~> Ended
=============================================================================
