----------------------------- MODULE Discovery -----------------------------
(***************************************************************************)
(* How a desktop client finds the daemon: DiscoveryClient and              *)
(* DiscoveryServer, two DiscoveryNodes whose MulticastEndpoints have       *)
(* joined 224.0.0.1 on port 2077 (utils/src), and the list of servers of   *)
(* the connection manager (pymd/pymdGui).                                  *)
(*                                                                         *)
(* Each datagram goes to every member, its sender included (the loopback   *)
(* option is set).  It may arrive late, more than once, after others or    *)
(* never, and not where the socket's queue is full: what was sent stays in *)
(* the air, and any of it may arrive next.                                 *)
(***************************************************************************)
EXTENDS Naturals, Sequences, SequencesExt

CONSTANTS
    MaxQueued   \* datagrams a socket's queue holds

ASSUME DiscoveryAssumption == MaxQueued \in Nat \ {0}

VARIABLES
    joined,     \* members whose endpoint is ok()
    air,        \* datagrams sent
    inbox,      \* datagrams queued at each member's socket
    listed      \* lsServerList: rows of a name and an address

discoveryVars == <<joined, air, inbox, listed>>

Members == {"desktop", "daemon"}

\* A value sent carries no more than this; the sender's address comes with it.
Request == [key |-> "request", name |-> <<>>]
Response(n) == [key |-> "response", name |-> n]
InitDiscovery(desktop) ==
    /\ joined = IF desktop THEN {"desktop"} ELSE {}
    /\ air = {} /\ inbox = [m \in Members |-> <<>>]
    /\ listed = <<>>

-----------------------------------------------------------------------------
(* The network.                                                            *)

\* sendto() the group; nothing happens on a socket that has not joined.
Sent(from, value) ==
    IF from \in joined THEN {[from |-> from, to |-> m, value |-> value] : m \in Members}
    ELSE {}

Deliver(d) ==
    /\ d \in air
    /\ d.to \in joined /\ Len(inbox[d.to]) < MaxQueued
    /\ inbox' = [inbox EXCEPT ![d.to] = Append(@, d)]
    /\ UNCHANGED <<joined, air, listed>>

\* DiscoveryNode::receive(): the datagram that is looked at, and what its socket holds
\* when it has been read, whatever part of it was asked for.
receive(m) == Head(inbox[m])

Remaining(m) == [inbox EXCEPT ![m] = IF @ = <<>> THEN @ ELSE Tail(@)]

-----------------------------------------------------------------------------
(* The client.                                                             *)

\* Each click on the connection button asks, whatever else it does.
detectServers ==
    /\ "desktop" \in joined
    /\ air' = air \cup Sent("desktop", Request)
    /\ UNCHANGED <<joined, inbox, listed>>

ipInList(ip) == \E i \in DOMAIN listed : listed[i].ip = ip

\* Fault: servers are told apart by their row.
addServerAnew(info) == Append(listed, info)

addServer(info) == IF ipInList(info.ip) THEN listed ELSE Append(listed, info)

\* DiscoveryClient::processReceivedValue() and detectedServers().
detectedServers(d) ==
    IF d.value.key = "response" THEN <<[name |-> d.value.name, ip |-> d.from]>> ELSE <<>>

\* The timer of the window: cycle() takes one datagram from the socket.
checkServerInfo ==
    /\ inbox["desktop"] # <<>>
    /\ LET infos == detectedServers(receive("desktop"))
       IN  listed' = IF infos = <<>> THEN listed ELSE addServer(infos[1])
    /\ inbox' = Remaining("desktop")
    /\ UNCHANGED <<joined, air>>

-----------------------------------------------------------------------------
(* The daemon's part, steps of its main loop and of its process.           *)

asked == inbox["daemon"] # <<>> /\ receive("daemon").value = Request

\* Fault: what is no request stays in the socket's queue.
serverCycleKeeping(identifier) ==
    /\ inbox' = IF asked THEN Remaining("daemon") ELSE inbox
    /\ air' = IF asked THEN air \cup Sent("daemon", Response(identifier)) ELSE air
    /\ UNCHANGED <<joined, listed>>

\* DiscoveryServer::cycle() takes one datagram, if there is one; a request is answered
\* to the whole group.
serverCycle(identifier) ==
    /\ inbox' = Remaining("daemon")
    /\ air' = IF asked THEN air \cup Sent("daemon", Response(identifier)) ELSE air
    /\ UNCHANGED <<joined, listed>>

\* The constructor of MulticastEndpoint; without a network to join in, the socket is
\* closed again.
serverJoins ==
    /\ joined' \in {joined, joined \cup {"daemon"}}
    /\ UNCHANGED <<air, inbox, listed>>

\* The end of the process: what its socket has not given out is gone.
serverLeaves ==
    /\ joined' = joined \ {"daemon"}
    /\ inbox' = [inbox EXCEPT !["daemon"] = <<>>]
    /\ UNCHANGED <<air, listed>>
=============================================================================
