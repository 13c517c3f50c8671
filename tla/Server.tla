------------------------------- MODULE Server -------------------------------
(***************************************************************************)
(* The connections of macdetectd (macdetectd/src/Server.cpp) and the TCP   *)
(* sockets under them, as far as the calls of Server and PacketEntity tell *)
(* their states apart:                                                     *)
(*   "free"    no such connection yet                                      *)
(*   "open"    established, the peer reads                                 *)
(*   "cut"     established, but the peer did not read and a send() found   *)
(*             the buffer full: a value was dropped in part or as a whole  *)
(*   "closed"  the peer closed in order: recv() gives 0 at the end, a      *)
(*             send() works and is answered by a reset                     *)
(*   "reset"   a reset came in: the next call on the socket fails          *)
(*   "broken"  that error has been given out: a send() raises SIGPIPE      *)
(*   "gone"    the daemon has dropped it                                   *)
(* Server::cycle() visits listeners and connections one after the other,   *)
(* and peers act in between; spc says where it is.                         *)
(***************************************************************************)
EXTENDS Naturals, Sequences

CONSTANTS
    Conns,          \* connections, each used once
    Servings,       \* IDs of the serve entries of the configuration
    Requests,       \* what a client can ask
    MaxRequests     \* bound on the requests of one connection

ASSUME ServerAssumption == MaxRequests \in Nat

VARIABLES
    sock,       \* state of each connection's socket
    via,        \* the listener a connection came in by
    inbox,      \* requests sent and not received yet
    asked,      \* number of requests a connection has sent
    backlog,    \* connections not accepted yet
    serving,    \* m_lstServings: ID -> stStatus
    served,     \* m_lstServed
    failing,    \* lstRemoveServed, local of cycle()
    removed,    \* m_lstRemoved
    queue,      \* m_lstValueQueue
    spc,        \* "out", "accept" or "receive"
    listeners,  \* servings the accept loop has still to visit
    unread      \* connections the receive loop has still to visit

peerVars   == <<sock, via, inbox, asked, backlog>>
serverVars == <<sock, via, inbox, asked, backlog, serving, served, failing, removed,
                queue, spc, listeners, unread>>

Established == {"open", "cut"}

Live == Established \cup {"closed", "reset", "broken"}

-----------------------------------------------------------------------------
(* The socket calls.                                                       *)

\* What n calls of send() in a row make of a socket.  The socket does not block: a send()
\* that finds its buffer full gives up the rest of the value and the connection goes on,
\* out of step from then on.  A reset may come in after each one that a closed peer gets.
\* PacketEntity::write() passes no MSG_NOSIGNAL and the process keeps the default action
\* of SIGPIPE.
AfterSends(s, n) ==
    CASE n = 0 \/ s = "cut"      -> {s}
      [] n > 0 /\ s = "open"     -> {"open", "cut"}
      [] n = 1 /\ s = "closed"   -> {"closed", "broken"}
      [] n = 1 /\ s = "reset"    -> {"broken"}
      [] n > 1 /\ s = "closed"   -> {"closed", "broken", "killed"}
      [] OTHER                   -> {"killed"}

-----------------------------------------------------------------------------
(* The peers.                                                              *)

Connect(c, v) ==
    /\ sock[c] = "free"
    /\ v \in DOMAIN serving /\ serving[v] = "Started"
    /\ sock' = [sock EXCEPT ![c] = "open"]
    /\ via' = [via EXCEPT ![c] = v]
    /\ backlog' = backlog \cup {c}
    /\ UNCHANGED <<inbox, asked, serving, served, failing, removed, queue, spc,
                   listeners, unread>>

SendRequest(c, r) ==
    /\ sock[c] \in Established
    /\ asked[c] < MaxRequests
    /\ inbox' = [inbox EXCEPT ![c] = Append(@, r)]
    /\ asked' = [asked EXCEPT ![c] = @ + 1]
    /\ UNCHANGED <<sock, via, backlog, serving, served, failing, removed, queue, spc,
                   listeners, unread>>

\* The peer closes.  With data it has not read its kernel sends a reset.
Disconnect(c) ==
    /\ sock[c] \in Established
    /\ \E s \in {"closed", "reset"} : sock' = [sock EXCEPT ![c] = s]
    /\ UNCHANGED <<via, inbox, asked, backlog, serving, served, failing, removed, queue,
                   spc, listeners, unread>>

-----------------------------------------------------------------------------
(* Server::cycle().                                                        *)

BeginServer ==
    /\ spc = "out"
    /\ spc' = "accept"
    /\ listeners' = DOMAIN serving
    /\ UNCHANGED <<peerVars, serving, served, failing, removed, queue, unread>>

\* accept4() yields a connection, which is greeted.
AcceptOne(v) ==
    \E c \in backlog :
        /\ via[c] = v
        /\ backlog' = backlog \ {c}
        /\ served' = served \cup {c}
        /\ \E s \in AfterSends(sock[c], 1) : sock' = [sock EXCEPT ![c] = s]
        /\ serving' = [serving EXCEPT ![v] = "Started"]

AcceptNone(v) ==
    /\ \A c \in backlog : via[c] # v
    /\ serving' = [serving EXCEPT ![v] = "Started"]
    /\ UNCHANGED <<backlog, served, sock>>

\* listen() or accept4() fails: no descriptor left, a network error passed on.
AcceptFails(v) ==
    /\ serving' = [serving EXCEPT ![v] = "Invalid"]
    /\ UNCHANGED <<backlog, served, sock>>

Accept(v) ==
    /\ spc = "accept"
    /\ v \in listeners
    /\ listeners' = listeners \ {v}
    /\ AcceptOne(v) \/ AcceptNone(v) \/ AcceptFails(v)
    /\ UNCHANGED <<via, inbox, asked, failing, removed, queue, spc, unread>>

\* Fault: connections of a closed listener are not read any more.
SweepServingsOrphaning ==
    /\ spc = "accept"
    /\ listeners = {}
    /\ serving' = [v \in {u \in DOMAIN serving : serving[u] = "Started"} |-> serving[v]]
    /\ LET lost == {c \in backlog : via[c] \notin DOMAIN serving'}
       IN  /\ backlog' = backlog \ lost
           /\ sock' = [c \in Conns |-> IF c \in lost THEN "gone" ELSE sock[c]]
    /\ unread' = {c \in served : via[c] \in DOMAIN serving'}
    /\ spc' = "receive"
    /\ UNCHANGED <<via, inbox, asked, served, failing, removed, queue, listeners>>

\* The servings that are not started are closed, with what waits for them.
SweepServings ==
    /\ spc = "accept"
    /\ listeners = {}
    /\ serving' = [v \in {u \in DOMAIN serving : serving[u] = "Started"} |-> serving[v]]
    /\ LET lost == {c \in backlog : via[c] \notin DOMAIN serving'}
       IN  /\ backlog' = backlog \ lost
           /\ sock' = [c \in Conns |-> IF c \in lost THEN "gone" ELSE sock[c]]
    /\ unread' = served
    /\ spc' = "receive"
    /\ UNCHANGED <<via, inbox, asked, served, failing, removed, queue, listeners>>

\* Fault: a connection whose peer has left fails together with its last value.
ReceiveValueAndFail(c) ==
    /\ inbox[c] # <<>>
    /\ inbox' = [inbox EXCEPT ![c] = Tail(@)]
    /\ queue' = Append(queue, [conn |-> c, req |-> Head(inbox[c])])
    /\ failing' = IF sock[c] \in Established THEN failing ELSE failing \cup {c}

\* receive() gives a value: handleValue() queues it.  What came in before the peer
\* closed or reset the connection can still be read.
ReceiveValue(c) ==
    /\ inbox[c] # <<>>
    /\ inbox' = [inbox EXCEPT ![c] = Tail(@)]
    /\ queue' = Append(queue, [conn |-> c, req |-> Head(inbox[c])])
    /\ UNCHANGED failing

ReceiveNothing(c) ==
    /\ inbox[c] = <<>> /\ sock[c] \in Established
    /\ UNCHANGED <<inbox, queue, failing>>

\* Fault: a recv() of 0 bytes is taken for no data.
ReceiveFailsNotAtEnd(c) ==
    /\ inbox[c] = <<>> /\ sock[c] \notin Established
    /\ failing' = IF sock[c] = "closed" THEN failing ELSE failing \cup {c}
    /\ UNCHANGED <<inbox, queue>>

\* recv() gives 0 or an error: the failure state is set.
ReceiveFails(c) ==
    /\ inbox[c] = <<>> /\ sock[c] \notin Established
    /\ failing' = failing \cup {c}
    /\ UNCHANGED <<inbox, queue>>

Receive(c) ==
    /\ spc = "receive"
    /\ c \in unread
    /\ unread' = unread \ {c}
    /\ ReceiveValue(c) \/ ReceiveNothing(c) \/ ReceiveFails(c)
    /\ UNCHANGED <<sock, via, asked, backlog, serving, served, removed, spc, listeners>>

\* Fault: a failed connection is handed out and kept.
ReapKept ==
    /\ spc = "receive"
    /\ unread = {}
    /\ removed' = removed \cup failing
    /\ failing' = {}
    /\ spc' = "out"
    /\ UNCHANGED <<peerVars, serving, served, queue, listeners, unread>>

Reap ==
    /\ spc = "receive"
    /\ unread = {}
    /\ removed' = removed \cup failing
    /\ served' = served \ failing
    /\ failing' = {}
    /\ spc' = "out"
    /\ UNCHANGED <<peerVars, serving, queue, listeners, unread>>

-----------------------------------------------------------------------------
ServerInit ==
    /\ sock = [c \in Conns |-> "free"]
    /\ via = [c \in Conns |-> CHOOSE v \in Servings : TRUE]
    /\ inbox = [c \in Conns |-> <<>>]
    /\ asked = [c \in Conns |-> 0]
    /\ backlog = {}
    /\ serving = [v \in Servings |-> "Stopped"]
    /\ served = {} /\ failing = {} /\ removed = {}
    /\ queue = <<>>
    /\ spc = "out" /\ listeners = {} /\ unread = {}

Peers ==
    \/ \E c \in Conns, v \in Servings : Connect(c, v)
    \/ \E c \in Conns, r \in Requests : SendRequest(c, r)
    \/ \E c \in Conns : Disconnect(c)

\* The steps of Server::cycle() after its first one, but for the last.
InServer ==
    \/ \E v \in Servings : Accept(v)
    \/ SweepServings
    \/ \E c \in Conns : Receive(c)
=============================================================================
