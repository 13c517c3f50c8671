------------------------------ MODULE Packets ------------------------------
(***************************************************************************)
(* One direction of a connection, from the send() of one PacketEntity to   *)
(* the receive() of another (utils/src/PacketEntity.cpp), with a Python    *)
(* program at the client's end: requests are dictionaries that arrive as   *)
(* values, answers are values that arrive as dictionaries.                 *)
(*                                                                         *)
(* TCP keeps the order of the bytes and nothing else of a message: send()  *)
(* may take part of a buffer, and what it took arrives in pieces.  The     *)
(* receiver peeks, deserialises what it sees as if a whole value were      *)
(* there, and takes as many bytes as that used.                            *)
(***************************************************************************)
EXTENDS Value, SequencesExt

CONSTANTS
    Requests,           \* dictionaries a Python program sends
    Answers,            \* values the daemon sends
    ToValue(_),         \* pyObjectToValue(), in Dictionary
    ToPyObject(_),      \* valueToPyObject(), in Dictionary
    SameRequest(_, _),  \* a value says what a dictionary says
    SameAnswer(_, _),   \* a dictionary says what a value says
    BufferStep,         \* bytes by which the buffers grow, 2048 in the code
    Capacity,           \* bytes a connection holds between its two ends
    MaxSent             \* bound on the messages of a behaviour

ASSUME PacketsAssumption ==
    /\ BufferStep \in Nat \ {0} /\ Capacity \in Nat \ {0} /\ MaxSent \in Nat
    /\ Answers \subseteq Values /\ \A m \in Requests : ToValue(m) \in Values

VARIABLES
    direction,  \* "request" or "answer", fixed
    sent,       \* messages whose send() has put at least one byte on its way, or may yet
    sendBuffer, \* nBufferSize of send()
    unsent,     \* bytes of the buffer not taken yet
    wire,       \* bytes taken and not read
    arrived,    \* how many of them recv() can see
    closed,     \* the sender has closed its end
    recvBuffer, \* nBufferSize of receive(), 0 outside
    peeked,     \* nLength
    seen,       \* the value deserialised from the peeked bytes, and the bytes it used
    got,        \* messages receive() has returned
    ended,      \* "" or how receiving has ended: with m_bFailureState set, with a
                \* value made up in part, or with a crash
    cut         \* some message was sent or deserialised in part: the two ends are
                \* out of step, and the model goes no further

senderVars   == <<sent, sendBuffer, unsent, closed>>
receiverVars == <<recvBuffer, peeked, seen, got, ended>>
vars == <<direction, senderVars, wire, arrived, receiverVars, cut>>

-----------------------------------------------------------------------------
(* send()                                                                  *)

Outgoing == IF direction = "request" THEN Requests ELSE Answers

\* The value a message is sent as.
AsValue(m) == IF direction = "request" THEN ToValue(m) ELSE m

\* The buffer grows until serialize() finds it large enough.
Fitting(v) ==
    LET n == CHOOSE n \in 1..Size(v) :
                /\ serialize(v, n * BufferStep) # TooSmall
                /\ \A k \in 1..n - 1 : serialize(v, k * BufferStep) = TooSmall
    IN  n * BufferStep

Send(m) ==
    /\ ~closed /\ ~cut /\ unsent = <<>>
    /\ Len(sent) < MaxSent
    /\ sent' = Append(sent, m)
    /\ sendBuffer' = Fitting(AsValue(m))
    /\ unsent' = serialize(AsValue(m), sendBuffer')
    /\ UNCHANGED <<direction, wire, arrived, closed, receiverVars, cut>>

\* write() takes what it has room for; the loop goes on with the rest.
Write ==
    /\ unsent # <<>> /\ ~cut
    /\ \E n \in 1..Len(unsent) :
          /\ Len(wire) + n <= Capacity
          /\ wire' = wire \o SubSeq(unsent, 1, n)
          /\ unsent' = SubSeq(unsent, n + 1, Len(unsent))
    /\ UNCHANGED <<direction, sent, sendBuffer, arrived, closed, receiverVars, cut>>

\* write() has no room: send() gives up.  Nothing is wrong with the stream when it
\* had taken nothing of the message.
WriteFails ==
    /\ unsent # <<>> /\ ~cut
    /\ Len(wire) = Capacity
    /\ unsent' = <<>>
    /\ IF Len(unsent) = Size(AsValue(Last(sent)))
       THEN sent' = Front(sent) /\ UNCHANGED cut
       ELSE cut' = TRUE /\ UNCHANGED sent
    /\ UNCHANGED <<direction, sendBuffer, wire, arrived, closed, receiverVars>>

\* Client::disconnect(), or the end of a Served.
Close ==
    /\ ~closed /\ ~cut /\ unsent = <<>>
    /\ closed' = TRUE
    /\ UNCHANGED <<direction, sent, sendBuffer, unsent, wire, arrived, receiverVars, cut>>

-----------------------------------------------------------------------------
(* The network.                                                            *)

Arrive ==
    /\ ~cut
    /\ \E n \in arrived + 1..Len(wire) : arrived' = n
    /\ UNCHANGED <<direction, senderVars, wire, receiverVars, cut>>

-----------------------------------------------------------------------------
(* receive()                                                               *)

AsMessage(v) == IF direction = "request" THEN v ELSE ToPyObject(v)

\* No value is looked at between two calls.
Nothing == [values |-> <<>>, next |-> 0]

Receiving == ended = "" /\ ~cut /\ peeked = recvBuffer

Peeked == ended = "" /\ ~cut /\ peeked < recvBuffer

\* Fault: the buffer is not made larger.
PeekAgain ==
    /\ Receiving /\ arrived > 0
    /\ recvBuffer' = BufferStep
    /\ peeked' = IF arrived < recvBuffer' THEN arrived ELSE recvBuffer'
    /\ seen' = deserialize(SubSeq(wire, 1, peeked'))
    /\ UNCHANGED <<direction, senderVars, wire, arrived, got, ended, cut>>

\* recv() with MSG_PEEK into a new buffer.  A full one makes the loop go on; a value
\* is read from one that is not.
Peek ==
    /\ Receiving /\ arrived > 0
    /\ recvBuffer' = recvBuffer + BufferStep
    /\ peeked' = IF arrived < recvBuffer' THEN arrived ELSE recvBuffer'
    /\ seen' = deserialize(SubSeq(wire, 1, peeked'))
    /\ UNCHANGED <<direction, senderVars, wire, arrived, got, ended, cut>>

\* EAGAIN: no value this time.
ReceiveNothing ==
    /\ Receiving /\ recvBuffer = 0 /\ arrived = 0
    /\ wire # <<>> \/ ~closed
    /\ UNCHANGED vars

\* recv() gives 0: the failure state is set.
ReceiveEnd ==
    /\ Receiving /\ recvBuffer = 0
    /\ wire = <<>> /\ closed
    /\ ended' = "failure"
    /\ UNCHANGED <<direction, senderVars, wire, arrived, recvBuffer, peeked, seen, got, cut>>

Consume(n, m) ==
    /\ wire' = SubSeq(wire, n + 1, Len(wire))
    /\ arrived' = arrived - n
    /\ got' = Append(got, m)
    /\ recvBuffer' = 0 /\ peeked' = 0 /\ seen' = Nothing

\* Fault: all bytes that were peeked are taken.
PullPeeked ==
    /\ Peeked /\ seen.next <= peeked
    /\ Consume(peeked, AsMessage(seen.values[1]))
    /\ UNCHANGED <<direction, senderVars, ended, cut>>

\* A value is there: only its bytes are taken.
PullValue ==
    /\ Peeked /\ seen.next <= peeked
    /\ Consume(seen.next, AsMessage(seen.values[1]))
    /\ UNCHANGED <<direction, senderVars, ended, cut>>

\* deserialize() looks beyond the bytes received, at what happens to be in memory: a
\* length found there is one no stack can hold, or the rest of the value is made up.
PullPart ==
    /\ Peeked /\ seen.next > peeked
    /\ cut' = TRUE
    /\ ended' \in {"made up", "crash"}
    /\ UNCHANGED <<direction, senderVars, wire, arrived, recvBuffer, peeked, seen, got>>

-----------------------------------------------------------------------------
Init ==
    /\ direction \in {"request", "answer"}
    /\ sent = <<>> /\ sendBuffer = 0 /\ unsent = <<>> /\ closed = FALSE
    /\ wire = <<>> /\ arrived = 0
    /\ recvBuffer = 0 /\ peeked = 0 /\ seen = Nothing /\ got = <<>> /\ ended = ""
    /\ cut = FALSE

Sender == Write \/ WriteFails

Receiver == Peek \/ ReceiveNothing \/ ReceiveEnd \/ PullValue \/ PullPart

Over == (ended # "" \/ cut) /\ UNCHANGED vars

Next == (\E m \in Outgoing : Send(m)) \/ Close \/ Sender \/ Arrive \/ Receiver \/ Over

Spec == Init /\ [][Next]_vars

\* send() runs to its end, TCP delivers, and the receiver polls.
FairSpec == Spec /\ WF_vars(Sender) /\ WF_vars(Arrive) /\ WF_vars(Receiver)

-----------------------------------------------------------------------------
(* Properties.                                                             *)

\* However a stream is taken and delivered in pieces, as long as no message was
\* sent or looked at in part the daemon gets the requests Python wrote, in order.
RequestsIntact ==
    direction = "request" /\ ~cut =>
        Len(got) <= Len(sent) /\ \A i \in 1..Len(got) : SameRequest(got[i], sent[i])

\* And Python gets the daemon's answers, but for entries whose key occurs twice.
AnswersIntact ==
    direction = "answer" /\ ~cut =>
        Len(got) <= Len(sent) /\ \A i \in 1..Len(got) : SameAnswer(got[i], sent[i])

\* serialize() writes within the buffer it was given, and send() grows the buffer no
\* further than it must.
SendBufferFits ==
    unsent # <<>> => /\ Len(unsent) <= sendBuffer
                     /\ Size(AsValue(Last(sent))) \in sendBuffer - BufferStep + 1..sendBuffer

\* Every message that is sent is received, and the end of the connection is noticed,
\* unless a message was cut in two.
EverythingReceived ==
    /\ \A i \in 1..MaxSent : Len(sent) >= i ~> (Len(got) >= i \/ Len(sent) < i \/ cut)
    /\ closed ~> (ended # "" \/ cut)
=============================================================================
