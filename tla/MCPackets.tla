----------------------------- MODULE MCPackets -----------------------------
(***************************************************************************)
(* A small instance of Packets for TLC: lengths of two bytes.              *)
(***************************************************************************)
EXTENDS Packets, Dictionary

\* A request without and one with a device name.
MCRequests ==
    {Single(<<1>>, Entry(<<2>>, <<>>)),
     Single(<<1>>, Entry(<<>>, Single(<<3>>, Entry(<<2>>, <<>>))))}

\* An answer whose list holds two entries, under keys that are equal or not.
MCAnswers ==
    {Node(<<1>>, <<>>, <<Node(<<2>>, <<>>, <<Node(<<>>, <<3>>, <<>>)>>),
                         Node(k, <<>>, <<>>)>>) : k \in {<<2>>, <<3>>}}
        \cup {Node(<<1>>, <<2>>, <<>>)}

RECURSIVE WithBelow(_), MCOffset(_, _)

\* A value and all values below it.
WithBelow(v) == {v} \cup UNION {WithBelow(v.subs[i]) : i \in DOMAIN v.subs}

MCValues == UNION {WithBelow(v) : v \in MCAnswers \cup {pyObjectToValue(m) : m \in MCRequests}}

MCOffset(v, i) ==
    IF i = 1 THEN 3 * WordSize + Len(v.key) + Len(v.content)
    ELSE MCOffset(v, i - 1) + MCOffset(v.subs[i - 1], Len(v.subs[i - 1].subs) + 1)
=============================================================================
