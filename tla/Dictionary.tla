----------------------------- MODULE Dictionary -----------------------------
(***************************************************************************)
(* The dictionaries a Python program sees in place of values               *)
(* (pymacdetect/src/PyMACDetect.cpp).  A message is a function from its    *)
(* one key to an entry; an entry has a content and the dictionary of the   *)
(* entries below it, the empty one standing for no item "subs" at all.     *)
(***************************************************************************)
EXTENDS Naturals, Sequences, FiniteSets, SequencesExt

Entry(content, subs) == [content |-> content, subs |-> subs]

Single(key, e) == [k \in {key} |-> e]

RECURSIVE EntryOf(_)

\* Fault: a single sub-value is taken for none.
EntryOfMany(v) ==
    LET keys == {v.subs[i].key : i \in DOMAIN v.subs}
    IN  Entry(v.content, IF Len(v.subs) = 1
                         THEN <<>>
                         ELSE [k \in keys |-> EntryOf(CHOOSE s \in Range(v.subs) : s.key = k)])

\* The entry of v: an item set again replaces the former one.
EntryOf(v) ==
    LET keys == {v.subs[i].key : i \in DOMAIN v.subs}
        LastOf(k) == CHOOSE i \in DOMAIN v.subs :
                        /\ v.subs[i].key = k
                        /\ \A j \in DOMAIN v.subs : v.subs[j].key = k => j <= i
    IN  Entry(v.content, [k \in keys |-> EntryOf(v.subs[LastOf(k)])])

valueToPyObject(v) == Single(v.key, EntryOf(v))

\* PyList_GetItem(PyDict_Keys(o), 0)
FirstKey(o) == CHOOSE k \in DOMAIN o : TRUE

RECURSIVE pyObjectToValue(_)

\* Every turn of the loop over the items below takes the first of them.
pyObjectToValue(o) ==
    LET key == FirstKey(o)
        subs == o[key].subs
    IN  [key |-> key, content |-> o[key].content,
         subs |->
             [i \in 1..Cardinality(DOMAIN subs) |->
                 pyObjectToValue(Single(FirstKey(subs), subs[FirstKey(subs)]))]]

-----------------------------------------------------------------------------
(* Reference definitions.                                                  *)

RECURSIVE SaysBelow(_, _), Means(_, _)

\* Value v says what dictionary o says, no more and no less.
Means(v, o) ==
    /\ DOMAIN o = {v.key}
    /\ v.content = o[v.key].content
    /\ DOMAIN o[v.key].subs = {v.subs[i].key : i \in DOMAIN v.subs}
    /\ Len(v.subs) = Cardinality(DOMAIN o[v.key].subs)
    /\ \A i \in DOMAIN v.subs :
          Means(v.subs[i], Single(v.subs[i].key, o[v.key].subs[v.subs[i].key]))

\* Entry e has v's content and, of all that is below v, whatever no brother with
\* the same key can displace.
SaysBelow(e, v) ==
    /\ e.content = v.content
    /\ DOMAIN e.subs = {v.subs[i].key : i \in DOMAIN v.subs}
    /\ \A i \in DOMAIN v.subs :
          (\A j \in DOMAIN v.subs \ {i} : v.subs[j].key # v.subs[i].key)
              => SaysBelow(e.subs[v.subs[i].key], v.subs[i])

Says(o, v) == DOMAIN o = {v.key} /\ SaysBelow(o[v.key], v)
=============================================================================
