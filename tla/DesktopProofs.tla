--------------------------- MODULE DesktopProofs ---------------------------
(***************************************************************************)
(* Proofs about Desktop: the window's lists agree with the daemon whenever *)
(* nothing is under way between them, for every set of devices and         *)
(* addresses and any number of connections.  Device and address news reach *)
(* the window through three queues (the daemon's report, its answers, the  *)
(* socket), so the invariants say of each device and address what the last *)
(* news in them will make of the lists.                                    *)
(***************************************************************************)
EXTENDS Desktop, SequenceTheorems, TLAPS

(* What is on its way.                                                     *)

DeviceNews == [what : {"device-added", "device-removed"}, dev : Devices]
MACNews    == [what : MACEvents, mac : MACs, dev : Devices]
News       == DeviceNews \cup MACNews

Dictionaries == UNION {[S -> Devices] : S \in SUBSET MACs}

Values == News \cup [what : {"devices-list"}, devs : SUBSET Devices]
               \cup [what : {"known-mac-addresses"}, macs : Dictionaries]

Asking == [what : {"devices-list", "known-mac-addresses"}]
             \cup [what : {"enable-stream", "disable-stream"}, dev : Devices]

\* Values that remove a device from the lists, that add it, that add an address to the
\* list, and that bring a device up in either list.
Removing(d) == {v \in Values : v.what = "device-removed" /\ v.dev = d}

Adding(d) == {v \in Values : \/ v.what = "device-added" /\ v.dev = d
                             \/ v.what = "devices-list" /\ d \in v.devs}

Entering(m, d) ==
    {v \in Values : \/ v.what = "known-mac-addresses" /\ m \in DOMAIN v.macs /\ v.macs[m] = d
                    \/ v.what = "mac-address-discovered" /\ v.mac = m /\ v.dev = d}

Naming(d) == Adding(d) \cup UNION {Entering(m, d) : m \in MACs}

\* A value of P is in the queue, and none of R behind it.
Left(s, P, R) == \E i \in 1..Len(s) : s[i] \in P /\ \A j \in (i + 1)..Len(s) : s[j] \notin R

Free(s, R) == \A i \in 1..Len(s) : s[i] \notin R

\* A request of this kind has not been answered yet.
Pending(what) == \E i \in 1..Len(requests) : requests[i].what = what

-----------------------------------------------------------------------------
(* The inductive invariant.                                                *)

Types ==
    /\ known \subseteq Devices /\ present \subseteq MACs \X known
    /\ streams \subseteq Devices /\ shown \subseteq Devices /\ rows \subseteq MACs \X Devices
    /\ report \in Seq(News) /\ replies \in Seq(Values) /\ requests \in Seq(Asking)
    /\ served \in BOOLEAN /\ peerClosed \in BOOLEAN /\ familiar \in BOOLEAN
    /\ familiar => MACs \subseteq history

\* The button follows the user's connects that worked and disconnects; a connection that
\* the daemon has closed counts until then, and a failed connect, whose descriptor stays,
\* does not.
ButtonFollowsDescriptor == connectionState = "CONNECTED" <=> fd = "open"

\* A session begins with empty lists and ends with them.
Sessions ==
    /\ ButtonFollowsDescriptor
    /\ dialog => connectionState = "DISCONNECTED"
    /\ connectionState \in {"CONNECTED", "DISCONNECTED"}
    /\ fd # "open" => shown = {} /\ rows = {} /\ replies = <<>> /\ requests = <<>> /\ ~peerClosed
    /\ served => fd = "open" /\ ~peerClosed
    /\ ~served => streams = {}
    /\ ~served /\ ~peerClosed => shown = {} /\ rows = {} /\ replies = <<>>
    /\ fd = "open" /\ ~peerClosed /\ ~served => Pending("devices-list")

\* Who has a stream switched on asks for the addresses afterwards.
EnablingAsks ==
    \A i \in 1..Len(requests) : requests[i].what = "enable-stream" =>
        i + 1 \in 1..Len(requests) /\ requests[i + 1].what = "known-mac-addresses"

OneDevice == \A m \in MACs \ doubled : \A d, f \in Devices :
                 <<m, d>> \in present /\ <<m, f>> \in present => d = f

\* The last news of a device in the report is right, and so is that of an address.
ReportRight ==
    \A d \in Devices :
        /\ Left(report, Naming(d), Removing(d)) => d \in known
        /\ d \in known => Free(report, Removing(d)) \/ Left(report, Adding(d), Removing(d))
        /\ \A m \in MACs : <<m, d>> \in present =>
              Free(report, Removing(d)) \/ Left(report, Entering(m, d), Removing(d))

\* What is shown, or will be, and not removed behind it, is there.
NothingStale ==
    ~peerClosed => \A d \in Devices : Free(report, Removing(d)) =>
        /\ Left(replies, Naming(d), Removing(d)) => d \in known
        /\ Free(replies, Removing(d)) /\ (d \in shown \/ \E m \in MACs : <<m, d>> \in rows)
              => d \in known

\* A device that is there is shown, or will be and stay.
DevicesArrive ==
    fd = "open" /\ ~peerClosed /\ ~Pending("devices-list") => \A d \in known :
        \/ Left(report, Adding(d), Removing(d))
        \/ /\ Free(report, Removing(d))
           /\ \/ Left(replies, Adding(d), Removing(d))
              \/ Free(replies, Removing(d)) /\ d \in shown

\* The same of an address on a device whose stream is on.
AddressesArrive ==
    familiar /\ ~Pending("known-mac-addresses") => \A m \in MACs \ doubled, d \in streams :
        <<m, d>> \in present =>
            \/ Left(report, Entering(m, d), Removing(d))
            \/ /\ Free(report, Removing(d))
               /\ \/ Left(replies, Entering(m, d), Removing(d))
                  \/ Free(replies, Removing(d)) /\ <<m, d>> \in rows

DesktopInv == /\ Types /\ Sessions /\ EnablingAsks /\ OneDevice /\ ReportRight
              /\ NothingStale /\ DevicesArrive /\ AddressesArrive

-----------------------------------------------------------------------------
(* Queues.                                                                 *)

\* An empty queue holds nothing back and brings nothing.
LEMMA QueueEmpty == ASSUME NEW P, NEW R PROVE Free(<<>>, R) /\ ~Left(<<>>, P, R)
  BY DEF Free, Left

\* A value put at the end decides for the kinds it belongs to.
LEMMA QueueAppend ==
    ASSUME NEW S, NEW s \in Seq(S), NEW e \in S, NEW P, NEW R
    PROVE  /\ Append(s, e) \in Seq(S)
           /\ Free(Append(s, e), R) <=> Free(s, R) /\ e \notin R
           /\ Left(Append(s, e), P, R) <=> e \in P \/ (Left(s, P, R) /\ e \notin R)
<1> DEFINE t == Append(s, e)
           n == Len(s)
<1>1. /\ t \in Seq(S) /\ n \in Nat /\ Len(t) = n + 1
      /\ \A i \in 1..n : t[i] = s[i]
      /\ t[n + 1] = e
  BY AppendProperties, LenProperties
<1> HIDE DEF t, n
<1>2. \A i \in 1..Len(t) : i \in 1..n \/ i = n + 1
  BY <1>1
<1>3. Free(t, R) <=> Free(s, R) /\ e \notin R
  <2>1. Free(t, R) => Free(s, R) /\ e \notin R
    BY <1>1 DEF Free, n
  <2>2. Free(s, R) /\ e \notin R => Free(t, R)
    BY <1>1, <1>2 DEF Free, n
  <2> QED
    BY <2>1, <2>2
<1>4. ASSUME Left(t, P, R) PROVE e \in P \/ (Left(s, P, R) /\ e \notin R)
  <2>1. PICK i \in 1..Len(t) : t[i] \in P /\ \A j \in (i + 1)..Len(t) : t[j] \notin R
    BY <1>4 DEF Left
  <2>2. CASE i = n + 1
    BY <1>1, <2>1, <2>2
  <2>3. CASE i \in 1..n
    <3>1. e \notin R
      BY <1>1, <2>1, <2>3
    <3>2. s[i] \in P /\ \A j \in (i + 1)..n : s[j] \notin R
      BY <1>1, <2>1, <2>3
    <3> QED
      BY <2>3, <3>1, <3>2 DEF Left, n
  <2> QED
    BY <1>2, <2>2, <2>3
<1>5. ASSUME e \in P PROVE Left(t, P, R)
  <2>1. n + 1 \in 1..Len(t) /\ t[n + 1] \in P /\ \A j \in (n + 1 + 1)..Len(t) : t[j] \notin R
    BY <1>1, <1>5
  <2> QED
    BY <2>1 DEF Left
<1>6. ASSUME Left(s, P, R), e \notin R PROVE Left(t, P, R)
  <2>1. PICK i \in 1..n : s[i] \in P /\ \A j \in (i + 1)..n : s[j] \notin R
    BY <1>6 DEF Left, n
  <2>2. i \in 1..Len(t) /\ t[i] \in P /\ \A j \in (i + 1)..Len(t) : t[j] \notin R
    <3>1. i \in 1..Len(t) /\ t[i] \in P
      BY <1>1, <2>1
    <3>2. ASSUME NEW j \in (i + 1)..Len(t) PROVE t[j] \notin R
      <4>1. j \in (i + 1)..n \/ j = n + 1
        BY <1>1, <2>1, <3>2
      <4> QED
        BY <1>1, <1>6, <2>1, <4>1
    <3> QED
      BY <3>1, <3>2
  <2> QED
    BY <2>2 DEF Left
<1> QED
  BY <1>1, <1>3, <1>4, <1>5, <1>6 DEF t

\* A value taken from the front counted only as long as nothing behind it overruled it.
LEMMA QueueTail ==
    ASSUME NEW S, NEW s \in Seq(S), s # <<>>, NEW P, NEW R
    PROVE  /\ Tail(s) \in Seq(S) /\ Head(s) \in S
           /\ Free(s, R) <=> Free(Tail(s), R) /\ Head(s) \notin R
           /\ Left(s, P, R) <=> Left(Tail(s), P, R) \/ (Head(s) \in P /\ Free(Tail(s), R))
<1> DEFINE t == Tail(s)
           n == Len(t)
<1>1. /\ t \in Seq(S) /\ n \in Nat /\ Len(s) = n + 1 /\ Head(s) = s[1] /\ Head(s) \in S
      /\ \A i \in 1..n : t[i] = s[i + 1]
  BY HeadTailProperties, EmptySeq, LenProperties
<1> HIDE DEF t, n
<1>2. \A i \in 1..Len(s) : i = 1 \/ (i - 1 \in 1..n /\ s[i] = t[i - 1])
  <2>1. ASSUME NEW i \in 1..Len(s), i # 1 PROVE i - 1 \in 1..n /\ s[i] = t[i - 1]
    <3>1. i - 1 \in 1..n
      BY <1>1, <2>1
    <3>2. t[i - 1] = s[(i - 1) + 1]
      BY <1>1, <3>1
    <3> QED
      BY <3>1, <3>2
  <2> QED
    BY <2>1
<1>3. \A i \in 1..n : i + 1 \in 1..Len(s) /\ s[i + 1] = t[i]
  BY <1>1
<1>4. 1 \in 1..Len(s)
  BY <1>1
<1>5. Free(s, R) <=> Free(t, R) /\ Head(s) \notin R
  <2>1. Free(s, R) => Free(t, R) /\ Head(s) \notin R
    BY <1>1, <1>3, <1>4 DEF Free, n
  <2>2. Free(t, R) /\ Head(s) \notin R => Free(s, R)
    BY <1>1, <1>2 DEF Free, n
  <2> QED
    BY <2>1, <2>2
<1>6. ASSUME Left(s, P, R) PROVE Left(t, P, R) \/ (Head(s) \in P /\ Free(t, R))
  <2>1. PICK i \in 1..Len(s) : s[i] \in P /\ \A j \in (i + 1)..Len(s) : s[j] \notin R
    BY <1>6 DEF Left
  <2>2. CASE i = 1
    <3>1. ASSUME NEW j \in 1..n PROVE t[j] \notin R
      <4>1. j + 1 \in (i + 1)..Len(s)
        BY <1>1, <2>2, <3>1
      <4> QED
        BY <1>3, <2>1, <4>1
    <3> QED
      BY <1>1, <2>1, <2>2, <3>1 DEF Free, n
  <2>3. CASE i # 1
    <3>1. i - 1 \in 1..n /\ t[i - 1] \in P
      BY <1>2, <2>1, <2>3
    <3>2. ASSUME NEW j \in ((i - 1) + 1)..n PROVE t[j] \notin R
      <4>1. j + 1 \in (i + 1)..Len(s) /\ j \in 1..n
        BY <1>1, <2>1, <3>1, <3>2
      <4> QED
        BY <1>3, <2>1, <4>1
    <3> QED
      BY <3>1, <3>2 DEF Left, n
  <2> QED
    BY <2>2, <2>3
<1>7. ASSUME Left(t, P, R) PROVE Left(s, P, R)
  <2>1. PICK i \in 1..n : t[i] \in P /\ \A j \in (i + 1)..n : t[j] \notin R
    BY <1>7 DEF Left, n
  <2>2. i + 1 \in 1..Len(s) /\ s[i + 1] \in P
    BY <1>3, <2>1
  <2>3. ASSUME NEW j \in ((i + 1) + 1)..Len(s) PROVE s[j] \notin R
    <3>1. j \in 1..Len(s) /\ j # 1 /\ j - 1 \in (i + 1)..n
      BY <1>1, <2>1, <2>3
    <3> QED
      BY <1>2, <2>1, <3>1
  <2> QED
    BY <2>2, <2>3 DEF Left
<1>8. ASSUME Head(s) \in P, Free(t, R) PROVE Left(s, P, R)
  <2>1. ASSUME NEW j \in (1 + 1)..Len(s) PROVE s[j] \notin R
    <3>1. j \in 1..Len(s) /\ j # 1
      BY <1>1, <2>1
    <3> QED
      BY <1>2, <1>8, <3>1 DEF Free, n
  <2> QED
    BY <1>1, <1>4, <1>8, <2>1 DEF Left
<1> QED
  BY <1>1, <1>5, <1>6, <1>7, <1>8 DEF t

\* What kind of value brings or removes what.
LEMMA Kinds ==
    ASSUME NEW v \in Values, NEW d \in Devices
    PROVE  /\ v \in Removing(d) <=> v.what = "device-removed" /\ v.dev = d
           /\ v \in Adding(d) <=> \/ v.what = "device-added" /\ v.dev = d
                                  \/ v.what = "devices-list" /\ d \in v.devs
           /\ \A m \in MACs : v \in Entering(m, d) <=>
                \/ v.what = "known-mac-addresses" /\ m \in DOMAIN v.macs /\ v.macs[m] = d
                \/ v.what = "mac-address-discovered" /\ v.mac = m /\ v.dev = d
           /\ v \in Naming(d) <=> v \in Adding(d) \/ \E n \in MACs : v \in Entering(n, d)
           /\ v \in Naming(d) => v \notin Removing(d)
<1>1. v \in Naming(d) <=> v \in Adding(d) \/ \E n \in MACs : v \in Entering(n, d)
  BY DEF Naming
<1>2. v \in Removing(d) => v \notin Adding(d) /\ \A n \in MACs : v \notin Entering(n, d)
  BY DEF Removing, Adding, Entering
<1> QED
  BY <1>1, <1>2 DEF Removing, Adding, Entering

\* News are values, and a queue of them a queue of values.
LEMMA NewsAreValues == News \subseteq Values /\ \A s \in Seq(News) : s \in Seq(Values)
<1>1. News \subseteq Values
  BY DEF Values
<1> QED
  BY <1>1, SeqMonotonic

-----------------------------------------------------------------------------
(* The daemon's side.                                                      *)

\* A change of the network, which its news accounts for.
LEMMA Inv_Changed ==
    ASSUME DesktopInv, NEW e \in News, report' = Append(report, e),
           known' \subseteq Devices, present' \subseteq MACs \X known',
           UNCHANGED <<sessionVars, windowVars, listVars, familiar>>,
           doubled' = doubled \cup {m \in MACs : \E d, f \in Devices :
                                        d # f /\ {<<m, d>>, <<m, f>>} \subseteq present'},
           \A d \in Devices :
             /\ e \in Removing(d) => d \notin known'
             /\ e \in Naming(d) => d \in known'
             /\ d \in known' => d \in known \/ e \in Adding(d)
             /\ d \in known /\ d \notin known' => e \in Removing(d)
             /\ \A m \in MACs : <<m, d>> \in present' =>
                   <<m, d>> \in present \/ e \in Entering(m, d)
    PROVE  DesktopInv'
<1>0. UNCHANGED <<served, streams, fd, peerClosed, requests, replies, connectionState, dialog,
                  shown, active, rows, history, familiar>>
  BY DEF sessionVars, windowVars, listVars
<1>1. report \in Seq(News)
  BY DEF DesktopInv, Types
<1>2. ASSUME NEW P, NEW R
      PROVE  /\ report' \in Seq(News)
             /\ Free(report', R) <=> Free(report, R) /\ e \notin R
             /\ Left(report', P, R) <=> e \in P \/ (Left(report, P, R) /\ e \notin R)
  BY <1>1, QueueAppend
<1>3. Types'
  BY <1>0, <1>2 DEF DesktopInv, Types
<1>4. Sessions' /\ EnablingAsks'
  BY <1>0 DEF DesktopInv, Sessions, ButtonFollowsDescriptor, Pending, EnablingAsks
<1>5. OneDevice'
  BY <1>3 DEF OneDevice, Types
<1>6. \A d \in Devices, m \in MACs : <<m, d>> \in present' => d \in known'
  OBVIOUS
<1>7. ReportRight'
  BY <1>2, <1>6 DEF DesktopInv, ReportRight
<1>8. NothingStale'
  BY <1>0, <1>2 DEF DesktopInv, NothingStale
<1>9. DevicesArrive'
  <2>1. Pending("devices-list")' <=> Pending("devices-list")
    BY <1>0 DEF Pending
  <2> QED
    BY <1>0, <1>2, <2>1 DEF DesktopInv, DevicesArrive
<1>10. AddressesArrive'
  <2>1. Pending("known-mac-addresses")' <=> Pending("known-mac-addresses")
    BY <1>0 DEF Pending
  <2>2. streams \subseteq Devices
    BY DEF DesktopInv, Types
  <2>3. SUFFICES ASSUME familiar', ~Pending("known-mac-addresses")',
                        NEW m \in MACs \ doubled', NEW d \in streams', <<m, d>> \in present'
                 PROVE  \/ Left(report', Entering(m, d), Removing(d))
                        \/ /\ Free(report', Removing(d))
                           /\ \/ Left(replies', Entering(m, d), Removing(d))
                              \/ Free(replies', Removing(d)) /\ <<m, d>> \in rows'
    BY DEF AddressesArrive
  <2>4. m \in MACs \ doubled /\ d \in Devices /\ d \in streams /\ e \notin Removing(d)
    BY <1>0, <1>6, <2>2, <2>3
  <2>5. CASE e \in Entering(m, d)
    BY <1>2, <2>5
  <2>6. CASE <<m, d>> \in present
    <3>1. \/ Left(report, Entering(m, d), Removing(d))
          \/ /\ Free(report, Removing(d))
             /\ \/ Left(replies, Entering(m, d), Removing(d))
                \/ Free(replies, Removing(d)) /\ <<m, d>> \in rows
      BY <1>0, <2>1, <2>3, <2>4, <2>6 DEF DesktopInv, AddressesArrive
    <3> QED
      BY <1>0, <1>2, <2>4, <3>1
  <2> QED
    BY <2>3, <2>4, <2>5, <2>6
<1> QED
  BY <1>3, <1>4, <1>5, <1>7, <1>8, <1>9, <1>10 DEF DesktopInv

\* Each of the four changes accounts for itself.
LEMMA Inv_Network == DesktopInv /\ NetworkChanges => DesktopInv'
<1> SUFFICES ASSUME DesktopInv, NetworkChanges PROVE DesktopInv'
  OBVIOUS
<1>0. known \subseteq Devices /\ present \subseteq MACs \X known
  BY DEF DesktopInv, Types
<1>1. ASSUME NEW d \in Devices \ known,
             Changed(known \cup {d}, present, [what |-> "device-added", dev |-> d])
      PROVE  DesktopInv'
  <2> DEFINE e == [what |-> "device-added", dev |-> d]
  <2>1. e \in News /\ e \in Values /\ e.what = "device-added" /\ e.dev = d
    BY DEF News, DeviceNews, Values
  <2>2. /\ known' = known \cup {d} /\ present' = present /\ report' = Append(report, e)
        /\ UNCHANGED <<sessionVars, windowVars, listVars, familiar>>
        /\ doubled' = doubled \cup {m \in MACs : \E x, f \in Devices :
                                        x # f /\ {<<m, x>>, <<m, f>>} \subseteq present'}
    BY <1>1 DEF Changed
  <2> HIDE DEF e
  <2>3. \A x \in Devices : /\ e \notin Removing(x)
                           /\ e \in Adding(x) <=> x = d
                           /\ e \in Naming(x) => x = d
    BY <2>1, Kinds
  <2> QED
    BY <1>0, <2>1, <2>2, <2>3, Inv_Changed
<1>2. ASSUME NEW d \in known,
             Changed(known \ {d}, present \ OnDevice(present, d),
                     [what |-> "device-removed", dev |-> d])
      PROVE  DesktopInv'
  <2> DEFINE e == [what |-> "device-removed", dev |-> d]
  <2>1. e \in News /\ e \in Values /\ e.what = "device-removed" /\ e.dev = d
    BY <1>0 DEF News, DeviceNews, Values
  <2>2. /\ known' = known \ {d} /\ present' = present \ OnDevice(present, d)
        /\ report' = Append(report, e)
        /\ UNCHANGED <<sessionVars, windowVars, listVars, familiar>>
        /\ doubled' = doubled \cup {m \in MACs : \E x, f \in Devices :
                                        x # f /\ {<<m, x>>, <<m, f>>} \subseteq present'}
    BY <1>2 DEF Changed
  <2> HIDE DEF e
  <2>3. \A x \in Devices : /\ e \in Removing(x) <=> x = d
                           /\ e \notin Naming(x)
    BY <2>1, Kinds
  <2>4. present' \subseteq MACs \X known'
    BY <1>0, <2>2 DEF OnDevice
  <2> QED
    BY <1>0, <2>1, <2>2, <2>3, <2>4, Inv_Changed
<1>3. ASSUME NEW p \in (MACs \X known) \ present,
             Changed(known, present \cup {p},
                     [what |-> "mac-address-discovered", mac |-> p[1], dev |-> p[2]])
      PROVE  DesktopInv'
  <2> DEFINE e == [what |-> "mac-address-discovered", mac |-> p[1], dev |-> p[2]]
  <2>1. /\ e \in News /\ e \in Values /\ e.what = "mac-address-discovered"
        /\ e.mac = p[1] /\ e.dev = p[2]
    BY <1>0 DEF News, MACNews, MACEvents, Values
  <2>2. /\ known' = known /\ present' = present \cup {p} /\ report' = Append(report, e)
        /\ UNCHANGED <<sessionVars, windowVars, listVars, familiar>>
        /\ doubled' = doubled \cup {m \in MACs : \E x, f \in Devices :
                                        x # f /\ {<<m, x>>, <<m, f>>} \subseteq present'}
    BY <1>3 DEF Changed
  <2> HIDE DEF e
  <2>3. \A x \in Devices : /\ e \notin Removing(x)
                           /\ e \in Naming(x) => x = p[2]
                           /\ \A m \in MACs : <<m, x>> = p => e \in Entering(m, x)
    BY <2>1, Kinds
  <2> QED
    BY <1>0, <2>1, <2>2, <2>3, Inv_Changed
<1>4. ASSUME NEW p \in present,
             Changed(known, present \ {p},
                     [what |-> "mac-address-disappeared", mac |-> p[1], dev |-> p[2]])
      PROVE  DesktopInv'
  <2> DEFINE e == [what |-> "mac-address-disappeared", mac |-> p[1], dev |-> p[2]]
  <2>1. e \in News /\ e \in Values /\ e.what = "mac-address-disappeared"
    BY <1>0 DEF News, MACNews, MACEvents, Values
  <2>2. /\ known' = known /\ present' = present \ {p} /\ report' = Append(report, e)
        /\ UNCHANGED <<sessionVars, windowVars, listVars, familiar>>
        /\ doubled' = doubled \cup {m \in MACs : \E x, f \in Devices :
                                        x # f /\ {<<m, x>>, <<m, f>>} \subseteq present'}
    BY <1>4 DEF Changed
  <2> HIDE DEF e
  <2>3. \A x \in Devices : e \notin Removing(x) /\ e \notin Naming(x)
    BY <2>1, Kinds
  <2> QED
    BY <1>0, <2>1, <2>2, <2>3, Inv_Changed
<1> QED
  BY <1>1, <1>2, <1>3, <1>4 DEF NetworkChanges

\* The steps that change nothing the invariant speaks of, but for the acceptance of the
\* connection.
LEMMA Inv_Quiet ==
    DesktopInv /\ (Serve \/ EndHandle \/ DaemonStarts \/ ReceiveNothing \/ StopPolling
                   \/ OpenDialog \/ Cancel \/ UNCHANGED vars)
      => DesktopInv'
<1> SUFFICES ASSUME DesktopInv, Serve \/ EndHandle \/ DaemonStarts \/ ReceiveNothing
                                \/ StopPolling \/ OpenDialog \/ Cancel \/ UNCHANGED vars
             PROVE  DesktopInv'
  OBVIOUS
<1>1. UNCHANGED <<known, present, report, streams, fd, peerClosed, requests, replies,
                  connectionState, shown, rows, history, doubled, familiar>>
  BY DEF Serve, EndHandle, DaemonStarts, ReceiveNothing, StopPolling, OpenDialog, Cancel, vars,
         daemonVars, sessionVars, windowVars, listVars, countVars
<1>2. /\ served' = served \/ served' = (fd = "open" /\ ~peerClosed)
      /\ dialog' => dialog \/ connectionState = "DISCONNECTED"
  BY DEF Serve, EndHandle, DaemonStarts, ReceiveNothing, StopPolling, OpenDialog, Cancel, vars,
         sessionVars, windowVars
<1>3. Types'
  BY <1>1, <1>2 DEF DesktopInv, Types
<1>4. \A w : Pending(w)' <=> Pending(w)
  BY <1>1 DEF Pending
<1>5. Sessions'
  BY <1>1, <1>2, <1>4 DEF DesktopInv, Sessions, ButtonFollowsDescriptor, Types
<1>6. EnablingAsks' /\ OneDevice' /\ ReportRight' /\ NothingStale'
  BY <1>1 DEF DesktopInv, EnablingAsks, OneDevice, ReportRight, NothingStale
<1>7. DevicesArrive' /\ AddressesArrive'
  BY <1>1, <1>4 DEF DesktopInv, DevicesArrive, AddressesArrive
<1> QED
  BY <1>3, <1>5, <1>6, <1>7 DEF DesktopInv

\* A request is taken from the queue.
LEMMA RequestTaken ==
    ASSUME requests \in Seq(Asking), requests # <<>>, requests' = Tail(requests), EnablingAsks
    PROVE  /\ requests' \in Seq(Asking) /\ Head(requests) \in Asking /\ EnablingAsks'
           /\ \A w : Pending(w) => Head(requests).what = w \/ Pending(w)'
           /\ Head(requests).what = "enable-stream" => Pending("known-mac-addresses")'
<1> DEFINE t == Tail(requests)
           n == Len(t)
<1>1. /\ t \in Seq(Asking) /\ n \in Nat /\ Len(requests) = n + 1
      /\ Head(requests) = requests[1] /\ Head(requests) \in Asking
      /\ \A i \in 1..n : t[i] = requests[i + 1]
  BY HeadTailProperties, EmptySeq, LenProperties
<1>2. requests' = t
  OBVIOUS
<1> HIDE DEF t, n
<1>3. \A i \in 1..Len(requests) : i # 1 => i - 1 \in 1..n /\ t[i - 1] = requests[i]
  <2>1. SUFFICES ASSUME NEW i \in 1..Len(requests), i # 1
                 PROVE  i - 1 \in 1..n /\ t[i - 1] = requests[i]
    OBVIOUS
  <2>2. i - 1 \in 1..n
    BY <1>1, <2>1
  <2>3. t[i - 1] = requests[(i - 1) + 1]
    BY <1>1, <2>2
  <2> QED
    BY <2>2, <2>3
<1>4. EnablingAsks'
  <2>1. SUFFICES ASSUME NEW i \in 1..n, t[i].what = "enable-stream"
                 PROVE  i + 1 \in 1..n /\ t[i + 1].what = "known-mac-addresses"
    BY <1>2 DEF EnablingAsks, n
  <2>2. i + 1 \in 1..Len(requests) /\ requests[i + 1].what = "enable-stream"
    BY <1>1, <2>1
  <2>3. (i + 1) + 1 \in 1..Len(requests) /\ requests[(i + 1) + 1].what = "known-mac-addresses"
    BY <2>2 DEF EnablingAsks
  <2>4. i + 1 \in 1..n
    BY <1>1, <2>3
  <2> QED
    BY <1>1, <2>3, <2>4
<1>5. ASSUME NEW w, Pending(w) PROVE Head(requests).what = w \/ Pending(w)'
  BY <1>1, <1>2, <1>3, <1>5 DEF Pending, n
<1>6. ASSUME Head(requests).what = "enable-stream" PROVE Pending("known-mac-addresses")'
  <2>1. 1 \in 1..Len(requests)
    BY <1>1
  <2>2. 1 + 1 \in 1..Len(requests) /\ requests[1 + 1].what = "known-mac-addresses"
    BY <1>1, <1>6, <2>1 DEF EnablingAsks
  <2>3. 1 \in 1..n /\ t[1].what = "known-mac-addresses"
    BY <1>1, <2>2
  <2> QED
    BY <1>2, <2>3 DEF Pending, n
<1> QED
  BY <1>1, <1>2, <1>4, <1>5, <1>6

\* An answer.
LEMMA Inv_Handle == DesktopInv /\ HandleRequest => DesktopInv'
<1> SUFFICES ASSUME DesktopInv, HandleRequest PROVE DesktopInv'
  OBVIOUS
<1> DEFINE r == Head(requests)
<1>0. /\ served /\ requests # <<>> /\ requests' = Tail(requests)
      /\ UNCHANGED <<known, present, report, served, fd, peerClosed, connectionState, dialog,
                     shown, rows, history, doubled, familiar>>
  BY DEF HandleRequest, daemonVars, windowVars, listVars, countVars
<1>1. /\ requests' \in Seq(Asking) /\ r \in Asking /\ EnablingAsks'
      /\ \A w : Pending(w) => r.what = w \/ Pending(w)'
      /\ r.what = "enable-stream" => Pending("known-mac-addresses")'
  BY <1>0, RequestTaken DEF DesktopInv, Types
<1>2. fd = "open" /\ ~peerClosed
  BY <1>0 DEF DesktopInv, Sessions
<1>3. /\ streams' \subseteq Devices
      /\ streams' \subseteq streams \/ r.what = "enable-stream"
  <2>1. r.what = "enable-stream" => r.dev \in Devices
    BY <1>1 DEF Asking
  <2>2. streams \subseteq Devices
    BY DEF DesktopInv, Types
  <2> QED
    BY <2>1, <2>2 DEF HandleRequest
<1>4. OneDevice' /\ ReportRight'
  BY <1>0 DEF DesktopInv, OneDevice, ReportRight
<1>5. replies \in Seq(Values)
  BY DEF DesktopInv, Types
<1>6. \/ /\ r.what = "devices-list"
         /\ replies' = Append(replies, [what |-> "devices-list", devs |-> known])
      \/ /\ r.what = "known-mac-addresses"
         /\ \E f \in Listed :
               replies' = Append(replies, [what |-> "known-mac-addresses", macs |-> f])
      \/ r.what \notin {"devices-list", "known-mac-addresses"} /\ replies' = replies
  BY DEF HandleRequest
<1> HIDE DEF r
<1>7. ASSUME replies' \in Seq(Values) PROVE Types' /\ Sessions'
  <2>1. Types'
    BY <1>0, <1>1, <1>3, <1>7 DEF DesktopInv, Types
  <2>2. Sessions'
    BY <1>0, <1>2 DEF DesktopInv, Sessions, ButtonFollowsDescriptor
  <2> QED
    BY <2>1, <2>2
<1>8. ASSUME NEW v \in Values, replies' = Append(replies, v),
             r.what \in {"devices-list", "known-mac-addresses"},
             \A d \in Devices :
                /\ v \notin Removing(d)
                /\ v \in Naming(d) => d \in known
                /\ r.what = "devices-list" /\ d \in known => v \in Adding(d)
                /\ r.what = "known-mac-addresses" =>
                     \A m \in MACs \ doubled : <<m, d>> \in present => v \in Entering(m, d)
      PROVE  DesktopInv'
  <2>1. ASSUME NEW P, NEW R
        PROVE  /\ replies' \in Seq(Values)
               /\ Free(replies', R) <=> Free(replies, R) /\ v \notin R
               /\ Left(replies', P, R) <=> v \in P \/ (Left(replies, P, R) /\ v \notin R)
    BY <1>5, <1>8, QueueAppend
  <2>2. NothingStale'
    BY <1>0, <1>8, <2>1 DEF DesktopInv, NothingStale
  <2>3. DevicesArrive'
    <3>1. SUFFICES ASSUME ~Pending("devices-list")', NEW d \in known
                   PROVE  \/ Left(report, Adding(d), Removing(d))
                          \/ /\ Free(report, Removing(d))
                             /\ \/ Left(replies', Adding(d), Removing(d))
                                \/ Free(replies', Removing(d)) /\ d \in shown
      BY <1>0 DEF DevicesArrive
    <3>2. d \in Devices
      BY DEF DesktopInv, Types
    <3>3. CASE r.what = "devices-list"
      BY <1>8, <2>1, <3>2, <3>3 DEF DesktopInv, ReportRight
    <3>4. CASE r.what # "devices-list"
      <4>1. ~Pending("devices-list")
        BY <1>1, <3>1, <3>4
      <4>2. \/ Left(report, Adding(d), Removing(d))
            \/ /\ Free(report, Removing(d))
               /\ \/ Left(replies, Adding(d), Removing(d))
                  \/ Free(replies, Removing(d)) /\ d \in shown
        BY <1>2, <4>1 DEF DesktopInv, DevicesArrive
      <4> QED
        BY <1>8, <2>1, <3>2, <4>2
    <3> QED
      BY <3>3, <3>4
  <2>4. AddressesArrive'
    <3>1. SUFFICES ASSUME familiar', ~Pending("known-mac-addresses")',
                          NEW m \in MACs \ doubled', NEW d \in streams', <<m, d>> \in present'
                   PROVE  \/ Left(report', Entering(m, d), Removing(d))
                          \/ /\ Free(report', Removing(d))
                             /\ \/ Left(replies', Entering(m, d), Removing(d))
                                \/ Free(replies', Removing(d)) /\ <<m, d>> \in rows'
      BY DEF AddressesArrive
    <3>2. /\ d \in Devices /\ d \in streams /\ m \in MACs \ doubled /\ <<m, d>> \in present
      BY <1>0, <1>3, <1>8, <3>1
    <3>3. CASE r.what = "known-mac-addresses"
      BY <1>0, <1>8, <2>1, <3>2, <3>3 DEF DesktopInv, ReportRight
    <3>4. CASE r.what # "known-mac-addresses"
      <4>1. ~Pending("known-mac-addresses")
        BY <1>1, <3>1, <3>4
      <4>2. \/ Left(report, Entering(m, d), Removing(d))
            \/ /\ Free(report, Removing(d))
               /\ \/ Left(replies, Entering(m, d), Removing(d))
                  \/ Free(replies, Removing(d)) /\ <<m, d>> \in rows
        BY <1>0, <3>1, <3>2, <4>1 DEF DesktopInv, AddressesArrive
      <4> QED
        BY <1>0, <1>8, <2>1, <3>2, <4>2
    <3> QED
      BY <3>3, <3>4
  <2> QED
    BY <1>1, <1>4, <1>7, <2>1, <2>2, <2>3, <2>4 DEF DesktopInv
<1>9. CASE /\ r.what = "devices-list"
           /\ replies' = Append(replies, [what |-> "devices-list", devs |-> known])
  <2> DEFINE v == [what |-> "devices-list", devs |-> known]
  <2>1. v \in Values /\ v.what = "devices-list" /\ v.devs = known
    BY DEF Values, DesktopInv, Types
  <2>2. replies' = Append(replies, v)
    BY <1>9
  <2> HIDE DEF v
  <2>3. \A d \in Devices : v \notin Removing(d) /\ (v \in Naming(d) => d \in known)
                           /\ (d \in known => v \in Adding(d))
    BY <2>1, Kinds
  <2> QED
    BY <1>8, <1>9, <2>1, <2>2, <2>3
<1>10. CASE /\ r.what = "known-mac-addresses"
            /\ \E f \in Listed :
                 replies' = Append(replies, [what |-> "known-mac-addresses", macs |-> f])
  <2>1. PICK f \in Listed :
           replies' = Append(replies, [what |-> "known-mac-addresses", macs |-> f])
    BY <1>10
  <2> DEFINE v == [what |-> "known-mac-addresses", macs |-> f]
  <2>2. /\ DOMAIN f = {p[1] : p \in present} /\ f \in [DOMAIN f -> Devices]
        /\ \A m \in DOMAIN f : <<m, f[m]>> \in present
    BY DEF Listed, Addresses
  <2>3. present \subseteq MACs \X known /\ known \subseteq Devices
    BY DEF DesktopInv, Types
  <2>4. DOMAIN f \subseteq MACs
    BY <2>2, <2>3
  <2>5. f \in Dictionaries
    BY <2>2, <2>4 DEF Dictionaries
  <2>6. v \in Values /\ v.what = "known-mac-addresses" /\ v.macs = f
    BY <2>5 DEF Values
  <2>7. replies' = Append(replies, v)
    BY <2>1
  <2> HIDE DEF v
  <2>8. ASSUME NEW d \in Devices
        PROVE  /\ v \notin Removing(d) /\ (v \in Naming(d) => d \in known)
               /\ \A m \in MACs \ doubled : <<m, d>> \in present => v \in Entering(m, d)
    <3>1. v \notin Removing(d) /\ v \notin Adding(d)
      BY <2>6, Kinds
    <3>2. v \in Naming(d) => d \in known
      <4>1. SUFFICES ASSUME v \in Naming(d) PROVE d \in known
        OBVIOUS
      <4>2. PICK n \in MACs : v \in Entering(n, d)
        BY <3>1, <4>1, Kinds, <2>6
      <4>3. n \in DOMAIN f /\ f[n] = d
        BY <2>6, <4>2, Kinds
      <4> QED
        BY <2>2, <2>3, <4>3
    <3>3. ASSUME NEW m \in MACs \ doubled, <<m, d>> \in present PROVE v \in Entering(m, d)
      <4>1. m \in DOMAIN f
        BY <2>2, <3>3
      <4>2. f[m] = d
        BY <2>2, <3>3, <4>1 DEF DesktopInv, OneDevice
      <4> QED
        BY <2>6, <4>1, <4>2, Kinds
    <3> QED
      BY <3>1, <3>2, <3>3
  <2> QED
    BY <1>8, <1>10, <2>6, <2>7, <2>8
<1>11. CASE r.what \notin {"devices-list", "known-mac-addresses"} /\ replies' = replies
  <2>1. NothingStale'
    BY <1>0, <1>11 DEF DesktopInv, NothingStale
  <2>2. DevicesArrive'
    BY <1>0, <1>1, <1>11 DEF DesktopInv, DevicesArrive
  <2>3. AddressesArrive'
    <3>1. SUFFICES ASSUME familiar', ~Pending("known-mac-addresses")',
                          NEW m \in MACs \ doubled', NEW d \in streams', <<m, d>> \in present'
                   PROVE  \/ Left(report', Entering(m, d), Removing(d))
                          \/ /\ Free(report', Removing(d))
                             /\ \/ Left(replies', Entering(m, d), Removing(d))
                                \/ Free(replies', Removing(d)) /\ <<m, d>> \in rows'
      BY DEF AddressesArrive
    <3>2. d \in streams /\ ~Pending("known-mac-addresses")
      BY <1>1, <1>3, <1>11, <3>1
    <3> QED
      BY <1>0, <1>11, <3>1, <3>2 DEF DesktopInv, AddressesArrive
  <2> QED
    BY <1>1, <1>4, <1>5, <1>7, <1>11, <2>1, <2>2, <2>3 DEF DesktopInv
<1> QED
  BY <1>6, <1>9, <1>10, <1>11


\* An event goes from the report to the socket; one of an address on a device without a
\* stream is dropped, and so is any other while there is no connection.
LEMMA Inv_Dispatch == DesktopInv /\ Dispatch => DesktopInv'
<1> SUFFICES ASSUME DesktopInv, Dispatch PROVE DesktopInv'
  OBVIOUS
<1>0. UNCHANGED <<known, present, served, fd, peerClosed, requests, connectionState, dialog,
                  shown, rows, history, doubled, familiar>>
  BY DEF Dispatch, windowVars, listVars, countVars
<1>1. \A w : Pending(w)' <=> Pending(w)
  BY <1>0 DEF Pending
<1>2. EnablingAsks' /\ OneDevice'
  BY <1>0 DEF DesktopInv, EnablingAsks, OneDevice
<1>3. CASE report = <<>>
  <2>1. UNCHANGED <<report, streams, replies>>
    BY <1>3 DEF Dispatch
  <2>2. Types' /\ Sessions'
    BY <1>0, <1>1, <2>1 DEF DesktopInv, Types, Sessions, ButtonFollowsDescriptor
  <2>3. ReportRight' /\ NothingStale'
    BY <1>0, <2>1 DEF DesktopInv, ReportRight, NothingStale
  <2>4. DevicesArrive' /\ AddressesArrive'
    BY <1>0, <1>1, <2>1 DEF DesktopInv, DevicesArrive, AddressesArrive
  <2> QED
    BY <1>2, <2>2, <2>3, <2>4 DEF DesktopInv
<1>4. CASE report # <<>>
  <2> DEFINE e == Head(report)
  <2>1. /\ report' = Tail(report)
        /\ streams' \subseteq streams
        /\ \/ replies' = Append(replies, e)
           \/ replies' = replies /\ (served => e.what \in MACEvents /\ e.dev \notin streams)
        /\ ~served => replies' = replies
    BY <1>4 DEF Dispatch
  <2>2. report \in Seq(News) /\ replies \in Seq(Values)
    BY DEF DesktopInv, Types
  <2>3. ASSUME NEW P, NEW R
        PROVE  /\ report' \in Seq(News) /\ e \in News
               /\ Free(report, R) <=> Free(report', R) /\ e \notin R
               /\ Left(report, P, R) <=> Left(report', P, R) \/ (e \in P /\ Free(report', R))
    BY <1>4, <2>1, <2>2, QueueTail
  <2>4. e \in News /\ e \in Values /\ report' \in Seq(News)
    BY <2>3, NewsAreValues
  <2>5. \A d \in Devices : e \in Naming(d) => e \notin Removing(d)
    BY <2>4, Kinds
  <2>6. ASSUME e.what \in MACEvents, e.dev \notin streams, NEW d \in Devices
        PROVE  /\ e \notin Removing(d) /\ e \notin Adding(d)
               /\ d \in streams => \A m \in MACs : e \notin Entering(m, d)
    BY <2>4, <2>6, Kinds DEF MACEvents
  <2> HIDE DEF e
  <2>7. ASSUME NEW P, NEW R, replies' = Append(replies, e)
        PROVE  /\ replies' \in Seq(Values)
               /\ Free(replies', R) <=> Free(replies, R) /\ e \notin R
               /\ Left(replies', P, R) <=> e \in P \/ (Left(replies, P, R) /\ e \notin R)
    BY <2>2, <2>4, <2>7, QueueAppend
  <2>8. replies' \in Seq(Values)
    BY <2>1, <2>2, <2>7
  <2>9. Types'
    BY <1>0, <2>1, <2>4, <2>8 DEF DesktopInv, Types
  <2>10. Sessions'
    BY <1>0, <1>1, <2>1 DEF DesktopInv, Sessions, ButtonFollowsDescriptor
  <2>11. ReportRight'
    BY <1>0, <2>3 DEF DesktopInv, ReportRight
  <2>12. CASE ~served
    <3>1. /\ streams' = {} /\ replies' = replies
          /\ ~peerClosed => shown = {} /\ rows = {} /\ replies = <<>>
          /\ fd = "open" /\ ~peerClosed => Pending("devices-list")
      BY <2>1, <2>12 DEF DesktopInv, Sessions
    <3>2. NothingStale'
      BY <1>0, <3>1, QueueEmpty DEF NothingStale
    <3>3. DevicesArrive'
      BY <1>0, <1>1, <3>1 DEF DevicesArrive
    <3>4. AddressesArrive'
      BY <3>1 DEF AddressesArrive
    <3> QED
      BY <1>2, <2>9, <2>10, <2>11, <3>2, <3>3, <3>4 DEF DesktopInv
  <2>13. CASE served
    <3>1. fd = "open" /\ ~peerClosed
      BY <2>13 DEF DesktopInv, Sessions
    <3>2. ASSUME NEW d \in Devices, Free(report', Removing(d))
          PROVE  /\ Left(replies', Naming(d), Removing(d)) => d \in known
                 /\ /\ Free(replies', Removing(d))
                    /\ d \in shown \/ \E m \in MACs : <<m, d>> \in rows
                    => d \in known
      <4>1. e \in Naming(d) => d \in known
        BY <2>3, <3>2 DEF DesktopInv, ReportRight
      <4>2. e \notin Removing(d) =>
              /\ Left(replies, Naming(d), Removing(d)) => d \in known
              /\ Free(replies, Removing(d)) /\ (d \in shown \/ \E m \in MACs : <<m, d>> \in rows)
                    => d \in known
        BY <2>3, <3>1, <3>2 DEF DesktopInv, NothingStale
      <4>3. CASE replies' = Append(replies, e)
        BY <2>7, <4>1, <4>2, <4>3
      <4>4. CASE replies' = replies /\ e.what \in MACEvents /\ e.dev \notin streams
        BY <2>6, <4>2, <4>4
      <4> QED
        BY <2>1, <2>13, <4>3, <4>4
    <3>3. NothingStale'
      BY <1>0, <3>2 DEF NothingStale
    <3>4. ASSUME NEW d \in Devices, NEW P, NEW shows \in BOOLEAN,
                 e \in P => replies' = Append(replies, e),
                 \/ Left(report, P, Removing(d))
                 \/ /\ Free(report, Removing(d))
                    /\ Left(replies, P, Removing(d)) \/ (Free(replies, Removing(d)) /\ shows)
          PROVE  \/ Left(report', P, Removing(d))
                 \/ /\ Free(report', Removing(d))
                    /\ Left(replies', P, Removing(d)) \/ (Free(replies', Removing(d)) /\ shows)
      <4>1. CASE replies' = Append(replies, e)
        BY <2>3, <2>7, <3>4, <4>1
      <4>2. CASE replies' = replies
        BY <2>3, <3>4, <4>2, <2>7
      <4> QED
        BY <2>1, <4>1, <4>2
    <3>5. DevicesArrive'
      <4>1. SUFFICES ASSUME ~Pending("devices-list")', NEW d \in known
                     PROVE  \/ Left(report', Adding(d), Removing(d))
                            \/ /\ Free(report', Removing(d))
                               /\ \/ Left(replies', Adding(d), Removing(d))
                                  \/ Free(replies', Removing(d)) /\ d \in shown
        BY <1>0 DEF DevicesArrive
      <4>2. d \in Devices /\ (d \in shown) \in BOOLEAN
        BY DEF DesktopInv, Types
      <4>3. e \in Adding(d) => replies' = Append(replies, e)
        BY <2>1, <2>6, <2>13, <4>2
      <4>4. \/ Left(report, Adding(d), Removing(d))
            \/ /\ Free(report, Removing(d))
               /\ \/ Left(replies, Adding(d), Removing(d))
                  \/ Free(replies, Removing(d)) /\ d \in shown
        BY <1>1, <3>1, <4>1 DEF DesktopInv, DevicesArrive
      <4> QED
        BY <3>4, <4>2, <4>3, <4>4
    <3>6. AddressesArrive'
      <4>1. SUFFICES ASSUME familiar', ~Pending("known-mac-addresses")',
                            NEW m \in MACs \ doubled', NEW d \in streams', <<m, d>> \in present'
                     PROVE  \/ Left(report', Entering(m, d), Removing(d))
                            \/ /\ Free(report', Removing(d))
                               /\ \/ Left(replies', Entering(m, d), Removing(d))
                                  \/ Free(replies', Removing(d)) /\ <<m, d>> \in rows'
        BY DEF AddressesArrive
      <4>2. /\ d \in streams /\ d \in Devices /\ m \in MACs \ doubled
            /\ (<<m, d>> \in rows) \in BOOLEAN
        BY <1>0, <2>1, <4>1 DEF DesktopInv, Types
      <4>3. e \in Entering(m, d) => replies' = Append(replies, e)
        BY <2>1, <2>6, <2>13, <4>2
      <4>4. \/ Left(report, Entering(m, d), Removing(d))
            \/ /\ Free(report, Removing(d))
               /\ \/ Left(replies, Entering(m, d), Removing(d))
                  \/ Free(replies, Removing(d)) /\ <<m, d>> \in rows
        BY <1>0, <1>1, <4>1, <4>2 DEF DesktopInv, AddressesArrive
      <4>5. rows' = rows
        BY <1>0
      <4> QED
        BY <3>4, <4>2, <4>3, <4>4, <4>5
    <3> QED
      BY <1>2, <2>9, <2>10, <2>11, <3>3, <3>5, <3>6 DEF DesktopInv
  <2> QED
    BY <2>12, <2>13
<1> QED
  BY <1>3, <1>4

\* The tables, the report and the queue of requests are lost; a connection is left with
\* what had been sent.
LEMMA Inv_DaemonEnds == DesktopInv /\ DaemonEnds => DesktopInv'
<1> SUFFICES ASSUME DesktopInv, DaemonEnds PROVE DesktopInv'
  OBVIOUS
<1>1. /\ known' = {} /\ present' = {} /\ report' = <<>> /\ served' = FALSE /\ streams' = {}
      /\ requests' = <<>> /\ peerClosed' = (fd = "open")
      /\ UNCHANGED <<fd, replies, connectionState, dialog, shown, rows, history, doubled, familiar>>
  BY DEF DaemonEnds, windowVars, listVars, countVars
<1>2. Types'
  <2>1. report' \in Seq(News) /\ requests' \in Seq(Asking)
    BY <1>1, EmptySeq
  <2>2. served' \in BOOLEAN /\ peerClosed' \in BOOLEAN
    BY <1>1
  <2> QED
    BY <1>1, <2>1, <2>2 DEF DesktopInv, Types
<1>3. Sessions'
  BY <1>1 DEF DesktopInv, Sessions, ButtonFollowsDescriptor
<1>4. EnablingAsks' /\ OneDevice'
  BY <1>1 DEF EnablingAsks, OneDevice
<1>5. ReportRight'
  BY <1>1, QueueEmpty DEF ReportRight
<1>6. NothingStale'
  <2>1. ~peerClosed' => shown' = {} /\ rows' = {} /\ replies' = <<>>
    BY <1>1 DEF DesktopInv, Sessions
  <2> QED
    BY <2>1, QueueEmpty DEF NothingStale
<1>7. DevicesArrive' /\ AddressesArrive'
  BY <1>1 DEF DevicesArrive, AddressesArrive
<1> QED
  BY <1>2, <1>3, <1>4, <1>5, <1>6, <1>7 DEF DesktopInv

-----------------------------------------------------------------------------
(* The window's side.                                                      *)

\* What a value received makes of the two lists.
LEMMA ListsFollow ==
    ASSUME Types, Receive, NEW v \in Values, v = Head(replies)
    PROVE  /\ shown' \subseteq Devices /\ rows' \subseteq MACs \X Devices
           /\ familiar => MACs \subseteq history'
           /\ \A d \in Devices :
                /\ d \in shown' => v \notin Removing(d) /\ (d \in shown \/ v \in Adding(d))
                /\ v \in Adding(d) \/ (d \in shown /\ v \notin Removing(d)) => d \in shown'
                /\ \A m \in MACs :
                     /\ <<m, d>> \in rows' =>
                           v \notin Removing(d) /\ (<<m, d>> \in rows \/ v \in Entering(m, d))
                     /\ <<m, d>> \in rows /\ v \notin Removing(d) => <<m, d>> \in rows'
                     /\ familiar /\ v \in Entering(m, d) => <<m, d>> \in rows'
<1>0. /\ shown \subseteq Devices /\ rows \subseteq MACs \X Devices
      /\ familiar => MACs \subseteq history
  BY DEF Types
<1>1. v.what \in {"devices-list", "device-added", "device-removed", "known-mac-addresses",
                  "mac-address-discovered", "mac-address-disappeared"}
  BY DEF Values, News, DeviceNews, MACNews, MACEvents
<1>2. CASE v.what = "device-removed"
  <2>1. /\ shown' = shown \ {v.dev} /\ rows' = rows \ {p \in rows : p[2] = v.dev}
        /\ history' = history
    BY <1>2 DEF Receive, removeDevice, OnDevice
  <2>2. \A d \in Devices : /\ v \in Removing(d) <=> d = v.dev
                           /\ v \notin Adding(d) /\ \A m \in MACs : v \notin Entering(m, d)
    BY <1>2, Kinds
  <2> QED
    BY <1>0, <2>1, <2>2
<1>3. CASE v.what \in {"devices-list", "device-added"}
  <2>1. rows' = rows /\ history' = history
    BY <1>3 DEF Receive, addDevices
  <2>2. shown' = shown \cup {d \in Devices : v \in Adding(d)}
    <3>1. CASE v.what = "devices-list"
      <4>1. shown' = shown \cup v.devs
        BY <3>1 DEF Receive, addDevices
      <4>2. v.devs \subseteq Devices
        BY <3>1 DEF Values, News, DeviceNews, MACNews, MACEvents
      <4>3. \A d \in Devices : v \in Adding(d) <=> d \in v.devs
        BY <3>1, Kinds
      <4> QED
        BY <4>1, <4>2, <4>3
    <3>2. CASE v.what = "device-added"
      <4>1. shown' = shown \cup {v.dev}
        BY <3>2 DEF Receive, addDevices
      <4>2. v.dev \in Devices
        BY <3>2 DEF Values, News, DeviceNews, MACNews, MACEvents
      <4>3. \A d \in Devices : v \in Adding(d) <=> d = v.dev
        BY <3>2, Kinds
      <4> QED
        BY <4>1, <4>2, <4>3
    <3> QED
      BY <1>3, <3>1, <3>2
  <2>3. \A d \in Devices : v \notin Removing(d) /\ \A m \in MACs : v \notin Entering(m, d)
    BY <1>3, Kinds
  <2> QED
    BY <1>0, <2>1, <2>2, <2>3
<1>4. ASSUME NEW f \in Dictionaries, addMACs(f), shown' = shown,
             \A d \in Devices :
               /\ v \notin Removing(d) /\ v \notin Adding(d)
               /\ \A m \in MACs : v \in Entering(m, d) <=> m \in DOMAIN f /\ f[m] = d
      PROVE  /\ shown' \subseteq Devices /\ rows' \subseteq MACs \X Devices
             /\ familiar => MACs \subseteq history'
             /\ \A d \in Devices, m \in MACs :
                  /\ <<m, d>> \in rows' => <<m, d>> \in rows \/ v \in Entering(m, d)
                  /\ <<m, d>> \in rows => <<m, d>> \in rows'
                  /\ familiar /\ v \in Entering(m, d) => <<m, d>> \in rows'
  <2>1. DOMAIN f \subseteq MACs /\ \A m \in DOMAIN f : f[m] \in Devices
    BY DEF Dictionaries
  <2>2. PICK S \in SUBSET DOMAIN f :
           /\ rows' = rows \cup {<<m, f[m]>> : m \in S}
           /\ history \subseteq history'
           /\ DOMAIN f \subseteq history => S = DOMAIN f
    <3>1. CASE /\ DOMAIN f \ history = {} /\ history' = history
               /\ rows' = rows \cup {<<m, f[m]>> : m \in DOMAIN f}
      BY <3>1
    <3>2. CASE \E m \in DOMAIN f \ history, before \in SUBSET (DOMAIN f \ (DOMAIN f \ history)) :
                  /\ rows' = rows \cup {<<k, f[k]>> : k \in before \cup {m}}
                  /\ history' = history \cup {m}
      <4>1. PICK m \in DOMAIN f \ history, before \in SUBSET (DOMAIN f \ (DOMAIN f \ history)) :
                  /\ rows' = rows \cup {<<k, f[k]>> : k \in before \cup {m}}
                  /\ history' = history \cup {m}
        BY <3>2
      <4>2. before \cup {m} \in SUBSET DOMAIN f /\ ~(DOMAIN f \subseteq history)
        OBVIOUS
      <4> QED
        BY <4>1, <4>2
    <3> QED
      BY <1>4, <3>1, <3>2 DEF addMACs
  <2>3. familiar => S = DOMAIN f
    BY <1>0, <2>1, <2>2
  <2> QED
    BY <1>0, <1>4, <2>1, <2>2, <2>3
<1>5. CASE v.what = "known-mac-addresses"
  <2>1. addMACs(v.macs) /\ shown' = shown
    BY <1>5 DEF Receive
  <2>2. v.macs \in Dictionaries
    BY <1>5 DEF Values, News, DeviceNews, MACNews, MACEvents
  <2>3. \A d \in Devices :
          /\ v \notin Removing(d) /\ v \notin Adding(d)
          /\ \A m \in MACs : v \in Entering(m, d) <=> m \in DOMAIN v.macs /\ v.macs[m] = d
    BY <1>5, Kinds
  <2> QED
    BY <1>4, <2>1, <2>2, <2>3
<1>6. CASE v.what = "mac-address-discovered"
  <2> DEFINE f == [m \in {v.mac} |-> v.dev]
  <2>1. addMACs(f) /\ shown' = shown
    BY <1>6 DEF Receive
  <2>2. v.mac \in MACs /\ v.dev \in Devices
    BY <1>6 DEF Values, News, DeviceNews, MACNews, MACEvents
  <2>3. f \in [{v.mac} -> Devices] /\ {v.mac} \in SUBSET MACs
    BY <2>2
  <2>4. f \in Dictionaries
    BY <2>3 DEF Dictionaries
  <2>5. DOMAIN f = {v.mac} /\ f[v.mac] = v.dev
    OBVIOUS
  <2> HIDE DEF f
  <2>6. \A d \in Devices :
          /\ v \notin Removing(d) /\ v \notin Adding(d)
          /\ \A m \in MACs : v \in Entering(m, d) <=> m \in DOMAIN f /\ f[m] = d
    BY <1>6, <2>5, Kinds
  <2> QED
    BY <1>4, <2>1, <2>4, <2>6
<1>7. CASE v.what = "mac-address-disappeared"
  <2>1. shown' = shown /\ rows' = rows /\ history' = history
    BY <1>7 DEF Receive, listVars
  <2>2. \A d \in Devices : /\ v \notin Removing(d) /\ v \notin Adding(d)
                           /\ \A m \in MACs : v \notin Entering(m, d)
    BY <1>7, Kinds
  <2> QED
    BY <1>0, <2>1, <2>2
<1> QED
  BY <1>1, <1>2, <1>3, <1>5, <1>6, <1>7

\* A value is read from the socket and taken into the lists.
LEMMA Inv_Receive == DesktopInv /\ Receive => DesktopInv'
<1> SUFFICES ASSUME DesktopInv, Receive PROVE DesktopInv'
  OBVIOUS
<1> DEFINE v == Head(replies)
<1>0. /\ fd = "open" /\ replies # <<>> /\ replies' = Tail(replies)
      /\ UNCHANGED <<known, present, report, served, streams, fd, peerClosed, requests,
                     connectionState, dialog, doubled, familiar>>
  BY DEF Receive, daemonVars, countVars
<1>1. replies \in Seq(Values) /\ Types
  BY DEF DesktopInv, Types
<1>2. ASSUME NEW P, NEW R
      PROVE  /\ replies' \in Seq(Values) /\ v \in Values
             /\ Free(replies, R) <=> Free(replies', R) /\ v \notin R
             /\ Left(replies, P, R) <=> Left(replies', P, R) \/ (v \in P /\ Free(replies', R))
  BY <1>0, <1>1, QueueTail
<1>3. v \in Values /\ replies' \in Seq(Values)
  BY <1>2
<1>4. /\ shown' \subseteq Devices /\ rows' \subseteq MACs \X Devices
      /\ familiar => MACs \subseteq history'
      /\ \A d \in Devices :
           /\ d \in shown' => v \notin Removing(d) /\ (d \in shown \/ v \in Adding(d))
           /\ v \in Adding(d) \/ (d \in shown /\ v \notin Removing(d)) => d \in shown'
           /\ \A m \in MACs :
                /\ <<m, d>> \in rows' =>
                      v \notin Removing(d) /\ (<<m, d>> \in rows \/ v \in Entering(m, d))
                /\ <<m, d>> \in rows /\ v \notin Removing(d) => <<m, d>> \in rows'
                /\ familiar /\ v \in Entering(m, d) => <<m, d>> \in rows'
  BY <1>1, <1>3, ListsFollow
<1> HIDE DEF v
<1>5. \A w : Pending(w)' <=> Pending(w)
  BY <1>0 DEF Pending
<1>6. Types'
  BY <1>0, <1>3, <1>4 DEF DesktopInv, Types
<1>7. Sessions'
  BY <1>0, <1>5 DEF DesktopInv, Sessions, ButtonFollowsDescriptor
<1>8. EnablingAsks' /\ OneDevice' /\ ReportRight'
  BY <1>0 DEF DesktopInv, EnablingAsks, OneDevice, ReportRight
<1>9. NothingStale'
  <2>1. SUFFICES ASSUME ~peerClosed, NEW d \in Devices, Free(report, Removing(d))
                 PROVE  /\ Left(replies', Naming(d), Removing(d)) => d \in known
                        /\ /\ Free(replies', Removing(d))
                           /\ d \in shown' \/ \E m \in MACs : <<m, d>> \in rows'
                           => d \in known
    BY <1>0 DEF NothingStale
  <2>2. /\ Left(replies, Naming(d), Removing(d)) => d \in known
        /\ Free(replies, Removing(d)) /\ (d \in shown \/ \E m \in MACs : <<m, d>> \in rows)
              => d \in known
    BY <2>1 DEF DesktopInv, NothingStale
  <2>3. v \in Naming(d) <=> v \in Adding(d) \/ \E m \in MACs : v \in Entering(m, d)
    BY <1>3, Kinds
  <2>4. /\ d \in shown' => v \notin Removing(d) /\ (d \in shown \/ v \in Naming(d))
        /\ \A m \in MACs : <<m, d>> \in rows' =>
              v \notin Removing(d) /\ (<<m, d>> \in rows \/ v \in Naming(d))
    BY <1>4, <2>3
  <2> QED
    BY <1>2, <2>2, <2>4
<1>10. DevicesArrive'
  <2>1. SUFFICES ASSUME ~peerClosed, ~Pending("devices-list"), NEW d \in known
                 PROVE  \/ Left(report, Adding(d), Removing(d))
                        \/ /\ Free(report, Removing(d))
                           /\ \/ Left(replies', Adding(d), Removing(d))
                              \/ Free(replies', Removing(d)) /\ d \in shown'
    BY <1>0, <1>5 DEF DevicesArrive
  <2>2. d \in Devices
    BY DEF DesktopInv, Types
  <2>3. \/ Left(report, Adding(d), Removing(d))
        \/ /\ Free(report, Removing(d))
           /\ \/ Left(replies, Adding(d), Removing(d))
              \/ Free(replies, Removing(d)) /\ d \in shown
    BY <1>0, <2>1 DEF DesktopInv, DevicesArrive
  <2> QED
    BY <1>2, <1>4, <2>2, <2>3
<1>11. AddressesArrive'
  <2>1. SUFFICES ASSUME familiar, ~Pending("known-mac-addresses"),
                        NEW m \in MACs \ doubled, NEW d \in streams, <<m, d>> \in present
                 PROVE  \/ Left(report, Entering(m, d), Removing(d))
                        \/ /\ Free(report, Removing(d))
                           /\ \/ Left(replies', Entering(m, d), Removing(d))
                              \/ Free(replies', Removing(d)) /\ <<m, d>> \in rows'
    BY <1>0, <1>5 DEF AddressesArrive
  <2>2. d \in Devices
    BY DEF DesktopInv, Types
  <2>3. \/ Left(report, Entering(m, d), Removing(d))
        \/ /\ Free(report, Removing(d))
           /\ \/ Left(replies, Entering(m, d), Removing(d))
              \/ Free(replies, Removing(d)) /\ <<m, d>> \in rows
    BY <2>1 DEF DesktopInv, AddressesArrive
  <2> QED
    BY <1>2, <1>4, <2>1, <2>2, <2>3
<1> QED
  BY <1>6, <1>7, <1>8, <1>9, <1>10, <1>11 DEF DesktopInv

\* The end of a connection is noticed and the lists are cleared.
LEMMA Inv_ReceiveEnd == DesktopInv /\ ReceiveEnd => DesktopInv'
<1> SUFFICES ASSUME DesktopInv, ReceiveEnd PROVE DesktopInv'
  OBVIOUS
<1>1. /\ shown' = {} /\ rows' = {}
      /\ fd = "failed" \/ (fd = "open" /\ peerClosed)
      /\ UNCHANGED <<known, present, report, served, streams, fd, peerClosed, requests, replies,
                     connectionState, dialog, history, doubled, familiar>>
  BY DEF ReceiveEnd, ClearLists, daemonVars, sessionVars, countVars
<1>2. \A w : Pending(w)' <=> Pending(w)
  BY <1>1 DEF Pending
<1>3. streams' = {} /\ (~peerClosed' => replies' = <<>>)
  BY <1>1 DEF DesktopInv, Sessions
<1>4. Types'
  BY <1>1 DEF DesktopInv, Types
<1>5. Sessions'
  BY <1>1, <1>2 DEF DesktopInv, Sessions, ButtonFollowsDescriptor
<1>6. EnablingAsks' /\ OneDevice' /\ ReportRight'
  BY <1>1 DEF DesktopInv, EnablingAsks, OneDevice, ReportRight
<1>7. NothingStale'
  BY <1>1, <1>3, QueueEmpty DEF NothingStale
<1>8. DevicesArrive' /\ AddressesArrive'
  BY <1>1, <1>3 DEF DevicesArrive, AddressesArrive
<1> QED
  BY <1>4, <1>5, <1>6, <1>7, <1>8 DEF DesktopInv

\* A descriptor closed or opened anew, with empty lists.
LEMMA Inv_NewDescriptor ==
    ASSUME DesktopInv, NEW f, NEW msgs \in Seq(Asking), NewDescriptor(f, msgs),
           UNCHANGED <<daemonVars, doubled, familiar>>,
           MACs \subseteq history => MACs \subseteq history',
           shown' = {}, rows' = {}, ~dialog',
           \/ f = "open" /\ connectionState' = "CONNECTED"
           \/ f # "open" /\ connectionState' = "DISCONNECTED" /\ msgs = <<>>,
           f = "open" => \E i \in 1..Len(msgs) : msgs[i].what = "devices-list",
           \A i \in 1..Len(msgs) : msgs[i].what # "enable-stream"
    PROVE  DesktopInv'
<1>1. /\ fd' = f /\ peerClosed' = FALSE /\ served' = FALSE /\ streams' = {}
      /\ requests' = msgs /\ replies' = <<>>
      /\ UNCHANGED <<known, present, report, doubled, familiar>>
  BY DEF NewDescriptor, daemonVars
<1>2. /\ replies' \in Seq(Values) /\ requests' \in Seq(Asking)
      /\ served' \in BOOLEAN /\ peerClosed' \in BOOLEAN
      /\ familiar' => MACs \subseteq history'
  <2>1. replies' \in Seq(Values)
    BY <1>1, EmptySeq
  <2>2. requests' \in Seq(Asking)
    BY <1>1
  <2>3. served' \in BOOLEAN /\ peerClosed' \in BOOLEAN
    BY <1>1
  <2>4. familiar' => MACs \subseteq history'
    BY <1>1 DEF DesktopInv, Types
  <2> QED
    BY <2>1, <2>2, <2>3, <2>4
<1>3. Types'
  BY <1>1, <1>2 DEF DesktopInv, Types
<1>4. f = "open" => Pending("devices-list")'
  BY <1>1 DEF Pending
<1>5. Sessions'
  BY <1>1, <1>4 DEF Sessions, ButtonFollowsDescriptor
<1>6. EnablingAsks'
  BY <1>1 DEF EnablingAsks
<1>7. OneDevice' /\ ReportRight'
  BY <1>1 DEF DesktopInv, OneDevice, ReportRight
<1>8. NothingStale'
  BY <1>1, QueueEmpty DEF NothingStale
<1>9. DevicesArrive' /\ AddressesArrive'
  BY <1>1, <1>4 DEF DevicesArrive, AddressesArrive
<1> QED
  BY <1>3, <1>5, <1>6, <1>7, <1>8, <1>9 DEF DesktopInv

\* The user ends a connection, or asks for one.
LEMMA Inv_Sessions == DesktopInv /\ (Disconnect \/ ConnectFails \/ Connect) => DesktopInv'
<1>1. ASSUME DesktopInv, Disconnect \/ ConnectFails PROVE DesktopInv'
  <2>1. /\ \E g \in {"none", "failed"} : NewDescriptor(g, <<>>)
        /\ connectionState' = "DISCONNECTED" /\ ~dialog' /\ history' = history
        /\ UNCHANGED <<daemonVars, doubled, familiar>>
    BY <1>1 DEF Disconnect, ConnectFails, ClearLists, listVars, countVars
  <2>2. shown' = {} /\ rows' = {}
    BY <1>1 DEF Disconnect, ConnectFails, ClearLists, listVars, DesktopInv, Sessions,
                ButtonFollowsDescriptor
  <2>3. <<>> \in Seq(Asking) /\ Len(<<>>) = 0
    BY EmptySeq
  <2>4. PICK g \in {"none", "failed"} : NewDescriptor(g, <<>>)
    BY <2>1
  <2>5. g # "open" /\ (MACs \subseteq history => MACs \subseteq history')
    BY <2>1
  <2>6. \A msgs : Len(msgs) = 0 => \A i \in 1..Len(msgs) : FALSE
    OBVIOUS
  <2> QED
    BY <1>1, <2>1, <2>2, <2>3, <2>4, <2>5, <2>6, Inv_NewDescriptor
<1>2. ASSUME DesktopInv, Connect PROVE DesktopInv'
  <2> DEFINE a == [what |-> "devices-list"]
             b == [what |-> "known-mac-addresses"]
             msgs == <<a, b>>
  <2>1. a \in Asking /\ b \in Asking /\ a.what = "devices-list" /\ b.what = "known-mac-addresses"
    BY DEF Asking
  <2>2. /\ NewDescriptor("open", msgs) /\ connectionState' = "CONNECTED" /\ ~dialog'
        /\ dialog /\ UNCHANGED <<daemonVars, listVars, doubled, familiar>>
    BY <1>2 DEF Connect
  <2> HIDE DEF a, b
  <2>3. msgs \in Seq(Asking) /\ Len(msgs) = 2 /\ msgs[1] = a /\ msgs[2] = b
    BY <2>1
  <2> HIDE DEF msgs
  <2>4. shown' = {} /\ rows' = {} /\ history' = history
    BY <1>2, <2>2 DEF listVars, DesktopInv, Sessions, ButtonFollowsDescriptor
  <2>5. /\ \E i \in 1..Len(msgs) : msgs[i].what = "devices-list"
        /\ \A i \in 1..Len(msgs) : msgs[i].what # "enable-stream"
    BY <2>1, <2>3
  <2> QED
    BY <1>2, <2>2, <2>3, <2>4, <2>5, Inv_NewDescriptor
<1> QED
  BY <1>1, <1>2

\* More is asked of the daemon.
LEMMA Inv_Asked ==
    ASSUME DesktopInv, NEW msgs \in Seq(Asking), requests' = sent(msgs), fd = "open",
           UNCHANGED <<daemonVars, served, streams, fd, peerClosed, replies, windowVars,
                       shown, rows, history, doubled, familiar>>,
           \A i \in 1..Len(msgs) : msgs[i].what = "enable-stream" =>
              i + 1 \in 1..Len(msgs) /\ msgs[i + 1].what = "known-mac-addresses"
    PROVE  DesktopInv'
<1>0. UNCHANGED <<known, present, report, served, streams, fd, peerClosed, replies,
                  connectionState, dialog, shown, rows, history, doubled, familiar>>
  BY DEF daemonVars, windowVars
<1>1. requests \in Seq(Asking)
  BY DEF DesktopInv, Types
<1>2. NothingStale'
  <2>1. SUFFICES ASSUME ~peerClosed', NEW d \in Devices, Free(report', Removing(d))
                 PROVE  /\ Left(replies', Naming(d), Removing(d)) => d \in known'
                        /\ /\ Free(replies', Removing(d))
                           /\ d \in shown' \/ \E m \in MACs : <<m, d>> \in rows'
                           => d \in known'
    BY DEF NothingStale
  <2>2. ~peerClosed /\ Free(report, Removing(d))
    BY <1>0, <2>1
  <2>3. /\ Left(replies, Naming(d), Removing(d)) => d \in known
        /\ Free(replies, Removing(d)) /\ (d \in shown \/ \E m \in MACs : <<m, d>> \in rows)
              => d \in known
    BY <2>2 DEF DesktopInv, NothingStale
  <2> QED
    BY <1>0, <2>3
<1>3. CASE requests' = requests
  <2>1. \A w : Pending(w)' <=> Pending(w)
    BY <1>3 DEF Pending
  <2>2. Types' /\ Sessions'
    BY <1>0, <1>3, <2>1 DEF DesktopInv, Types, Sessions, ButtonFollowsDescriptor
  <2>3. EnablingAsks' /\ OneDevice' /\ ReportRight'
    BY <1>0, <1>3 DEF DesktopInv, EnablingAsks, OneDevice, ReportRight
  <2>4. DevicesArrive' /\ AddressesArrive'
    BY <1>0, <2>1 DEF DesktopInv, DevicesArrive, AddressesArrive
  <2> QED
    BY <1>2, <2>2, <2>3, <2>4 DEF DesktopInv
<1>4. CASE requests' = requests \o msgs
  <2> DEFINE q == requests \o msgs
             n == Len(requests)
             k == Len(msgs)
  <2>1. /\ q \in Seq(Asking) /\ n \in Nat /\ k \in Nat /\ Len(q) = n + k
        /\ \A i \in 1..n : q[i] = requests[i]
        /\ \A i \in 1..(n + k) : i > n => q[i] = msgs[i - n]
    BY <1>1, ConcatProperties, LenProperties
  <2>2. requests' = q
    BY <1>4
  <2> HIDE DEF q, n, k
  <2>3. ASSUME NEW w, Pending(w) PROVE Pending(w)'
    BY <2>1, <2>2, <2>3 DEF Pending, n
  <2>4. EnablingAsks'
    <3>1. SUFFICES ASSUME NEW i \in 1..(n + k), q[i].what = "enable-stream"
                   PROVE  i + 1 \in 1..(n + k) /\ q[i + 1].what = "known-mac-addresses"
      BY <2>1, <2>2 DEF EnablingAsks
    <3>2. CASE i \in 1..n
      <4>1. requests[i].what = "enable-stream"
        BY <2>1, <3>1, <3>2
      <4>2. i + 1 \in 1..n /\ requests[i + 1].what = "known-mac-addresses"
        BY <3>2, <4>1 DEF DesktopInv, EnablingAsks, n
      <4> QED
        BY <2>1, <4>2
    <3>3. CASE i > n
      <4>1. i - n \in 1..k /\ msgs[i - n].what = "enable-stream"
        BY <2>1, <3>1, <3>3
      <4>2. (i - n) + 1 \in 1..k /\ msgs[(i - n) + 1].what = "known-mac-addresses"
        BY <4>1 DEF k
      <4>3. i + 1 \in 1..(n + k) /\ i + 1 > n /\ (i + 1) - n = (i - n) + 1
        BY <2>1, <3>1, <3>3, <4>2
      <4>4. q[i + 1] = msgs[(i + 1) - n]
        BY <2>1, <4>3
      <4> QED
        BY <4>2, <4>3, <4>4
    <3> QED
      BY <2>1, <3>2, <3>3
  <2>5. Types'
    BY <1>0, <2>1, <2>2 DEF DesktopInv, Types
  <2>6. Sessions'
    BY <1>0, <2>3 DEF DesktopInv, Sessions, ButtonFollowsDescriptor
  <2>7. OneDevice' /\ ReportRight'
    BY <1>0 DEF DesktopInv, OneDevice, ReportRight
  <2>8. DevicesArrive' /\ AddressesArrive'
    BY <1>0, <2>3 DEF DesktopInv, DevicesArrive, AddressesArrive
  <2> QED
    BY <1>2, <2>4, <2>5, <2>6, <2>7, <2>8 DEF DesktopInv
<1> QED
  BY <1>3, <1>4 DEF sent

\* A click on a device.
LEMMA Inv_Toggle == ASSUME DesktopInv, NEW d \in Devices, Toggle(d) PROVE DesktopInv'
<1>1. /\ d \in shown
      /\ UNCHANGED <<daemonVars, served, streams, fd, peerClosed, replies, windowVars,
                     shown, rows, history, doubled, familiar>>
  BY DEF Toggle
<1>2. fd = "open"
  BY <1>1 DEF DesktopInv, Sessions
<1> DEFINE off == [what |-> "disable-stream", dev |-> d]
           on  == [what |-> "enable-stream", dev |-> d]
           ask == [what |-> "known-mac-addresses"]
           one == <<off>>
           three == <<on, ask, ask>>
<1>3. requests' = sent(one) \/ requests' = sent(three)
  BY DEF Toggle
<1>4. /\ off \in Asking /\ on \in Asking /\ ask \in Asking
      /\ off.what = "disable-stream" /\ ask.what = "known-mac-addresses"
  BY DEF Asking
<1> HIDE DEF off, on, ask
<1>5. /\ one \in Seq(Asking) /\ Len(one) = 1 /\ one[1] = off
      /\ three \in Seq(Asking) /\ Len(three) = 3 /\ three[2] = ask /\ three[3] = ask
  BY <1>4
<1> HIDE DEF one, three
<1>6. CASE requests' = sent(one)
  <2>1. \A i \in 1..Len(one) : one[i].what # "enable-stream"
    BY <1>4, <1>5
  <2> QED
    BY <1>1, <1>2, <1>5, <1>6, <2>1, Inv_Asked
<1>7. CASE requests' = sent(three)
  <2>1. \A i \in 1..Len(three) : i = 1 \/ i = 2 \/ i = 3
    BY <1>5
  <2>2. \A i \in 1..Len(three) : three[i].what = "enable-stream" =>
           i + 1 \in 1..Len(three) /\ three[i + 1].what = "known-mac-addresses"
    BY <1>4, <1>5, <2>1
  <2> QED
    BY <1>1, <1>2, <1>5, <1>7, <2>2, Inv_Asked
<1> QED
  BY <1>3, <1>6, <1>7

-----------------------------------------------------------------------------
(* The theorems.                                                           *)

\* The invariant holds when the window is opened,
LEMMA Inv_Init == Init => DesktopInv
<1> SUFFICES ASSUME Init PROVE DesktopInv
  OBVIOUS
<1>1. /\ known \subseteq Devices /\ present = {} /\ report = <<>> /\ served = FALSE
      /\ streams = {} /\ fd = "none" /\ peerClosed = FALSE /\ requests = <<>> /\ replies = <<>>
      /\ connectionState = "DISCONNECTED" /\ dialog = FALSE /\ shown = {} /\ rows = {}
      /\ familiar = (MACs \subseteq history)
  BY DEF Init
<1>2. report \in Seq(News) /\ replies \in Seq(Values) /\ requests \in Seq(Asking)
  BY <1>1, EmptySeq
<1>3. familiar \in BOOLEAN /\ served \in BOOLEAN /\ peerClosed \in BOOLEAN
  BY <1>1
<1>4. Types
  BY <1>1, <1>2, <1>3 DEF Types
<1>5. Sessions /\ EnablingAsks /\ OneDevice
  BY <1>1 DEF Sessions, ButtonFollowsDescriptor, EnablingAsks, OneDevice
<1>6. ReportRight /\ NothingStale
  BY <1>1, QueueEmpty DEF ReportRight, NothingStale
<1>7. DevicesArrive /\ AddressesArrive
  BY <1>1 DEF DevicesArrive, AddressesArrive
<1> QED
  BY <1>4, <1>5, <1>6, <1>7 DEF DesktopInv

\* every step of daemon, network, window and user preserves it,
LEMMA Inv_Next == DesktopInv /\ [Next]_vars => DesktopInv'
  BY Inv_Network, Inv_Quiet, Inv_Handle, Inv_Dispatch, Inv_DaemonEnds, Inv_Receive,
     Inv_ReceiveEnd, Inv_Sessions, Inv_Toggle DEF Next, DaemonStep, Poll, User

\* and so it holds throughout.
LEMMA DesktopInvariant == Spec => []DesktopInv
  BY Inv_Init, Inv_Next, PTL DEF Spec

\* In a state with nothing under way the queues decide nothing any more.
LEMMA InStepLists == DesktopInv /\ InStep => DevicesShown /\ AddressesShown
<1> SUFFICES ASSUME DesktopInv, InStep PROVE DevicesShown /\ AddressesShown
  OBVIOUS
<1>1. /\ fd = "open" /\ ~peerClosed /\ requests = <<>> /\ replies = <<>> /\ report = <<>>
  BY DEF InStep
<1>2. \A w : ~Pending(w)
  BY <1>1 DEF Pending
<1>3. /\ known \subseteq Devices /\ shown \subseteq Devices /\ streams \subseteq Devices
      /\ rows \subseteq MACs \X Devices /\ present \subseteq MACs \X known
  BY DEF DesktopInv, Types
<1>4. known \subseteq shown
  BY <1>1, <1>2, QueueEmpty DEF DesktopInv, DevicesArrive
<1>5. \A d \in Devices : d \in shown \/ (\E m \in MACs : <<m, d>> \in rows) => d \in known
  BY <1>1, QueueEmpty DEF DesktopInv, NothingStale
<1>6. DevicesShown
  <2>1. shown = known
    BY <1>3, <1>4, <1>5
  <2>2. ASSUME NEW p \in rows PROVE p[2] \in shown
    <3>1. p = <<p[1], p[2]>> /\ p[1] \in MACs /\ p[2] \in Devices
      BY <1>3
    <3> QED
      BY <1>5, <2>1, <3>1
  <2> QED
    BY <2>1, <2>2 DEF DevicesShown
<1>7. AddressesShown
  <2>1. SUFFICES ASSUME familiar, NEW p \in present, p[2] \in streams, p[1] \notin doubled
                 PROVE  p \in rows
    BY DEF AddressesShown
  <2>2. p = <<p[1], p[2]>> /\ p[1] \in MACs
    BY <1>3, <2>1
  <2> QED
    BY <1>1, <1>2, <2>1, <2>2, QueueEmpty DEF DesktopInv, AddressesArrive
<1> QED
  BY <1>6, <1>7

\* A timer polls every connection that may have something to read.
PollInv == timers \in Nat /\ ConnectionPolled

\* Timers come with connections and run out at ends, failures, or none.
LEMMA Poll_Next == DesktopInv /\ PollInv /\ [Next]_vars => PollInv'
<1> SUFFICES ASSUME DesktopInv, PollInv, [Next]_vars PROVE PollInv'
  OBVIOUS
<1>1. /\ timers \in Nat /\ replies \in Seq(Values)
      /\ familiar => MACs \subseteq history
      /\ served => ~peerClosed
  BY DEF DesktopInv, Types, Sessions, PollInv
<1>2. ASSUME UNCHANGED <<timers, familiar, fd, peerClosed>>,
             UNCHANGED replies \/ ~peerClosed
      PROVE  PollInv'
  BY <1>2 DEF PollInv, ConnectionPolled
<1>3. CASE NetworkChanges \/ Serve \/ EndHandle \/ DaemonStarts \/ UNCHANGED vars
  BY <1>2, <1>3 DEF NetworkChanges, Changed, Serve, EndHandle, DaemonStarts, vars, daemonVars,
                    sessionVars, windowVars, countVars
<1>4. CASE HandleRequest \/ Dispatch
  BY <1>1, <1>2, <1>4 DEF HandleRequest, Dispatch, windowVars, countVars
<1>5. CASE DaemonEnds
  <2>1. UNCHANGED <<timers, familiar, fd, replies>>
    BY <1>5 DEF DaemonEnds, windowVars, countVars
  <2>2. peerClosed' = (fd = "open")
    BY <1>5 DEF DaemonEnds
  <2> QED
    BY <2>1, <2>2 DEF PollInv, ConnectionPolled
<1>6. CASE Receive
  <2>1. /\ timers > 0 /\ replies # <<>> /\ UNCHANGED <<fd, peerClosed, familiar>>
    BY <1>6 DEF Receive, countVars
  <2>2. timers' = timers \/ (timers' = timers - 1 /\ ~familiar)
    <3> DEFINE v == Head(replies)
    <3>1. v \in Values
      BY <1>1, <2>1, HeadTailProperties
    <3>2. ASSUME NEW f, addMACs(f), timers' # timers
          PROVE  timers' = timers - 1 /\ ~(DOMAIN f \subseteq history)
      BY <3>2 DEF addMACs
    <3>3. CASE v.what = "known-mac-addresses"
      <4>1. addMACs(v.macs)
        BY <1>6, <3>3 DEF Receive
      <4>2. v.macs \in Dictionaries
        BY <3>1, <3>3 DEF Values, News, DeviceNews, MACNews, MACEvents
      <4>3. DOMAIN v.macs \subseteq MACs
        BY <4>2 DEF Dictionaries
      <4> QED
        BY <1>1, <3>2, <4>1, <4>3
    <3>4. CASE v.what = "mac-address-discovered"
      <4>1. addMACs([m \in {v.mac} |-> v.dev])
        BY <1>6, <3>4 DEF Receive
      <4>2. v.mac \in MACs
        BY <3>1, <3>4 DEF Values, News, DeviceNews, MACNews, MACEvents
      <4> QED
        BY <1>1, <3>2, <4>1, <4>2
    <3>5. CASE v.what \in {"devices-list", "device-added", "device-removed",
                           "mac-address-disappeared"}
      BY <1>6, <3>5 DEF Receive, addDevices, removeDevice
    <3>6. v.what \in {"devices-list", "device-added", "device-removed",
                      "mac-address-disappeared", "known-mac-addresses",
                      "mac-address-discovered"}
      BY <3>1 DEF Values, News, DeviceNews, MACNews, MACEvents
    <3> HIDE DEF v
    <3> QED
      BY <3>3, <3>4, <3>5, <3>6
  <2> QED
    BY <1>1, <2>1, <2>2 DEF PollInv, ConnectionPolled
<1>7. CASE ReceiveNothing
  BY <1>2, <1>7 DEF ReceiveNothing, vars, sessionVars, windowVars, countVars
<1>8. CASE ReceiveEnd \/ StopPolling
  <2>1. /\ timers > 0 /\ timers' = timers - 1 /\ UNCHANGED <<fd, replies, peerClosed>>
        /\ fd # "open" \/ (peerClosed /\ replies = <<>>)
    BY <1>8 DEF ReceiveEnd, StopPolling, connected, sessionVars
  <2> QED
    BY <1>1, <2>1 DEF PollInv, ConnectionPolled
<1>9. CASE OpenDialog \/ Cancel \/ \E d \in Devices : Toggle(d)
  BY <1>2, <1>9 DEF OpenDialog, Cancel, Toggle, sessionVars, windowVars, countVars
<1>10. CASE Disconnect \/ ConnectFails
  BY <1>1, <1>10 DEF Disconnect, ConnectFails, NewDescriptor, PollInv, ConnectionPolled
<1>11. CASE Connect
  BY <1>1, <1>11 DEF Connect, PollInv, ConnectionPolled
<1> QED
  BY <1>3, <1>4, <1>5, <1>6, <1>7, <1>8, <1>9, <1>10, <1>11 DEF Next, DaemonStep, Poll, User

\* As long as a connection may have something to read a timer polls it, whatever becomes
\* of the timers of former connections, when no address is new to the history
\* (processConnectionManager(), checkPyMACDetect()).
THEOREM DesktopConnectionPolled == Spec => []ConnectionPolled
<1>1. Init => PollInv
  BY DEF Init, PollInv, ConnectionPolled
<1>2. PollInv => ConnectionPolled
  BY DEF PollInv
<1> QED
  BY <1>1, <1>2, DesktopInvariant, Poll_Next, PTL DEF Spec

\* Once everything has been read and answered the window lists the daemon's devices and
\* no address on any other (addDevice() and removeDevice() of MDGui.py), although an
\* answer may come from a table whose events are still to be sent.
THEOREM DesktopDevicesShown == Spec => []DevicesShown
<1>1. DesktopInv => DevicesShown
  BY InStepLists DEF DevicesShown
<1> QED
  BY <1>1, DesktopInvariant, PTL

\* Every address on a device with a stream is listed then, when none is new to the
\* history and none has been on two devices at once (addMAC(), enableStream()).
THEOREM DesktopAddressesShown == Spec => []AddressesShown
<1>1. DesktopInv => AddressesShown
  BY InStepLists DEF AddressesShown
<1> QED
  BY <1>1, DesktopInvariant, PTL
=============================================================================
