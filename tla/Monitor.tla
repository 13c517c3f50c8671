------------------------------ MODULE Monitor ------------------------------
(***************************************************************************)
(* What macdetectd relies on when it calls Network::cycle(): the devices   *)
(* known, the addresses present on them, and a report of every change, in  *)
(* the order device reads, removals, additions, status and expiry.  Times, *)
(* evidence values and the kernel's interfaces are abstracted away; Network*)
(* is shown to implement this specification.                               *)
(***************************************************************************)
EXTENDS Naturals, Sequences

CONSTANTS
    Devices, MACs,
    None         \* the empty device name

ASSUME MonitorAssumption == None \notin Devices

VARIABLES
    stage,       \* which part of cycle() runs; "idle" between two calls
    known,       \* names of the known devices
    present,     \* pairs <<address, device>> in the table
    heard,       \* addresses an IP address is known of, in the table or not
    report       \* the events of the cycle

monitorVars == <<stage, known, present, heard, report>>

Stages == {"idle", "read", "remove", "add", "late"}

\* "DeviceStatus" stands for a change of a device's state or evidence, which the
\* daemon passes on in the same way.
Event(type, d, m) == [type |-> type, dev |-> d, mac |-> m]

Append2(s, x, y) == s \o <<x, y>>

-----------------------------------------------------------------------------
Start ==
    /\ stage = "idle"
    /\ stage' = "read"
    /\ report' = <<>>
    /\ UNCHANGED <<known, present, heard>>

\* A frame of an address not in the table, with an address that is news or not.
Discover(m, d) ==
    /\ stage = "read"
    /\ d \in known /\ <<m, d>> \notin present
    /\ present' = present \cup {<<m, d>>}
    /\ \/ /\ report' = Append(report, Event("MACAddressDiscovered", d, m))
          /\ UNCHANGED heard
       \/ /\ report' = Append2(report, Event("MACAddressDiscovered", d, m),
                                       Event("MACEvidenceChanged", d, m))
          /\ heard' = heard \cup {m}
    /\ UNCHANGED <<stage, known>>

\* New evidence; the device is None when the address is not in the table any more.
Evidence(m, d) ==
    /\ stage = "read"
    /\ \/ d \in known /\ <<m, d>> \in present
       \/ d = None /\ m \in heard /\ \A e \in Devices : <<m, e>> \notin present
    /\ heard' = heard \cup {m}
    /\ report' = Append(report, Event("MACEvidenceChanged", d, m))
    /\ UNCHANGED <<stage, known, present>>

\* The monitor goes on to a later part of the cycle, the removed devices' addresses
\* being all gone.
Advance(s) ==
    /\ \/ stage = "read" /\ s = "remove"
       \/ stage = "remove" /\ s = "add" /\ \A p \in present : p[2] \in known
       \/ stage = "add" /\ s = "late"
    /\ stage' = s
    /\ UNCHANGED <<known, present, heard, report>>

Remove(d) ==
    /\ stage = "remove"
    /\ d \in known
    /\ \A p \in present : p[2] \in known
    /\ known' = known \ {d}
    /\ report' = Append(report, Event("DeviceRemoved", d, None))
    /\ UNCHANGED <<stage, present, heard>>

\* An address of the device just removed goes with it.
Purge(m, d) ==
    /\ stage = "remove"
    /\ d \notin known /\ <<m, d>> \in present
    /\ present' = present \ {<<m, d>>}
    /\ report' = Append(report, Event("MACAddressDisappeared", d, m))
    /\ UNCHANGED <<stage, known, heard>>

Add(d) ==
    /\ stage = "add"
    /\ d \notin known
    /\ known' = known \cup {d}
    /\ report' = Append2(report, Event("DeviceAdded", d, None),
                                 Event("DeviceStatus", d, None))
    /\ UNCHANGED <<stage, present, heard>>

\* Two flags and two addresses of a device may have changed.
StatusReports(d) ==
    LET S == Event("DeviceStatus", d, None)
    IN  {<<>>, <<S>>, <<S, S>>, <<S, S, S>>, <<S, S, S, S>>}

Status(d) ==
    /\ stage = "late"
    /\ d \in known
    /\ \E r \in StatusReports(d) : report' = report \o r
    /\ UNCHANGED <<stage, known, present, heard>>

Expire(m, d) ==
    /\ stage = "late"
    /\ <<m, d>> \in present
    /\ present' = present \ {<<m, d>>}
    /\ report' = Append(report, Event("MACAddressDisappeared", d, m))
    /\ UNCHANGED <<stage, known, heard>>

End ==
    /\ stage = "late"
    /\ stage' = "idle"
    /\ UNCHANGED <<known, present, heard, report>>

-----------------------------------------------------------------------------
MonitorInit == stage = "idle" /\ known = {} /\ present = {} /\ heard = {} /\ report = <<>>

\* Steps that a cycle may take, as the network and the kernel have it.
Happening ==
    \/ \E m \in MACs, d \in Devices : Discover(m, d)
    \/ \E m \in MACs, d \in Devices \cup {None} : Evidence(m, d)
    \/ \E d \in Devices : Remove(d) \/ Add(d) \/ Status(d)
    \/ \E m \in MACs, d \in Devices : Expire(m, d)

\* Steps that take a cycle to its end.
Progress ==
    \/ \E m \in MACs, d \in Devices : Purge(m, d)
    \/ \E s \in Stages : Advance(s)
    \/ End

MonitorNext == Start \/ Happening \/ Progress

MonitorSpec == MonitorInit /\ [][MonitorNext]_monitorVars
=============================================================================
