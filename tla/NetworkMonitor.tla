--------------------------- MODULE NetworkMonitor ---------------------------
(***************************************************************************)
(* Network implements Monitor: the detailed cycle with its clock, links,   *)
(* frames and resolver does nothing the contract does not allow.           *)
(***************************************************************************)
EXTENDS Network

StageOf ==
    [p \in Phases |->
        CASE p \in {"read", "hosts"}      -> "read"
          [] p \in {"remove", "purge"}    -> "remove"
          [] p = "add"                    -> "add"
          [] p \in {"maintain", "expire"} -> "late"
          [] OTHER                        -> "idle"]

Pairs == {<<e.mac, e.dev>> : e \in macSeen}

IsMACEvent(e) ==
    e.type \in {"MACAddressDiscovered", "MACAddressDisappeared", "MACEvidenceChanged"}

Abstract(e) ==
    [type |-> IF e.type \in {"DeviceStateChanged", "DeviceEvidenceChanged"}
              THEN "DeviceStatus" ELSE e.type,
     dev  |-> e.dev,
     mac  |-> IF IsMACEvent(e) THEN e.mac ELSE None]

Contract == INSTANCE Monitor WITH
    stage   <- StageOf[npc],
    known   <- Known,
    present <- Pairs,
    heard   <- {m \in MACs : evidence[m]["ip"] # None},
    report  <- [i \in 1..Len(events) |-> Abstract(events[i])]

\* Every behaviour of Network::cycle() is one the daemon is told to expect: what
\* changes in the tables is reported, once, in the order and in the part of the
\* cycle the contract says, and no device goes without its addresses.
ImplementsMonitor == Contract!MonitorSpec
=============================================================================
