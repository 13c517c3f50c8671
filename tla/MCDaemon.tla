------------------------------ MODULE MCDaemon ------------------------------
(***************************************************************************)
(* Small instances of Daemon for TLC.                                      *)
(***************************************************************************)
EXTENDS Daemon, TLC

CONSTANTS eth, wlan, ma, c1, c2, s1

\* Every listener is on eth.
MCServingDevice == [v \in Servings |-> eth]

Request(ops, devs) == [op : ops, dev : devs]

\* A client that switches its own device's stream on and off and asks for its addresses.
MCViewRequests ==
    Request({"known-mac-addresses", "enable-stream", "disable-stream"}, {eth})

\* Clients that each ask one thing.
MCOneRequests == Request({"devices-list", "enable-stream"}, {eth})

\* A client that switches any stream on and off.
MCAnyStream == Request({"enable-stream", "disable-stream"}, Devices)

ConnSymmetry == Permutations(Conns)
=============================================================================
