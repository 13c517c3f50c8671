----------------------------- MODULE MCNetwork -----------------------------
(***************************************************************************)
(* Small instances of Network for TLC.                                     *)
(***************************************************************************)
EXTENDS NetworkMonitor, TLC

CONSTANTS eth, wlan,       \* interfaces
          zero, ma, mw,    \* addresses: all zeros, a host's, that of eth
          ip, ip2, mcast,  \* two unicast IP addresses and a multicast one
          host             \* a host name

\* An address that is seen in frames and is the device's own.
MCDeviceMAC1 == eth :> mw

\* No frame carries a device's own address.
MCDeviceMAC0 == [d \in Devices |-> zero]

\* One regex that matches no device: the lists allow none or, as a blacklist, all.
MCPatterns0 == {{}}

\* With MCDeviceMAC0 and MCPatterns0 devices differ in nothing but their names.
DeviceSymmetry == Permutations(Devices)

\* One regex that matches eth.
MCPatterns1 == {{eth}}

\* An interface that is up and one that is not.
MCStatuses ==
    {[up |-> FALSE, running |-> FALSE, ip |-> ip, broadcast |-> ip],
     [up |-> TRUE, running |-> TRUE, ip |-> ip, broadcast |-> ip]}

MCStatus == {[up |-> TRUE, running |-> TRUE, ip |-> ip, broadcast |-> ip]}
=============================================================================
