----------------------------- MODULE MCDesktop -----------------------------
(***************************************************************************)
(* A small instance of Desktop for TLC: two devices, one of them serving.  *)
(***************************************************************************)
EXTENDS Desktop

CONSTANTS eth, wlan, m1, m2

MCDevices == {eth, wlan}
MCMACs == {m1, m2}
=============================================================================
