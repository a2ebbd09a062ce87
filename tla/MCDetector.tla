----------------------------- MODULE MCDetector -----------------------------
(***************************************************************************)
(* A small instance of the detector: one device, one BGP peer that both the *)
(* collector and the BMP goroutine evaluate, and the device's reachability,  *)
(* which only the collector evaluates.                                       *)
(***************************************************************************)
EXTENDS Detector, TLC

CONSTANTS d1, t1

Poll == <<"poll", d1>>
Bmp == <<"bmp", d1>>

MCWriter == {Poll, Bmp}

PeerDown == <<d1, "bgp_down", t1>>
Offline == <<d1, "device_offline", t1>>

MCKeysOf == (Poll :> {PeerDown, Offline}) @@ (Bmp :> {PeerDown})
=============================================================================
