---------------------------- MODULE MCBgpTwamp ----------------------------
(* Small instances of BgpTwamp: a default instance and a VRF named red.    *)
EXTENDS BgpTwamp, TLC

CONSTANTS dflt, red, p1, p2, p3, a1, a2, a3

\* The default instance alone, with three peers.
Three == dflt :> <<p1, p2, p3>>
ThreeAddrs == p1 :> a1 @@ p2 :> a2 @@ p3 :> a3

\* A VRF that has no peers of its own.
OnlyDefault == dflt :> <<p1>> @@ red :> <<>>
OnlyDefaultAddr == p1 :> a1
=============================================================================
