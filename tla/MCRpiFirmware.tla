-------------------------- MODULE MCRpiFirmware --------------------------
(* Instances of RpiFirmware for TLC: two guests, px4 and cam, as in        *)
(* demos/px4; t1 and t2 are threads of px4, t3 is one of cam.              *)
EXTENDS RpiFirmware

CONSTANTS px4, cam, t1, t2, t3, p1, p2, c1, c2

MCVmOf   == [t \in Threads |-> IF t = t3 THEN cam ELSE px4]
MCHomeOf == [b \in Bufs |-> IF b \in {c1, c2} THEN cam ELSE px4]
=============================================================================
