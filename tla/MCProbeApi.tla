----------------------------- MODULE MCProbeApi ------------------------------
(* Instances of ProbeApi for TLC. *)
EXTENDS ProbeApi

CONSTANTS c1, c2, t1, t2, r1, r2, b1, b2
=============================================================================
