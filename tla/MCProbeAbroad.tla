---------------------------- MODULE MCProbeAbroad ----------------------------
(* Instances of ProbeAbroad for TLC. *)
EXTENDS ProbeAbroad
=============================================================================
