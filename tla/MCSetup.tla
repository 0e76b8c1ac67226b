------------------------------- MODULE MCSetup -------------------------------
(* Instances of Setup for TLC. *)
EXTENDS Setup

CONSTANTS s1, s2
=============================================================================
