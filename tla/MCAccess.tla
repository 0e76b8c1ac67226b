------------------------------ MODULE MCAccess -------------------------------
(* Instances of Access for TLC. *)
EXTENDS Access, TLC

CONSTANTS t1, t2, u1, a1, e1, e2, e3

Alike == Permutations(Threads)

SentBatches == {{e1, e2}, {e1, e3}}
=============================================================================
