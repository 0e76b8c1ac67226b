----------------------------- MODULE MCReleases ------------------------------
(* Instances of Releases for TLC. *)
EXTENDS Releases

\* Every commit has a migration more than the one before.
OneMigrationEach == [src \in Sources |-> src]
=============================================================================
