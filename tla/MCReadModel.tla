----------------------------- MODULE MCReadModel -----------------------------
(* Instances of ReadModel for TLC. *)
EXTENDS ReadModel

CONSTANTS s1, s2, p1, p2

RankOf == [s \in Servers |-> IF s = s1 THEN 1 ELSE 2]

Kinds == [p \in Probes |-> IF p = p1 THEN "pc" ELSE "android"]

\* An engine that answers with one peer, and one that cannot be read.
PayloadsOfHelper ==
    {[engine |-> TRUE, peers |-> 1, host |-> {}],
     [engine |-> FALSE, peers |-> 1, host |-> {"DISK_PRESSURE"}]}

\* A report that took the intended route with the Internet at hand, and one that did not.
GoodAndMisrouted ==
    {[control |-> "yes", route |-> "yes"], [control |-> "none", route |-> "no"]}
=============================================================================
