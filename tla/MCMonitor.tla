------------------------------ MODULE MCMonitor ------------------------------
(* Instances of Monitor for TLC. *)
EXTENDS Monitor

CONSTANTS s1

PcReport(result, control) ==
    [source |-> "pc", result |-> result, full |-> TRUE, control |-> control, route |-> "yes"]

PcOnly == {PcReport("success", "yes"), PcReport("failure", "yes")}
=============================================================================
