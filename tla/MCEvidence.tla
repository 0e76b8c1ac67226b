----------------------------- MODULE MCEvidence ------------------------------
(* Instances of Evidence for TLC. *)
EXTENDS Evidence

FullTest(control, handshake, https) ==
    [c \in {"control_internet", "handshake", "https"} |->
        IF c = "control_internet" THEN control ELSE IF c = "handshake" THEN handshake ELSE https]

Handshake(result) == [c \in {"handshake"} |-> result]

Payload(kind, checks, route) == [kind |-> kind, checks |-> checks, route |-> route]

Worked      == FullTest("success", "success", "success")
Blocked     == FullTest("success", "failure", "not_run")
NoInternet  == FullTest("failure", "not_run", "not_run")
Stopped     == FullTest("not_run", "not_run", "not_run")

SomePayloads ==
    {Payload("pc", Worked, TRUE), Payload("pc", Blocked, TRUE), Payload("pc", NoInternet, TRUE),
     Payload("pc", Stopped, TRUE), Payload("pc", Worked, FALSE), Payload("pc", Blocked, FALSE),
     Payload("abroad", Handshake("success"), TRUE), Payload("abroad", Handshake("failure"), TRUE)}
=============================================================================
