------------------------------ MODULE Evaluator ------------------------------
(***************************************************************************)
(* The pure decision function of src/vpnpulse/domain: evaluate_scope turns *)
(* the evidence about one server into a state.                             *)
(*                                                                         *)
(* Evidence is a set of observation records.  The code works on the list   *)
(* sorted by observed_at; two rows of one source never carry the same time *)
(* (microseconds), so a set of records carries the same order.  Times are  *)
(* integers, NoTime is a NULL timestamp and "none" a None flag.            *)
(***************************************************************************)
EXTENDS Integers, FiniteSets

State == {"operational", "degraded", "unavailable", "unknown"}

ObservationResult == {"success", "failure", "not_run"}

Flag == {"yes", "no", "none"}

NoTime == -1

\* Sources whose success counts without a full test.
SUCCESS_SOURCES == {"human_activity", "abroad"}

\* Mutant: the state of the probe's own Internet is not looked at.
FailureOfAnyFullTest(o) == o.result = "failure" /\ o.full

ValidFullFailure(o) == o.result = "failure" /\ o.full /\ o.control = "yes"

\* Mutant: misrouted reports count.
FreshOnAnyRoute(obs, now) == {o \in obs : o.until >= now}

\* A report whose traffic did not take the intended route has tested nothing.
Fresh(obs, now) == {o \in obs : o.route # "no" /\ o.until >= now}

ValidSuccesses(fresh) ==
    {o \in fresh : o.result = "success" /\ (o.source \in SUCCESS_SOURCES \/ o.full)}

PartialFailures(fresh) == {o \in fresh : o.result = "failure"}

\* Mutant: the first n full tests instead of the last.
FullHead(fresh, source, n) ==
    LET full == {o \in fresh : o.full /\ o.source = source}
    IN  {o \in full : Cardinality({p \in full : p.at < o.at}) < n}

\* The last n full tests of one source, or all of them when there are fewer.
FullTail(fresh, source, n) ==
    LET full == {o \in fresh : o.full /\ o.source = source}
    IN  {o \in full : Cardinality({p \in full : p.at > o.at}) < n}

ConfirmedFailure(fresh, n) ==
    \E source \in {o.source : o \in fresh} :
        LET tail == FullTail(fresh, source, n)
        IN  Cardinality(tail) = n /\ \A o \in tail : ValidFullFailure(o)

\* Mutant: abroad successes contradict an outage too.
AnySuccesses(fresh) == ValidSuccesses(fresh)

\* Evidence from where the members sit, which alone can contradict an outage.
StrongSuccesses(fresh) == {o \in ValidSuccesses(fresh) : o.source # "abroad"}

\* The ladder of evaluate_scope: state and reason code of non-empty fresh evidence.
Verdict(fresh, n) ==
    LET confirmed == ConfirmedFailure(fresh, n)
        succeeded == ValidSuccesses(fresh) # {}
        failed    == PartialFailures(fresh) # {}
    IN  IF confirmed /\ StrongSuccesses(fresh) = {}
        THEN <<"unavailable", "FULL_TEST_FAILURE_CONFIRMED">>
        ELSE IF succeeded /\ failed THEN <<"degraded", "CONFLICTING_FRESH_EVIDENCE">>
        ELSE IF confirmed THEN <<"unavailable", "FULL_TEST_FAILURE_CONFIRMED">>
        ELSE IF succeeded THEN <<"operational", "FULL_SUCCESS_CONFIRMED">>
        ELSE IF failed THEN <<"degraded", "PARTIAL_OR_UNCONFIRMED_FAILURE">>
        ELSE <<"unknown", "NO_CONCLUSIVE_EVIDENCE">>

Largest(S) == CHOOSE x \in S : \A y \in S : y <= x

Smaller(a, b) == IF a < b THEN a ELSE b

\* The covered share of the expected sources, as the fraction num/den <= 1.
Coverage(fresh, expected) ==
    LET den == IF expected < 1 THEN 1 ELSE expected
    IN  [num |-> Smaller(den, Cardinality({o.source : o \in fresh})), den |-> den]

\* Mutant: the oldest time.
EarliestOf(times) == IF times = {} THEN NoTime ELSE CHOOSE x \in times : \A y \in times : x <= y

LatestOf(times) == IF times = {} THEN NoTime ELSE Largest(times)

EvaluateScope(obs, now, expected, n) ==
    LET fresh   == Fresh(obs, now)
        verdict == IF fresh = {} THEN <<"unknown", "NO_FRESH_EVIDENCE">> ELSE Verdict(fresh, n)
    IN  [state    |-> verdict[1],
         reason   |-> verdict[2],
         observed |-> LatestOf({o.at : o \in fresh}),
         until    |-> LatestOf({o.until : o \in fresh}),
         count    |-> Cardinality(fresh),
         coverage |-> Coverage(fresh, expected)]
=============================================================================
