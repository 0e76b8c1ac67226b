------------------------------ MODULE Evidence -------------------------------
(***************************************************************************)
(* The evidence about one server: probe reports turned into observations   *)
(* (SqliteStore.accept_report), the collector's rows (Pipeline.collect),   *)
(* the retention sweep (SqliteStore.sweep) and the state evaluate_scope    *)
(* reads out of them at any moment.                                        *)
(*                                                                         *)
(* Reports carry the probe's own clock: they arrive late when they were    *)
(* queued on the device, and from the future when its clock is ahead;      *)
(* accept_report checks neither.                                           *)
(***************************************************************************)
EXTENDS Evaluator

CONSTANTS
    Freshness,      \* monitoring.freshness_seconds
    Confirmations,  \* monitoring.confirmations
    Day,            \* the 24 hours whose sources are expected to report
    Retention,      \* retention.observations_days
    Payloads,       \* [kind, checks, route]: what probes may send
    Delay,          \* bound: how late a report may arrive
    Skew,           \* bound: how far a probe's clock may be ahead
    MaxTime,        \* bound: the clock
    MaxRows         \* bound: rows of the table

Check == {"control_internet", "handshake", "https", "dns", "tcp"}

\* config.schema: freshness is at most an hour, retention at least a day.
ASSUME EvidenceAssumption ==
    /\ {Freshness, Delay, Skew, MaxTime, MaxRows} \subseteq Nat
    /\ Confirmations \in Nat \ {0}
    /\ {Day, Retention} \subseteq Nat /\ Freshness < Day /\ Day <= Retention
    /\ \A p \in Payloads : /\ p.kind \in {"pc", "android", "abroad"} /\ p.route \in BOOLEAN
                           /\ DOMAIN p.checks \subseteq Check
                           /\ \A c \in DOMAIN p.checks : p.checks[c] \in ObservationResult

VARIABLES now, rows

evidenceVars == <<now, rows>>

-----------------------------------------------------------------------------
(* accept_report: the checks of one target become one observation *)

SOURCE_OF_PROBE(kind) == IF kind = "android" THEN "mobile" ELSE kind

FULL_TEST_CHECKS == {"handshake", "https"}

\* Checks that were not run are left out; one failed check fails the target.
TargetResult(checks) ==
    LET ran == {c \in DOMAIN checks : checks[c] # "not_run"}
    IN  IF ran = {} THEN "not_run"
        ELSE IF \E c \in ran : checks[c] = "failure" THEN "failure"
        ELSE "success"

ControlInternet(checks) ==
    IF "control_internet" \notin DOMAIN checks THEN "none"
    ELSE IF checks["control_internet"] = "success" THEN "yes" ELSE "no"

ReportObservation(p, at) ==
    [source  |-> SOURCE_OF_PROBE(p.kind),
     result  |-> TargetResult(p.checks),
     full    |-> FULL_TEST_CHECKS \subseteq DOMAIN p.checks,
     control |-> ControlInternet(p.checks),
     route   |-> IF p.route THEN "yes" ELSE "no",
     at      |-> at,
     until   |-> at + Freshness]

\* What SshCollector yields: the helper's answer, and people's recent handshakes.
CollectorObservation(source, result) ==
    [source |-> source, result |-> result, full |-> FALSE, control |-> "none",
     route |-> "none", at |-> now, until |-> now + Freshness]

Free(source, at) == \A o \in rows : o.source # source \/ o.at # at

-----------------------------------------------------------------------------
AcceptReport(p, at) ==
    /\ Cardinality(rows) < MaxRows /\ Free(SOURCE_OF_PROBE(p.kind), at)
    /\ rows' = rows \cup {ReportObservation(p, at)}
    /\ UNCHANGED now

Collect(source, result) ==
    /\ Cardinality(rows) < MaxRows /\ Free(source, now)
    /\ rows' = rows \cup {CollectorObservation(source, result)}
    /\ UNCHANGED now

Tick == now < MaxTime /\ now' = now + 1 /\ UNCHANGED rows

\* Mutant: the horizon is the present.
SweepEverythingPast ==
    rows' = {o \in rows : o.at >= now} /\ rows' # rows /\ UNCHANGED now

\* sweep: rows older than the retention are deleted.
Sweep ==
    /\ rows' = {o \in rows : o.at >= now - Retention}
    /\ rows' # rows
    /\ UNCHANGED now

EvidenceInit == now = 0 /\ rows = {}

EvidenceNext ==
    \/ \E p \in Payloads, at \in (now - Delay)..(now + Skew) : AcceptReport(p, at)
    \/ \E result \in {"success", "failure"} : Collect("collector", result)
    \/ Collect("human_activity", "success")
    \/ Tick
    \/ Sweep

EvidenceSpec == EvidenceInit /\ [][EvidenceNext]_evidenceVars

-----------------------------------------------------------------------------
(* Properties *)

\* _expected_sources: whatever reported about the server in the last 24 hours,
\* route_verified or not; a report from the future counts.
RecentSources == {o.source : o \in {r \in rows : r.at >= now - Day}}

ExpectedSources == IF RecentSources = {} THEN 1 ELSE Cardinality(RecentSources)

\* What the loop would save for the server at this moment.
Evaluate == EvaluateScope(rows, now, ExpectedSources, Confirmations)

NewRow(o) == o \in rows' /\ o \notin rows

\* Every row of the table, late, early or swept, has the fields evaluate_scope reads.
EvidenceTypeOK ==
    /\ now \in Nat
    /\ \A o \in rows : /\ o.source \in {"pc", "mobile", "abroad", "collector", "human_activity"}
                       /\ o.result \in ObservationResult /\ o.full \in BOOLEAN
                       /\ o.control \in Flag /\ o.route \in Flag
                       /\ o.at \in Int /\ o.until = o.at + Freshness

\* evaluate_scope's docstring: unavailable "requires consecutive valid full-test
\* failures with working control Internet".  From some moment on one source made
\* at least Confirmations fresh full tests, all of them failed with its own
\* Internet working, and no person and no full test succeeded anywhere.
OutageIsConfirmed ==
    Evaluate.state = "unavailable" =>
        /\ \E first \in rows :
             LET tests == {o \in Fresh(rows, now) :
                             o.full /\ o.source = first.source /\ o.at >= first.at}
             IN  /\ Cardinality(tests) >= Confirmations
                 /\ \A o \in tests : o.result = "failure" /\ o.control = "yes"
        /\ ~\E o \in Fresh(rows, now) :
             o.result = "success" /\ (o.full \/ o.source = "human_activity") /\ o.source # "abroad"

HidesNoOutage ==
    \A o \in rows' :
        NewRow(o) /\ o.source = "abroad" /\ ~o.full /\ Evaluate.state = "unavailable"
        => Evaluate'.state = "unavailable"

\* evaluate_scope: a cross-server handshake "must never talk a confirmed outage
\* down": no report of an abroad probe that is not a full test ends unavailable,
\* whatever it says and however late it comes.
AbroadNeverHidesOutage == [][HidesNoOutage]_evidenceVars

Covered(coverage) == coverage.num > 0

\* The state, its reason, its dates and the count stay; the covered share may only
\* fall, and not to nothing.
OnlyLowersCoverage(before, after) ==
    /\ \A field \in {"state", "reason", "observed", "until", "count"} : after[field] = before[field]
    /\ after.coverage.num * before.coverage.den <= before.coverage.num * after.coverage.den
    /\ Covered(before.coverage) => Covered(after.coverage)

MisroutedOnlyDilutes ==
    \A o \in rows' : NewRow(o) /\ o.route = "no" => OnlyLowersCoverage(Evaluate, Evaluate')

\* pc.md: reports with route_verified false "are excluded from state": such a report
\* moves neither the state nor how fresh it looks.  _expected_sources does count it,
\* so it may lower the coverage, never raise it and never take it away.
MisroutedMovesNoState == [][MisroutedOnlyDilutes]_evidenceVars

\* evaluate_scope's docstring: "Absence of human activity and a stopped probe never
\* become failure": when only time passes an operational server turns unknown at
\* worst, an unknown one stays unknown, and no failure becomes a confirmed one.  (A
\* degraded server may turn unavailable: the success that contradicted a confirmed
\* failure expires.)
SilenceIsNotFailure ==
    [][now' # now =>
         /\ Evaluate.state = "operational" => Evaluate'.state \in {"operational", "unknown"}
         /\ Evaluate.state = "unknown" => Evaluate'.state = "unknown"
         /\ ConfirmedFailure(Fresh(rows, now'), Confirmations)
            => ConfirmedFailure(Fresh(rows, now), Confirmations)]_evidenceVars

DeletesOnlyHistory == rows' \subseteq rows /\ now' = now => Evaluate' = Evaluate

\* The retention sweep never deletes evidence that still decides the state or is
\* counted for its coverage.
SweepKeepsTheState == [][DeletesOnlyHistory]_evidenceVars
=============================================================================
