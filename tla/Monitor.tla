------------------------------- MODULE Monitor -------------------------------
(***************************************************************************)
(* The monitoring loop over a real evidence table.  The API process stores *)
(* probe reports at any moment (SqliteStore.accept_report), the loop       *)
(* stores what its collectors say at the start of a run (Pipeline.collect, *)
(* SshCollector.collect), and evaluate_scope turns the fresh rows into the *)
(* evaluation that Pipeline.tla saves and announces.                       *)
(*                                                                         *)
(* The loop's steps are those of Pipeline, so what is shown for every      *)
(* evaluation there holds here; what is new is where evaluations come      *)
(* from: rows that arrive late, early or never and expire one by one.      *)
(***************************************************************************)
EXTENDS Pipeline

CONSTANTS
    Freshness,      \* monitoring.freshness_seconds
    Confirmations,  \* monitoring.confirmations
    Delay,          \* bound: how late a queued report may arrive
    Skew,           \* bound: how far a probe's clock may be ahead
    Reports         \* what the probes may report, without the time

ASSUME MonitorAssumption ==
    /\ {Freshness, Delay, Skew} \subseteq Nat /\ Freshness <= Lag /\ Skew <= Ahead
    /\ Confirmations \in Nat \ {0}
    /\ Reports \subseteq [source : {"pc", "mobile", "abroad"}, result : ObservationResult,
                          full : BOOLEAN, control : Flag, route : Flag]

VARIABLE obs  \* observations that may still be fresh, by scope

monitorVars == <<vars, obs>>

SourceKind == {"pc", "mobile", "abroad", "collector", "human_activity"}

Observed(report, at) ==
    [source |-> report.source, result |-> report.result, full |-> report.full,
     control |-> report.control, route |-> report.route, at |-> at, until |-> at + Freshness]

StillFresh(rows, t) == {o \in rows : o.until >= t}

\* Two rows of one source never carry the same time (microseconds in the code).
Unclaimed(rows, report, at) == \A o \in rows : ~(o.source = report.source /\ o.at = at)

\* accept_report for one target, possibly long after the check was made, or before
\* the time it carries.
AcceptReport(s, report, at) ==
    /\ now - Delay <= at /\ at + Freshness >= now
    /\ Unclaimed(obs[s], report, at)
    /\ obs' = [obs EXCEPT ![s] = @ \cup {Observed(report, at)}]
    /\ UNCHANGED vars

CollectorReport(result) ==
    [source |-> "collector", result |-> result, full |-> FALSE, control |-> "none", route |-> "none"]

HumanActivity ==
    [source |-> "human_activity", result |-> "success", full |-> FALSE, control |-> "none", route |-> "none"]

\* What one collector yields: nothing when it raises, a failed SSH call, the
\* server's metrics, or metrics with recent handshakes of people.
Collections ==
    {{}, {CollectorReport("failure")}, {CollectorReport("success")},
     {CollectorReport("success"), HumanActivity}}

\* The start of run_once: the clock is read and the collectors' rows are stored.
CollectAndStart(items) ==
    /\ StartRun
    /\ obs' = [s \in Scopes |-> StillFresh(obs[s], now')
                                  \cup {Observed(item, now') : item \in items[s]}]

\* evaluate for one server: the fresh rows are read and their evaluation saved.
\* (_expected_sources counts the sources of a day, rows forgotten here included: any
\* number of them.  It only scales the coverage, which no step of the loop reads.)
EvaluateServer(s, expected) ==
    /\ SaveEvaluation(s, EvaluateScope(obs[s], now, expected, Confirmations))
    /\ UNCHANGED obs

MonitorInit == Init /\ obs = [s \in Scopes |-> {}]

Rest == (WriteEvent \/ Deliver \/ FinishRun \/ Crash \/ Horizon) /\ UNCHANGED obs

MonitorNext ==
    \/ \E s \in Scopes, report \in Reports, at \in 0..(now + Skew) :
          AcceptReport(s, report, at)
    \/ \E items \in [Scopes -> Collections] : CollectAndStart(items)
    \/ \E s \in todo, expected \in 1..Cardinality(SourceKind) : EvaluateServer(s, expected)
    \/ Rest

MonitorSpec == MonitorInit /\ [][MonitorNext]_monitorVars

-----------------------------------------------------------------------------
(* Properties *)

\* Types of the evidence table.
MonitorTypeOK ==
    /\ obs = [s \in Scopes |-> obs[s]]
    /\ \A s \in Scopes : \A o \in obs[s] :
         /\ o.at \in 0..(now + Skew) /\ o.until = o.at + Freshness
         /\ o.result \in ObservationResult /\ o.control \in Flag /\ o.route \in Flag

\* A change of a server rests on evidence no older than that of any change recorded
\* before it, however late, early or out of order its reports arrived and whichever
\* of them expired in between: the timeline follows the evidence.  So the key of a
\* change (which ends in observed_at) repeats, and INSERT OR IGNORE drops the change,
\* only while nothing newer was observed since.
NeverGoesBack ==
    pc = "evaluate" /\ pc' = "event" =>
        \A k \in current' : k.observed # NoTime =>
            \A j \in DOMAIN trans : j.scope = k.scope => j.observed <= k.observed

EvidenceNeverGoesBack == [][NeverGoesBack]_monitorVars

\* tests/test_pipeline_runner.py: "only the last open transition stays open":
\* a scope that ever changed has the transition into its present state open.
\* (No run checks it: with a freshness of one it fails, see the README.)
LastTransitionIsOpen ==
    \A k \in DOMAIN trans :
        \E j \in DOMAIN trans : /\ j.scope = k.scope /\ trans[j] = "open"
                                /\ j.to = snapshot[k.scope]
=============================================================================
