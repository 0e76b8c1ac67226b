------------------------------ MODULE ReadModel ------------------------------
(***************************************************************************)
(* SqliteReadModel: what members and the administrator are shown, computed *)
(* at request time from the tables the monitoring loop and the API write.  *)
(*                                                                         *)
(* The writers are reduced to what the reads depend on: accept_report, the *)
(* transactions of Pipeline.run_once in their order (collection_runs is    *)
(* finished before the states are evaluated), and the hourly maintenance.  *)
(* A run may be missed, or abandoned between two of its transactions.  One *)
(* unit of time is collection_interval_seconds, and the hour of a bucket   *)
(* of a chart and of the maintenance, which is then due in every run.      *)
(***************************************************************************)
EXTENDS Evaluator, Sequences, FiniteSetsExt

CONSTANTS
    Servers,        \* enabled servers of config.yaml
    Collected,      \* ... those with an SSH collector
    Rank,           \* the order of config.yaml, priority and id: lower first
    Probes,         \* enrolled probes
    KindOf,         \* ... and their kinds
    Freshness,      \* monitoring.freshness_seconds
    Confirmations,  \* monitoring.confirmations
    SilentAfter,    \* silent_after_seconds
    Window,         \* the 24 h (or 7 d) availability is computed over
    Hours,          \* aggregate_hourly: complete hours computed again
    Retention,      \* retention.observations_days
    Aggregates,     \* retention.aggregates_days
    Payloads,       \* bound: what a helper may print: [engine, peers, host]
    Results,        \* bound: results a probe may report
    Networks,       \* bound: what it may say of its own network: [control, route]
    Skew,           \* bound: how far in the future a report may be dated
    MaxTime,        \* bound: the clock
    MaxReports,     \* bound: probe reports
    MaxAborts       \* bound: runs abandoned

NoLoad == -1

\* What the helper tells of the host besides its engine.
HostFindings == {"KERNEL_MODULE_MISMATCH", "DISK_PRESSURE", "DDNS_MISMATCH", "TUNING_LOST"}

ASSUME ReadModelAssumption ==
    /\ Collected \subseteq Servers /\ Rank \in [Servers -> Nat]
    /\ KindOf \in [Probes -> {"pc", "android", "abroad"}]
    /\ {Freshness, SilentAfter, Window, Hours, Retention, Aggregates, Skew, MaxTime, MaxReports,
        MaxAborts} \subseteq Nat
    /\ Freshness <= Retention  \* an hour at most, and a day at least
    /\ Confirmations \in Nat \ {0} /\ Payloads \subseteq [engine : BOOLEAN, peers : Nat, host : SUBSET HostFindings]
    /\ Results \subseteq ObservationResult /\ Networks \subseteq [control : Flag, route : {"yes", "no"}]

VARIABLES
    now,
    step,      \* where run_once is: "idle", "evaluate" or "maintain"
    todo,      \* servers the present run has still to evaluate
    obs,       \* observations, by server
    snap,      \* state_snapshots: [state, observed, until]
    trans,     \* state_transitions: [at, from, to, observed]
    lastRun,   \* newest finished collection_runs row: [at, ok]
    probes,    \* probes: [status, seen]
    hourly,    \* metric_hourly: server -> hour -> [sum, samples]
    reports,   \* reports sent so far
    aborts,    \* runs abandoned so far
    aborted,   \* observer: the last run stopped after its collection
    saw,       \* observer: the state of each server during each past unit
    ignored    \* observer: servers with a transition that was not inserted

vars == <<now, step, todo, obs, snap, trans, lastRun, probes, hourly, reports, aborts, aborted, saw,
          ignored>>

-----------------------------------------------------------------------------
(* The writers *)

NoMetrics == [load |-> NoLoad, attention |-> {}]

Row(source, result, full, control, route, at, metrics) ==
    [source |-> source, result |-> result, full |-> full, control |-> control, route |-> route,
     at |-> at, until |-> at + Freshness, metrics |-> metrics]

SOURCE_OF_PROBE(kind) == IF kind = "android" THEN "mobile" ELSE kind

\* accept_report, late or before the time the report carries; only a PC makes full
\* tests.
AcceptReport(s, p, result, network, at) ==
    /\ reports < MaxReports /\ reports' = reports + 1
    /\ probes[p].status = "active"
    /\ obs' = [obs EXCEPT ![s] = @ \cup {Row(SOURCE_OF_PROBE(KindOf[p]), result, KindOf[p] = "pc",
                                            network.control, network.route, at, NoMetrics)}]
    /\ probes' = [probes EXCEPT ![p].seen = now]
    /\ UNCHANGED <<now, step, todo, snap, trans, lastRun, hourly, aborts, aborted, saw, ignored>>

RevokeProbe(p) ==
    /\ probes[p].status = "active"
    /\ probes' = [probes EXCEPT ![p].status = "revoked"]
    /\ UNCHANGED <<now, step, todo, obs, snap, trans, lastRun, hourly, reports, aborts, aborted, saw,
                   ignored>>

\* call_helper: the payload the helper printed; a timeout, another exit status or
\* output of another shape is a failed call.
HelperAnswers == [ok : {TRUE}, payload : Payloads] \cup {[ok |-> FALSE]}

\* _attention: codes about the host, and one when the engine could not be read.
AttentionOf(payload) == payload.host \cup (IF payload.engine THEN {} ELSE {"ENGINE_UNREADABLE"})

\* metrics_from: the peers are counted only when the engine could be read.
MetricsFrom(payload) ==
    [load |-> IF payload.engine THEN payload.peers ELSE NoLoad, attention |-> AttentionOf(payload)]

\* SshCollector.collect.  (_observed_at takes the helper's own time only within a
\* minute of ours.)
RowsOf(answer, t) ==
    IF ~answer.ok THEN {Row("collector", "failure", FALSE, "none", "none", t, NoMetrics)}
    ELSE LET metrics == MetricsFrom(answer.payload)
         IN  {Row("collector", "success", FALSE, "none", "none", t, metrics)}
             \cup (IF metrics.load > 0 THEN {Row("human_activity", "success", FALSE, "none", "none", t, NoMetrics)}
                   ELSE {})

\* A collector may also raise.
Answers(t) == {RowsOf(answer, t) : answer \in HelperAnswers} \cup {{}}

\* Mutant: a collector that raises does not spoil the run.
CollectAlwaysOk(answer) ==
    /\ step = "idle" /\ lastRun.at # now /\ step' = "evaluate"
    /\ obs' = [s \in Servers |-> IF s \in Collected THEN obs[s] \cup answer[s] ELSE obs[s]]
    /\ lastRun' = [at |-> now, ok |-> TRUE]
    /\ todo' = Servers /\ aborted' = FALSE
    /\ UNCHANGED <<now, snap, trans, probes, hourly, reports, aborts, saw, ignored>>

\* Pipeline.collect: the run is finished when every collector was asked.
Collect(answer) ==
    /\ step = "idle" /\ lastRun.at # now /\ step' = "evaluate"
    /\ obs' = [s \in Servers |-> IF s \in Collected THEN obs[s] \cup answer[s] ELSE obs[s]]
    /\ lastRun' = [at |-> now, ok |-> \A s \in Collected : answer[s] # {}]
    /\ todo' = Servers /\ aborted' = FALSE
    /\ UNCHANGED <<now, snap, trans, probes, hourly, reports, aborts, saw, ignored>>

\* Pipeline.evaluate for one server: the row of a transition whose states and
\* evidence time were seen before is ignored.  The order is that of config.yaml.  (The
\* coverage, which the number of expected sources is for, is not read back.)
Evaluate(s) ==
    LET ev    == EvaluateScope(obs[s], now, 1, Confirmations)
        known == \E r \in trans[s] : <<r.from, r.to, r.observed>> = <<snap[s].state, ev.state, ev.observed>>
        moved == ev.state # snap[s].state
    IN  /\ s \in todo /\ \A t \in todo : Rank[s] <= Rank[t]
        /\ todo' = todo \ {s}
        /\ step' = IF todo' = {} THEN "maintain" ELSE "evaluate"
        /\ snap' = [snap EXCEPT ![s] = [state |-> ev.state, observed |-> ev.observed, until |-> ev.until]]
        /\ trans' = IF moved /\ ~known
                    THEN [trans EXCEPT ![s] = @ \cup {[at |-> now, from |-> snap[s].state,
                                                       to |-> ev.state, observed |-> ev.observed]}]
                    ELSE trans
        /\ ignored' = IF moved /\ known THEN ignored \cup {s} ELSE ignored
        /\ UNCHANGED <<now, obs, lastRun, probes, hourly, reports, aborts, aborted, saw>>

\* A step after the collection raises: run_forever logs it and sleeps.
Abort ==
    /\ step # "idle" /\ aborts < MaxAborts
    /\ aborts' = aborts + 1 /\ step' = "idle" /\ todo' = {} /\ aborted' = (step = "evaluate")
    /\ UNCHANGED <<now, obs, snap, trans, lastRun, probes, hourly, reports, saw, ignored>>

\* aggregate_hourly: the collector's counts of one complete hour.
HourLoad(rows, hour) == {o \in rows : o.source = "collector" /\ o.at = hour /\ o.metrics.load # NoLoad}

HourSum(rows, hour) == MapThenSumSet(LAMBDA o : o.metrics.load, HourLoad(rows, hour))

\* Mutant: hours are computed again as far back as the aggregates are kept.
MaintainFurtherBack ==
    /\ step = "maintain" /\ step' = "idle"
    /\ LET kept(s) == {o \in obs[s] : o.at >= now - Retention}
           redone  == {h \in 0..(now - 1) : h >= now - Aggregates}
           hours(s) == {h \in redone : HourLoad(kept(s), h) # {}}
       IN  /\ obs' = [s \in Servers |-> kept(s)]
           /\ hourly' = [s \in Servers |->
                [h \in hours(s) |-> HourSum(kept(s), h)]]
    /\ UNCHANGED <<now, todo, snap, trans, lastRun, probes, reports, aborts, aborted, saw, ignored>>

\* Pipeline.maintain at the end of a run: the sweep, then the last Hours complete
\* hours are deleted from metric_hourly and computed again from what is left.
Maintain ==
    /\ step = "maintain" /\ step' = "idle"
    /\ LET kept(s) == {o \in obs[s] : o.at >= now - Retention}
           redone  == {h \in 0..(now - 1) : h >= now - Hours}
           old(s)  == {h \in DOMAIN hourly[s] : h >= now - Aggregates /\ h \notin redone}
           hours(s) == old(s) \cup {h \in redone : HourLoad(kept(s), h) # {}}
       IN  /\ obs' = [s \in Servers |-> kept(s)]
           /\ hourly' = [s \in Servers |->
                [h \in hours(s) |-> IF h \in old(s) THEN hourly[s][h]
                                    ELSE HourSum(kept(s), h)]]
    /\ UNCHANGED <<now, todo, snap, trans, lastRun, probes, reports, aborts, aborted, saw, ignored>>

Tick ==
    /\ step = "idle" /\ now < MaxTime /\ now' = now + 1
    /\ saw' = [s \in Servers |-> Append(saw[s], snap[s].state)]
    /\ UNCHANGED <<step, todo, obs, snap, trans, lastRun, probes, hourly, reports, aborts, aborted,
                   ignored>>

Init ==
    /\ now = 0 /\ step = "idle" /\ todo = {} /\ reports = 0 /\ aborts = 0 /\ aborted = FALSE /\ ignored = {}
    /\ obs = [s \in Servers |-> {}] /\ trans = [s \in Servers |-> {}]
    /\ snap = [s \in Servers |-> [state |-> "unknown", observed |-> NoTime, until |-> NoTime]]
    /\ lastRun = [at |-> NoTime, ok |-> FALSE]
    /\ probes = [p \in Probes |-> [status |-> "active", seen |-> NoTime]]
    /\ hourly = [s \in Servers |-> [h \in {} |-> h]]
    /\ saw = [s \in Servers |-> <<>>]

Next ==
    \/ \E s \in Servers, p \in Probes, result \in Results, network \in Networks, at \in 0..(now + Skew) :
          AcceptReport(s, p, result, network, at)
    \/ \E p \in Probes : RevokeProbe(p)
    \/ \E answer \in [Collected -> Answers(now)] : Collect(answer)
    \/ \E s \in Servers : Evaluate(s)
    \/ Abort \/ Maintain \/ Tick

Spec == Init /\ [][Next]_vars

-----------------------------------------------------------------------------
(* _latest_by_source, _evidence, _presence *)

EVIDENCE_SOURCES == {"collector", "human_activity", "pc", "android", "abroad"}

Latest(rows, source) ==
    LET own == {o \in rows : o.source = source}
    IN  {o \in own : \A p \in own : p.at <= o.at}

\* _evidence: the newest row of each source, with its state and whether it is stale.
Evidence(s) ==
    {[source |-> o.source, result |-> o.result, stale |-> o.until < now] :
        o \in UNION {Latest(obs[s], source) : source \in EVIDENCE_SOURCES}}

\* _collector_payload: the metrics of the newest collector row, however old it is.
Payload(s) ==
    LET newest == Latest(obs[s], "collector")
    IN  IF newest = {} THEN NoMetrics ELSE (CHOOSE o \in newest : TRUE).metrics

Load(s) == Payload(s).load

\* admin_probes: what the administrator sees of a probe.
ProbeStatus(p) ==
    IF probes[p].status = "active" /\ (probes[p].seen = NoTime \/ now - probes[p].seen > SilentAfter)
    THEN "stale" ELSE probes[p].status

Reported(kind) ==
    {p \in Probes : KindOf[p] = kind /\ probes[p].status # "revoked" /\ probes[p].seen # NoTime}

\* _presence: a kind of probe members see, active or silent, by its newest report.
Presence(kind) ==
    IF Reported(kind) = {} THEN "absent"
    ELSE IF now - Max({probes[p].seen : p \in Reported(kind)}) <= SilentAfter THEN "active"
    ELSE "silent"

-----------------------------------------------------------------------------
(* _state_times, _timeline, _availability, _points *)

\* _state_times: when the present state began, and the last recovery from trouble.
StateSince(s) == Max({r.at : r \in trans[s]} \cup {NoTime})

LastIncident(s) ==
    Max({r.at : r \in {q \in trans[s] : q.to = "operational" /\ q.from # "unknown"}} \cup {NoTime})

KnownFrom(s, end) == IF obs[s] = {} THEN end ELSE Min({o.at : o \in obs[s]})

\* The state before the first transition of the table, or the present one.
FirstState(s, end) ==
    IF trans[s] # {} THEN (CHOOSE r \in trans[s] : \A q \in trans[s] : r.at <= q.at).from
    ELSE IF snap[s].until < end THEN "unknown" ELSE snap[s].state

\* Mutant: a transition at the start of the window is missed.
StateFromBefore(s, at, end) ==
    LET past == {r \in trans[s] : r.at < at}
    IN  IF past = {} THEN FirstState(s, end)
        ELSE (CHOOSE r \in past : \A q \in past : q.at <= r.at).to

StateFrom(s, at, end) ==
    LET past == {r \in trans[s] : r.at <= at}
    IN  IF past = {} THEN FirstState(s, end)
        ELSE (CHOOSE r \in past : \A q \in past : q.at <= r.at).to

\* _timeline: intervals between the transitions, unknown before the first observation.
Timeline(s, start, end) ==
    LET cuts    == {start} \cup {r.at : r \in {q \in trans[s] : start < q.at /\ q.at < end}}
        next(c) == Min({d \in cuts : d > c} \cup {end})
        known   == KnownFrom(s, end)
    IN  {[from |-> c, until |-> Min({next(c), known}), state |-> "unknown"] : c \in {d \in cuts : d < known}}
        \cup {[from |-> Max({c, known}), until |-> next(c), state |-> StateFrom(s, c, end)] :
                c \in {d \in cuts : known < next(d)}}

\* _availability: [up, known], with operational time counted twice and degraded once.
Availability(s) ==
    LET known == {i \in Timeline(s, now - Window, now) : i.state # "unknown"}
        weight(state) == IF state = "operational" THEN 2 ELSE IF state = "degraded" THEN 1 ELSE 0
    IN  [up    |-> MapThenSumSet(LAMBDA i : weight(i.state) * (i.until - i.from), known),
         known |-> MapThenSumSet(LAMBDA i : i.until - i.from, known)]

\* _points: the state at the end of the bucket [at, at + 1), if anything watched in it.
Point(s, at) ==
    IF \E o \in obs[s] : o.at = at
    THEN (CHOOSE i \in Timeline(s, now - Window, now) : i.from <= at /\ at < i.until).state
    ELSE "unknown"

-----------------------------------------------------------------------------
(* Cards, status and the administrator's overview *)

Stale(s) == snap[s].until < now

\* Mutant: a snapshot is believed however old it is.
CardOfSnapshot(s) == snap[s].state

\* _card: a stale snapshot reads as unknown.
CardState(s) == IF Stale(s) THEN "unknown" ELSE snap[s].state

\* recommend_server over the cards: known loads first, the smallest, then the rank.
\* A server with a load is a candidate only if it is among the complete ones, whose
\* collector counts the connections of every protocol: the input, as Load is their sum.
Recommended(complete) ==
    LET eligible == {s \in Servers : CardState(s) = "operational" /\ (s \in complete \/ Load(s) = NoLoad)}
        before(s, t) == \/ Load(s) # NoLoad /\ Load(t) = NoLoad
                        \/ /\ (Load(s) = NoLoad) = (Load(t) = NoLoad)
                           /\ Load(s) < Load(t) \/ (Load(s) = Load(t) /\ Rank[s] < Rank[t])
    IN  {s \in eligible : \A t \in eligible \ {s} : before(s, t)}

\* status: the worst card, and whether there is a fresh one.
Overall ==
    LET shown == {CardState(s) : s \in Servers}
    IN  IF "unavailable" \in shown THEN "unavailable" ELSE IF "degraded" \in shown THEN "degraded"
        ELSE IF "unknown" \in shown \/ shown = {} THEN "unknown" ELSE "operational"

StatusStale == \A s \in Servers : Stale(s)

\* _detail: a protocol is operational only where its connections were counted.
ProtocolState(s) ==
    IF Load(s) # NoLoad \/ CardState(s) # "operational" THEN CardState(s) ELSE "unknown"

\* The collector check of admin_overview and of readiness.
CollectorOk == lastRun.at # NoTime /\ lastRun.ok /\ now - lastRun.at <= 3

\* admin_overview: the checks its doctor complains of.  (Its check of the queue is
\* over the tables of Pipeline.)
DoctorItems ==
    (IF Servers # {} THEN {} ELSE {"servers"})
    \cup (IF Servers = {} \/ CollectorOk THEN {} ELSE {"collector"})
    \cup (IF Probes = {} \/ \E p \in Probes : ProbeStatus(p) = "stale" THEN {"probes"} ELSE {})

\* ... the codes of its attention items, those of the collectors' payloads included, ...
Attention ==
    (UNION {Payload(s).attention : s \in Servers})
    \cup (IF "collector" \in DoctorItems THEN {"COLLECTOR_STALE"} ELSE {})
    \cup (IF Probes = {} THEN {"PROBES_NOT_ENROLLED"} ELSE {})
    \cup (IF \E p \in Probes : ProbeStatus(p) = "stale" THEN {"PROBE_SILENT"} ELSE {})

\* ... and its verdict.
Doctor ==
    IF Servers = {} \/ lastRun.at = NoTime THEN "fail" ELSE IF DoctorItems # {} THEN "warn" ELSE "ok"

-----------------------------------------------------------------------------
(* Properties *)

\* The state a server had during the unit that began at t, run by run.
Seen(s, t) == IF t < 0 THEN "unknown" ELSE IF t < now THEN saw[s][t + 1] ELSE snap[s].state

\* ... where the table still has evidence.
Saw(s, t) == IF t < KnownFrom(s, now) THEN "unknown" ELSE Seen(s, t)

\* openapi.yaml: state_since is "when the current state began", last_incident_at "when
\* the last non-operational spell ended".  They, and the state the timeline has for any
\* moment, are rebuilt from transitions and agree with what the snapshots were then.
TimelineIsWhatTheLoopSaw ==
    \A s \in Servers \ ignored :
        LET began == {t \in 0..now : Seen(s, t - 1) # Seen(s, t)}
            ended == {t \in began : Seen(s, t - 1) # "unknown" /\ Seen(s, t) = "operational"}
        IN  /\ \A t \in (now - Window)..now : StateFrom(s, t, now) = Seen(s, t)
            /\ StateSince(s) = Max(began \cup {NoTime}) /\ LastIncident(s) = Max(ended \cup {NoTime})

\* ... and the chart has no other state than the one of its time.
ChartIsWhatTheLoopSaw ==
    \A s \in Servers \ ignored : \A t \in (now - Window)..(now - 1) : Point(s, t) \in {Saw(s, t), "unknown"}

\* api.md: availability counts "over the time whose state is known".  Timeline, chart
\* and uptime, rebuilt from transitions for any window, show what the snapshots were
\* at the time, run by run, whatever was missed, abandoned, swept or reported since;
\* only a transition whose key was used before makes the history forget.
HistoryIsWhatTheLoopSaw ==
    /\ TimelineIsWhatTheLoopSaw /\ ChartIsWhatTheLoopSaw
    /\ \A s \in Servers \ ignored :
         LET units(state) == Cardinality({t \in (now - Window)..(now - 1) : Saw(s, t) = state})
         IN  /\ Availability(s).known = Window - units("unknown")
             /\ Availability(s).up = 2 * units("operational") + units("degraded")

\* A server a member is sent to, or reads of as working.
ShownWorking(s) ==
    \/ \E complete \in SUBSET Servers : s \in Recommended(complete)
    \/ Overall = "operational"
    \/ ProtocolState(s) = "operational"

\* concepts.md: recommended is "the server whose work is confirmed".  Of a server that
\* is recommended, whichever loads are complete, or shown as working by its protocol or
\* by the status of the whole, something really worked there lately: no longer ago than
\* the evidence was fresh for the evaluation, and the evaluation, by the newest date it saw, for the card; a report
\* dated ahead of time prolongs that by as much.  A stale status claims nothing.
RecommendedWorkedLately ==
    /\ \A s \in Servers : ShownWorking(s) =>
            \E o \in ValidSuccesses(obs[s]) : o.route # "no" /\ now - o.at <= 2 * Freshness + Skew
    /\ StatusStale => Overall = "unknown"

\* A server that is read over SSH turns unknown only together with a finding: when
\* it was last heard of three intervals and its freshness ago the overview says so,
\* unless the last run stopped after its collection was already recorded as done.  A
\* kind of probe that members see as silent is a finding too, and the doctor is never satisfied then.
SilenceIsNoticed ==
    /\ step = "idle" /\ ~aborted => \A s \in Collected :
         Max({snap[s].until, snap[s].until - Freshness + 3}) < now => "COLLECTOR_STALE" \in Attention /\ Doctor # "ok"
    /\ (\E kind \in {"pc", "android", "abroad"} : Presence(kind) = "silent")
         => "PROBE_SILENT" \in Attention /\ Doctor # "ok"

\* privacy.md: "Raw evidence 7 days, aggregates 90 days": an hour of the connection
\* chart outlives the raw rows it came from; maintenance, which computes the last
\* hours again from what the sweep left, never empties one.
AggregateOutlivesEvidence ==
    [][\A s \in Servers : \A h \in DOMAIN hourly[s] :
         h >= now' - Aggregates => h \in DOMAIN hourly'[s]]_vars

\* read_model.py: EVIDENCE_SOURCES is "every kind of evidence a server can have; the
\* read model looks up the newest of each": whatever reported is on the card.
\* (No run checks it: with an android probe it fails, see the README.)
EveryEvidenceIsShown ==
    \A s \in Servers : \A o \in obs[s] : \E e \in Evidence(s) : e.source = o.source
=============================================================================
