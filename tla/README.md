# VPN Pulse: a TLA+ development

VPN Pulse watches a handful of VPN servers and tells a Telegram group and its
administrator how they are. Evidence comes from small probes (a computer, a
phone, another server), from a collector that reads the servers over SSH, and
from the handshakes of real members. A loop turns fresh evidence into a state
per server (`operational`, `degraded`, `unavailable`, `unknown`), stores
transitions, and sends messages. This directory models the parts of that
program whose correctness depends on order, failure and time, checks them with
TLC on small instances, and proves the central invariants with TLAPS for every
value of the constants.

## 1. The system

| Part | Code | State it keeps | Operations | Hard behaviour |
|---|---|---|---|---|
| Evaluator | `domain/evaluator.py`, `domain/models.py` | none | `evaluate_scope`, `recommend_server` | fresh rows expire one by one, reports come late; a few rows decide |
| Monitoring loop | `pipeline.py` | the tables; the run in progress | `collect`, `evaluate`, `_write_event`, `notify`, `maintain`, `run_forever` | each step is its own transaction; a run may die between any two |
| State repository | `storage/repository.py` | `state_snapshots`, `state_transitions`, `notification_queue` | `save_evaluation`, `notification_for` | what to announce depends on what was announced and what waits |
| Notification worker | `storage/repository.py` | `notification_queue` | `deliver_pending`, `_deliver` | sends fail, or succeed without an answer; retries, holds and supersedes interact |
| Store | `storage/store.py` | enrollments, probes, reports, observations, sessions, notes | `create_enrollment`, `consume_enrollment`, `register_probe`, `revoke_probe`, `accept_report`, `sweep`, ... | handlers run in threads; a read and a later write are separate steps |
| API | `api/app.py`, `api/security.py`, `analytics.py` | sessions, rate limits, product events, notes | HTTP routes | handlers in threads over one connection; resent requests; a batch that is refused half-way |
| Database | `storage/database.py`, `migrations/` | one SQLite file and its log | `SerializedConnection`, `apply_migrations` | scripts that commit on their own; several processes that migrate side by side |
| Read model | `storage/read_model.py` | none | status, timeline, availability, overview, recommendation | rebuilds a history from transitions of which some were ignored and evidence of which some was swept |
| Collectors | `collectors/` | none | SSH helper call, metrics | failures of one server must not stop the others |
| Membership, bot | `auth.py`, `telegram.py`, `bot.py` | membership cache, update offset | `role_for`, polling | cached answers outlive their truth |
| Watchdog | `deploy/watchdog/vpn-pulse-watchdog` | `state.json` | `tick`, once a minute, on another host | kills, and sends whose answer is lost |
| Cross-server probe | `deploy/probe-abroad/vpn-pulse-probe-abroad` | `queue.jsonl` | `tick`, once a minute | requests lost before and after the API stored them |
| Installer | `install.sh` | release directories, link, snapshots | install, upgrade, rollback, uninstall | interruption between switch and restart |
| Command line, backup | `cli/` | `config.yaml`, secrets, archives | init, server, collector, doctor, note, probe, backup, restore | files overwritten in place, one after the other |
| Web client, texts, configuration | `web/`, `notify.py`, `config.py` | none | formatting, validation | little |

How they interact: probes and the API share the report table; the API process
and the loop are two processes over one SQLite file (`observations`, `probes`,
`probe_enrollments`, `probe_reports`); the loop alone writes snapshots,
transitions, events and the queue; the worker is called by the loop at the end
of every run; the read model reads all of these at request time; the command
line opens the same file from a third process; the watchdog sees only the API's
readiness route.

What makes them correct, in short:

* the state never says more than the fresh evidence does, and an outage is
  confirmed before it is called one;
* tables that describe one transition agree with each other after any crash;
* what a person is told is true when it is said, is said once, and is followed
  by its end;
* nothing waits for ever, whatever the messenger does;
* a report is counted once, however often it is sent;
* a code, a token or a queue entry is used as its document says;
* what is shown later is what the loop saw then, and nothing is recommended that
  did not work lately;
* only members get in, and the tables change by whole operations;
* an interrupted command leaves an installation that is whole, or one the doctor
  complains of.

The hazards, each at its line, are listed in `PROJECT.json`.

## 2. The modules

| Module | Models | Checked by | Proved in |
|---|---|---|---|
| `Evaluator` | `evaluate_scope` as pure operators | through `Evidence`, `Monitor` | `EvidenceProofs` |
| `Pipeline` | the loop, repository and worker over an arbitrary evaluation | `MCPipeline` | `PipelineProofs` |
| `Monitor` | `Pipeline` fed by a real evidence table | `MCMonitor` | `PipelineProofs` |
| `Evidence` | reports to observations, collector rows, sweep, evaluation at any moment | `MCEvidence` | `EvidenceProofs` |
| `ReadModel` | `SqliteReadModel` over what the loop, the collectors and the maintenance write | `MCReadModel` | `ReadModelProofs` |
| `ProbeApi` | enrollment, tokens, revocation, reports and sweep with concurrent handlers and the commands | `MCProbeApi` | `ReportProofs` |
| `Tables` | abstract: sessions, notes, audit and events change by whole operations | through `Access` | `AccessProofs` |
| `Access` | logins, membership cache, rate limiter, sessions, notes, batches over the shared connection; implements `Tables` | `MCAccess` | `AccessProofs` |
| `Setup` | configuration, secrets, database and its log; init, server, collector, backup, restore, doctor, migrations, start of the services | `MCSetup` | `SetupProofs` |
| `Releases` | install, upgrade, rollback and uninstall over releases, services and database | `MCReleases` | `ReleasesProofs` |
| `ProbeAbroad` | the cross-server probe's queue against the report table | `MCProbeAbroad` | `ReportProofs` |
| `Watchdog` | the watchdog's tick and state file | `MCWatchdog` | `WatchdogProofs` |

`Access` is shown to implement the more abstract `Tables`, by TLC and by proof.
`Monitor` takes its steps from `Pipeline` and replaces the arbitrary evaluation by
the real one; the lemma `MonitorImplementsPipeline` carries the safety results of
`Pipeline` over to it.

### Pipeline
One variable per table (`snapshot`, `trans`, `events`, `queue`), one per piece
of memory of a run (`pc`, `todo`, `current`, `batch`, `newest`, `ok`). One
action is one transaction or one external call:
`StartRun`, `SaveEvaluation`, `WriteEvent`, `SelectDue`, `Collapse` (one round
of the loop in `deliver_pending`), `CancelRecovery` (the second transaction of
a cancelled pair), `Send`, `Record`, `FinishRun`. `Crash` stands for the death
of the process and for an exception that ends a run: `run_forever` treats both
alike, everything in memory is gone and the tables stay. A send is `ok`,
`lost`, or `late`: it reached the chat although the caller saw a failure. The
ids of transitions and queue rows are hashes of scope, states and evidence
time, so the tables are keyed by that tuple and `INSERT OR IGNORE` is literal.
`told` and `heard` observe what really arrived. The evaluation itself is an
input: any state, with its newest evidence at most `Lag` old and at most `Ahead`
in the future (the clock of a device may be ahead, and `accept_report` does not
ask). The run has `Ahead = 0`; the theorems hold for every value, and the run
`monitor` has reports dated ahead.

The texts of the messages, severities and the JSON columns are left out:
nothing reads them back in these steps. Time advances one unit per run.

### Monitor
Adds the evidence table `obs`. Reports arrive at any moment between the steps
of a run (`AcceptReport`, another process), up to `Delay` late and up to `Skew`
ahead of the loop's clock; collectors write at the start of a run
(`CollectAndStart`), and `EvaluateServer` is `SaveEvaluation` of
`EvaluateScope`. Rows that can no longer be fresh are forgotten: every reader
filters them out. The number of expected sources, which only the coverage of an
evaluation depends on, is an arbitrary input here: the loop acts on the state and
on `observed_at` alone.

### Evidence
The same rows for one server, with everything `accept_report` does to a
payload: not-run checks left out, one failed check fails the target, what makes
a full test, the probe's own Internet, the verified route. Reports may be dated
in the past (a queue on the device) and in the future (a clock that is ahead):
`accept_report` checks neither. As in `_expected_sources`, the sources expected of
an evaluation are the kinds seen within the last `Day`, over whatever route.

### ReadModel
The operators translate the queries: evidence and presence, `_state_times`,
`_timeline`, `_availability`, `_points`, the card, `recommend_server`, the
overall status, the checks and attention items of `admin_overview`. They are
evaluated in every state of a small writer: probe reports (late, up to `Skew`
ahead, and over the networks of `Networks`, misrouted ones among them), the
collectors' answers as `SshCollector.collect` turns them into rows and metrics, the
transactions of a run in their order (the collection is recorded as finished
before anything is evaluated), a run that is missed or abandoned, the sweep and
the hourly aggregates. `saw` observes which state each server had in each unit
of time, and `ignored` the servers of which a transition was not inserted.
A collector's count of connections is one number, not one per protocol; which
servers have a complete count is therefore an input of `Recommended`, and what is
checked of a recommendation holds for each.

### ProbeApi
FastAPI runs handlers in worker threads over one connection.
`SerializedConnection` holds a lock for a statement, and for a whole `with db:`
block; everything between two such units may interleave. `ReadCode`,
`ConsumeCode` and `RegisterProbe` are the three units of an enrollment,
`RequireProbe` and `AcceptReport` the two of a report. Codes come from the
administrator's route and from `vpn-pulse probe enroll`, revocations from both
as well.

### Access and Tables
A login passes the limiter, then the cache or a question to Telegram, then
creates a session. Telegram looks at its group at some moment while the thread
waits, the answer is remembered with the time of the question, and the call may
fail. Telegram may also refuse to say (an error status, `ok: false`); the code
counts that as no member, whoever was asked about. The connection has an owner (the lock), a `draft` (what the connection
sees) and `db` (what is committed): `Execute`, `Commit` and `Rollback` are a
statement inside a transaction, its `__exit__`, and its `__exit__` after an
exception. `put_note` and `accept_batch` take several statements; `Tables` has
one step for each. The signature of the init data is an input, valid or not.

### Setup
The files are records with the parts that later steps read. `write_config_atomic`
is one step; `write_secret_file` and `shutil.copy2` truncate and write in two,
and `Interrupt` may fall between them. The services have a connection each: what
they write goes to the log, the last clean close moves it into the file, a kill
leaves it. Migrations are applied statement by statement, by any process that
opens the database. `DoctorResult` is evaluated in every state.

### ProbeAbroad and Watchdog
One process per timer tick. Loading, each request and each write of the file
are separate steps, so `Crash` may fall between any two. `save_queue` truncates
the file and then writes it (two steps); the watchdog's `save_state` replaces
it (one step). The result of the tunnel check is an input.

### Releases
`install.sh` as a sequence of steps: build a directory, back up, stop the loop,
migrate, switch the link, restart, ask the doctor, go back or prune. Builds,
backups and doctors may fail, and a restarted unit may not become active: the
script says so and goes on. A backup that fails or is cut short may leave a half-written
snapshot (`CutShort`), which counts among those kept. `Interrupt` kills the script
between two steps and `Reboot` also restarts the services from the link. What a
service runs is the release the link named when it was started. The database is
its newest migration; opening it with a release's code, as the services and the
doctor do, applies that release's migrations. systemd's own later attempts to
start a failed unit are left out: they start what the link names. The questions of `configure`, Caddy, the demo and `--dry-run` are left out.

## 3. Runs

| Run | Expectation | Bounds | States |
|---|---|---|---|
| `pipeline` | holds | one server, 5 runs, 2 attempts, hold 1, flap limit 2, every outcome of a send, 1 crash | 960 thousand |
| `monitor` | holds | one server, 4 runs, freshness 1, 2 confirmations, reports one unit late or ahead, failing sends, 1 crash | 7.6 million |
| `evidence` | holds | 4 rows, 8 payloads of 2 probes, clock 3, one unit late or early | 575 thousand |
| `readmodel` | holds | 2 servers, one with a collector, 1 PC probe, clock 3, window 2, 1 report (of any past time or one unit ahead, routed well or not), 1 abandoned run | 1.6 million |
| `probe_api` | holds | 2 threads, 1 code, 1 report id with 2 bodies, reports of any past time or one unit ahead, clock 4, sweep | 200 thousand |
| `access` | holds | 2 threads, a user and an administrator, 3 requests, 1 join or leave, 1 restart, clock 4, a good and a bad batch | 2.0 million |
| `setup` | holds | 1 server, 2 migrations of 2 statements, 1 archive kept, 3 commands, 2 interruptions or kills, 1 write | 2.0 million |
| `releases` | holds | 4 releases of 3 commits, 2 directories and 1 snapshot kept, failing units, 1 interruption or reboot | 7.9 million |
| `watchdog` | holds | 9 ticks, alarm at 3 failures, every outcome of a send, 2 kills | 32 thousand |
| `probe_abroad` | holds | 7 rounds, queue of 2, kept 3, 2 kills | 31 thousand |
| `enrollment_race` | violated | 2 threads, 1 code | |
| `restore_log` | violated | 1 server, 2 commands, 1 kill | |

Why the bounds are enough. Five runs let a server go through the longest story
the repository's rules speak of (a problem, a second problem while the first
notice waits, an end, a relapse that the flap rule releases) and let a message
use up its attempts. Two attempts are the smallest number with a retry and a
last try. Four rows hold two confirmations, a contradicting success and a late
arrival. In `readmodel` the clock outlasts the retention and the window, so rows
are swept and transitions leave the window; with two servers one can be
recommended instead of the other, and the one without a collector lives on its
probe. In `access` three requests are two logins with a batch or a note between
them, four units outlast the cache and the session, and there are more keys than
buckets. Three commands of `setup` are a server, its key and its pin, or a
change, a backup and a restore, and the database starts one migration behind. In
`probe_abroad` more reports are made than fit, and more time passes than a
report is kept, so both ways of trimming happen. In `releases` more directories
and snapshots are made than are kept. The actual limits (20 attempts, 1500
entries, six hours) are the same rules with larger numbers; the proofs cover
every value. `access` uses the symmetry of the worker threads, which no
definition tells apart.

What each passing run shows:

* `pipeline`: `WaitingNoticeIsCurrent`, `OpenTransitionIsCurrent` and
  `BatchIsPending` relate tables and memory that different transactions write;
  `SettledRowsStay`, `AdminHearsTheTruth`, `HoldIsKept`, `GroupHearsInPairs` and
  `ResendsOnlyUnrecorded` are promises to the people who read the messages;
  `EveryMessageSettles` bounds retries; `EventsLostOnlyByCrashes` says how much
  a crash between a transition and its event can cost: one event per crash.
* `monitor`: `GroupBelievesTheState`: while nothing went wrong, between two runs
  the group's last message agrees with the transition that is open.
  `EvidenceNeverGoesBack`: however late, early or out of order reports arrive and
  whichever expire in between, a change of a server rests on evidence no older
  than that of any change recorded before it. So the times of the timeline never
  step back, and a change is lost to a repeated key only while nothing newer was
  observed.
* `evidence`: an outage is confirmed by one source with working Internet of its
  own (`OutageIsConfirmed`); a handshake from another country cannot end one
  (`AbroadNeverHidesOutage`); a misrouted report moves neither the state nor its
  dates, and can only lower the coverage (`MisroutedMovesNoState`); the sweep
  changes nothing (`SweepKeepsTheState`); when only time passes, an operational
  server becomes unknown at worst, an unknown one stays so, and no failure is
  confirmed that was not before (`SilenceIsNotFailure`). A degraded server may
  become unavailable then: the success that contradicted a confirmed failure has
  expired.
* `readmodel`: uptime, chart and the times on the card agree with what the
  snapshots were, run by run, as long as no transition was ignored
  (`HistoryIsWhatTheLoopSaw`, whose parts are the timeline, the chart and the
  availability); what is recommended or shown as working did work
  over a verified route within twice the freshness, plus `Skew` where the report
  was dated ahead (`RecommendedWorkedLately`); silence of a collector
  or of a probe is a finding (`SilenceIsNoticed`); the sweep never takes an hour
  out of the chart (`AggregateOutlivesEvidence`).
* `probe_abroad`, `probe_api`: resent, reordered, forgotten and racing reports
  count once, and a report that comes back after the sweep is not fresh. While no
  process was killed, a report leaves the cross-server probe only when the API has it, when it is
  too old, or when a full queue of younger ones waits behind it
  (`NothingVanishes`).
* `access`: a session of someone who left the group ends within the life of the
  cache, the login and the session (`OnlyMembersGetIn`); the limiter passes no
  burst larger than its bucket (`BurstIsBounded`); the refinement
  (`TablesChangeWhole`).
* `setup`: whoever migrates, side by side with whom, a service is up only on a
  whole schema (`ServesWholeSchema`); an interrupted restore loses nothing
  (`NothingIsLost`), a complete one brings back what the backup saw
  (`CleanRestoreIsTheArchive`), interrupted backups always leave a whole archive
  (`AnArchiveRemains`); if the doctor is satisfied with an installation, the API
  starts, and the loop starts except in two cases the doctor does not look for:
  the configured map is missing, or it is torn and no server is configured
  (`DoctorForesees` with `DoctorOverlooks`).
* `releases`: the link never loses its target (`CurrentIsInstalled`); a command
  that was not interrupted leaves no service on another release than the one the
  link names, and both on it unless a unit did not become active
  (`RunsTheCurrent`); the code an upgrade brings in migrates only a database of
  which there is a snapshot (`MigrationIsBackedUp`).
* `watchdog`: the file never forgets an outage, a long outage is announced, and
  recoveries follow alerts, as far as the messenger can be believed.

Fairness. `EveryMessageSettles` is checked under weak fairness of `StartRun`
and of `Step`: `run_forever` sleeps for the interval and starts the next run,
whatever happened to the last, and within a run each step is followed by the
next. Nothing is assumed of the messenger (sends may fail for ever) and nothing
of the crashes. The property speaks of messages created early enough before the
bound `MaxTime` to use up their hold and their back-offs. All other properties
are safety and need no fairness.

The configurations of `ProbeApi`, `Evidence`, `ReadModel`, `Access`, `Setup` and
`Releases` switch deadlock checking off: with all codes issued, the table full,
all requests or commands made and the clock at its bound, nothing is left to do.
The other models stop only in a named last step.

Every property of a passing run has a mutant in `PROJECT.json`: a definition
(marked `Mutant` in the module) that changes the code's rule the way a
plausible slip would, and under which TLC finds the property violated.

## 4. Proofs

All proofs are checked by tlapm 1.4.5 with Z3, Zenon and LS4. They hold for any
sets of servers, threads, users and probes, any limits, any messenger and any
number of crashes, under the assumptions the modules name:

| Assumption | Says, besides types |
|---|---|
| `PipelineAssumption` | at least one attempt |
| `MonitorAssumption` | `Freshness <= Lag` and `Skew <= Ahead`: the arbitrary evaluation of `Pipeline` allows evidence as old and as early as the real one |
| `EvidenceAssumption` | freshness (at most an hour) is shorter than a day, and the retention is at least a day |
| `ApiAssumption` | freshness is shorter than the retention |
| `ReadModelAssumption` | freshness is no longer than the retention, and collected servers are servers |
| `WatchdogAssumption`, `ReleasesAssumption`, `ProbeAssumption` | limits and numbers kept are positive |
| `AccessAssumption` | no thread is `None`, no batch is empty |
| `SetupAssumption` | a torn or absent file is no database; three processes |

The invariants the runs check are seldom inductive. For each, the strengthening
says what the step in progress has already done.

`PipelineProofs` (`Pipeline` and `Monitor`)

* `TypeCorrect` and `BatchStaysPending`. `TypeOK` is not inductive alone: that
  `Record` and `Collapse` write rows that exist needs `BatchIsPending`, and the
  latter needs the types. `TypeInv == TypeOK /\ BatchIsPending` is inductive;
  there is one lemma per action.
* `SettledRows`, `WaitingNotice`, `OpenTransition`. Every step is either a
  transition (described by `EnqueueEffect`: what waited is superseded, at most
  one row is new) or leaves snapshots and transitions alone and at most settles
  pending rows (`QueueOnlySettles`). With this split each invariant needs two
  cases.
* `AdminTruth`: what is sent is pending (`BatchIsPending`), what is pending for
  the administrator leads to the present state (`WaitingNoticeIsCurrent`), and a
  row's template is that of the state it leads to (`TemplateMatches`).
* `YieldsToOwn`: a message is superseded only by news about its own server, for
  any number of servers. A run with two servers is large and shows no more, so
  the theorem stands alone.
* `HoldKept`, from `HoldInv`: a pending quiet notice is due no earlier than its
  hold unless as many notices of its scope were dropped before it as the flap
  rule asks for. Dropped rows stay dropped (`SettledRows`), so the exemption
  does not disappear.
* `NoNeedlessResend`, from `HeardInv`: without a crash, what was heard and is
  pending has used an attempt or is just being recorded.
* `EventsAreKept`, from `EventsInv`: transitions without an event number at most
  the crashes, not counting the one `WriteEvent` is about; a cardinality argument.
* `GroupHearsPairs`, from `GroupInv`: while every send was answered, nothing of
  the group's is in a back-off, so the pending row of a scope is the answer to
  what the group was told last. `GroupBelieves` adds `BeliefInv`: the open
  transition agrees with what the group was told together with what waits.
* `MonitorSafety`: the safety results hold of the loop over real evidence. The
  lemma `MonitorImplementsPipeline` says why: an evaluation of fresh rows is one of
  `Evaluations` (`EvaluationAllowed`, from `MonitorTypeOK`), and `Monitor`'s other
  steps are `Pipeline`'s or leave its variables alone.
* `TimelineFollowsEvidence` (`EvidenceNeverGoesBack`), from `VouchedInv`: the row a
  recorded change was dated by is still stored or can no longer be fresh. An
  evaluation is dated by the newest fresh row, so it cannot be dated before a row
  that is stored, and not before one that has expired either.

`EvidenceProofs`

* `EvidenceTyped`; `MisroutedIsNoEvidence` (the fresh, well-routed rows are the
  same before and after, and the expected sources only grow); `SweepIsSafe` (so
  are the rows of the last day, and with them the coverage); `AbroadCannotHide` (a row that is not a full test
  changes no tail of full tests and adds no strong success, for any history and
  any number of confirmations).
* `OutageNeedsConfirmation` and `SilenceConfirmsNothing`, from `EvidenceInv` (the
  types and that the table is finite, so that there are newest rows): the tail of
  the last full tests is of the size `confirmations` asks for, and rows that
  expire leave the tail of the rest or none.

`WatchdogProofs`: `WatchdogInv` has three parts. `CoverInv` says the same of the
two states a tick may save as `FileCoversTheOutage` of the file, and that the
file still lags by at most this tick and the killed ones; `AlertInv` that a state
with `alerted` set belongs to an alert that was heard; `RaisedInv` that the limit
has raised it. `FileCovers`, `OutageAnnounced` and `RecoveryAfterAlert` follow.

`ReleasesProofs`: `ReleasesInv` says, step by step of the script, which
directories exist and what the link, the old and the new release are
(`ScriptInv`), what the services run while nothing was interrupted (`RunInv`: the
release the link names or, where a unit did not come up, nothing), and that the
schema before the upgrade has a snapshot among those kept (`BackupInv`: the newest
one is never pruned, and `CutShortKeeps`: a half-written one comes after it). From it `LinkHasTarget`,
`ServicesRunTheCurrent`, `UpgradeIsBackedUp`.

`ReportProofs` (`ProbeApi` and `ProbeAbroad`)

* `Idempotent` and, with `Freshness < Retention`, `ResentIsStale`: `ReportInv`
  adds to `OneObservationPerReport` that an observation that was ever stored is
  still there or older than the retention (`SweptIsOld`).
* `ReportsInOrder` and `ReportsAreKept`, from `QueueInv`, for any queue size, age
  limit and number of kills. That the rows wait in order is not enough: a killed
  process leaves a file whose rows were partly sent, and the next one may have
  dropped rows for their age. `OrderInv` says that the API has a row that may
  still be sent or has nothing younger than it, unless the row has expired and
  will never be loaded again; a row that was trimmed gave way to younger ones
  (the file is sorted by age, and the trimming keeps its end); to keep this for the file while memory is being
  sent, `MemoryInv` says that until the file is rewritten its rows are in memory,
  with the API, or expired. The loop of `load_queue` (`LoadsKeeps`) and the
  trimming (`LastNIs`) are lemmas.

`AccessProofs`

* `ImplementsTables`: `ConnectionInv` says that `draft = db` while nobody owns the
  connection, and what the owner's thread has done to `draft` since it opened its
  transaction. A statement maps to a stutter, a commit to the whole operation.
* `MembersOnly`, from `MembersInv`: a cached answer, a login in progress and a
  session each carry a time at which their user was a member, no older than the
  lives of the steps before it; a login while Telegram does not answer rests on
  the last answer it gave, of any age.
* `BurstsAreBounded`, from `LimiterInv`: a bucket's tokens and the requests passed
  since any earlier one add up to no more than the limit and the refill between.

`SetupProofs`: `SetupInv` has five parts: what a process has seen of the schema
(`DataInv`: a migration is recorded only after its last statement), the files
(`FilesInv`), what each command holds in its arguments at each of its steps
(`CommandInv`), which files a restore has replaced and which copy has the old
content (`RestoreInv`), and that this stays so after it (`KeptInv`). From it
`WholeSchema`, `RestoreLosesNothing`, `CleanRestoreIsExact`, `ArchiveRemains` and
`DoctorIsRight`, an equivalence: with a satisfied doctor the loop starts if and
only if `DoctorOverlooks` is false.

`ReadModelProofs`

* `ShownWorkedLately`, `SilenceIsAFinding`, `ChartKeepsItsHours`, from `ReadInv`:
  an operational snapshot rests on a well-routed success, dated at most `Skew`
  ahead, whose row the sweep has not taken (`WorkedInv`; here `Freshness <= Retention` is needed), a run that was recorded
  as ok renewed every collected snapshot (`RenewedInv`), and an hour within the
  retention has its rows (`HoursInv`). The last theorem holds where
  `Hours <= Retention`; section 5 says what happens otherwise.
* `TimelineIsTrue` and `ChartIsTrue`, from `HistoryInv`: as long as no transition
  of a server was ignored, the table has one exactly where the observed history
  changes, with the states on both sides. Between two of them the history is
  constant (`StaysBetween`), so the state of an interval is that of each of its
  moments.
* `HistoryIsTrue`: with the availability, all of `HistoryIsWhatTheLoopSaw`. The
  known intervals are finitely many, pairwise disjoint, and together are the
  moments of the window whose state is known (`KnownFinite`, `KnownApart`,
  `KnownCovers`); a sum of lengths over disjoint intervals counts the moments of
  their union (`SumCounts`), so the known time and the time up are the numbers of
  moments the loop saw (`KnownTime`, `UpTime`).

Two results are inductions over data: the sum over a set, and the loop of
`load_queue`. The induction theorems of the library take an operator, which no
prover here can instantiate; `AllNaturals` says the same of a set of naturals,
from the existence of a minimum (`WFMin`), and is what both use. A fold or a
recursive function is first shown to exist (`SumExists`, `LoadsExists`), as its
definition is a CHOOSE.

Only model-checked: `EveryMessageSettles`, a liveness property under fairness,
which is out of the prover's reach (as are ENABLED and RECURSIVE operators, which
the modules do not use). Every other property of a passing run is a theorem.

## 5. Disagreements between the code and what is said of it

Two have a run in which TLC finds the violation.

* `enrollment_race`: a code is read in one step and marked used in another whose
  UPDATE does not ask whether it is still unused.
* `restore_log`: the in-place restore replaces the database file and leaves an
  old `-wal` beside it. After a service was killed, its log is applied to the
  restored file, and the command says that the archive was restored. (The `.bak`
  copy lacks the log for the same reason.)

Four more are stated as definitions that no run checks; adding one to the
configuration of its module shows it violated.

* `LastTransitionIsOpen` (`Monitor`): a transition into
  `unknown` without evidence has a key without a time. The second fall from the
  same state has the same key, is ignored, and the server is left with no open
  transition; its event and its notice are lost too. `HistoryIsWhatTheLoopSaw`
  leaves such servers out for this reason. The same key rule swallows a second
  outage on the same newest evidence (down, up and down again while nothing newer
  arrived): the group is not told of it, and `GroupBelievesTheState` therefore
  speaks of the open transition and not of the snapshot.
* `GroupHearsNewestLast` (`Pipeline`; with `MAX_ATTEMPTS = 4`): the worker
  collapses only rows that are due. An outage message in a long back-off (from
  the third attempt on it exceeds the interval of the loop) is sent after the
  recovery that should have replaced it.
* `PreviousIsKept` (`Releases`; with `Sources = {1, 2}`, `KEEP_RELEASES = 3`):
  `prune_releases` keeps the newest directories by name, and a failed build or a
  rejected upgrade leaves one newer than the release in use. After two of them
  the next successful upgrade removes the release it came from, while it says
  that it is kept for rollback.
* `EveryEvidenceIsShown` (`ReadModel`; with `Probes = {p2}`, an android probe):
  `EVIDENCE_SOURCES` looks up `android`, and the rows of such a probe say
  `mobile`.

Met while modelling and proving, and kept as guards of the properties or as notes:

* the group hears outage and recovery in turn only as long as every send is
  answered at the first try; a message in its back-off, or one that arrived without
  an answer, breaks the turn (the guard `Reliable`);
* a crash between a send and its record sends the message again, while
  `docs/architecture.md` says that a restart resends nothing
  (`ResendsOnlyUnrecorded` states what does hold); a crash between a transition
  and its event loses the event (`EventsLostOnlyByCrashes`); a pair whose outage
  was heard but not recorded is cancelled as unheard;
* a degraded notice that was sent, followed by an unknown notice that still
  waits, ends in silence: `waiting` asks for any pending notice;
* one fresh success makes a server operational, `docs/concepts.md` speaks of two;
* a full test that did not run, or one without Internet, interrupts the series
  of failures that confirms an outage, because the last `confirmations` full
  tests must all be valid failures;
* the state between two runs counts as the one the last run stored: time in
  which the loop did not run at all is uptime if the server was up before it;
* `collection_runs` is finished as ok before the states are evaluated, so a run
  that fails after it looks healthy (`SilenceIsNoticed` leaves it out);
* with `retention.observations_days` of 1 the sweep removes rows of the last 25
  hours, which are then computed again without them; `AggregateOutlivesEvidence`
  holds where the retention covers the hours computed again;
* a recommendation uses the newest payload of a collector, however old;
* the collectors' map is truncated and written, while the first lines of
  `cli/common.py` say that files are written atomically; and a missing map is no
  finding of the doctor, nor is a torn one without servers, though
  `vpn-pulse run` refuses both; a missing host key is a warning of the doctor
  and a refusal of `run`;
* a database file that was truncated by an interrupted restore is opened as a new
  one by the next process;
* the administrator's route asks for no via server, so a code for an abroad probe
  made there is used up and refused;
* the audit entry of a note is a transaction of its own, after the note's;
* without an administrator's chat its notices go to the group;
* a probe revoked after its token was checked still stores the report in flight;
* the watchdog repeats a recovery message whose answer was lost;
* the cross-server probe asks the API for its targets first, so a round in which
  the API is unreachable makes no report, while `docs/probes/abroad.md` speaks of
  reports that wait;
* `rollback` goes to the newest other directory, which after a failed build or a
  rejected upgrade is not the release that ran before but the failed one; and
  after an interruption between switch and restart a repeated `upgrade` says
  "already up to date" and leaves the monitoring loop stopped;
* reports dated in the future stay fresh longer than `freshness_seconds`, and a
  card may show a success for as much longer (`Skew` in `RecommendedWorkedLately`);
* `_expected_sources` counts every kind of source of the last 24 hours, so a
  single misrouted report of a new kind lowers the coverage of a server for a day;
* a unit that does not become active after an upgrade is reported by the script,
  which goes on to the doctor all the same and may end with "upgraded";
* the SQL filter of `_observations` compares texts that end in `Z` or `+00:00`;
  it selects a superset that Python then filters exactly, so the model has only
  the exact filter.

## 6. Not modelled, and the plan

Left out for good:

* the bot: one number in memory and an answer to `/start`;
* message texts and rendering (`notify.py`, `web/`), parsing of configuration
  and arguments, logging: formatting, or validation of one file whose ranges are
  the modules' assumptions;
* of the read model, `events()` with its pages, the note that is shown, and the
  diagnostics: they copy rows into an answer;
* of the collectors, traffic rates and software versions: data no decision reads;
* in `Setup`, disabled servers and the permissions of the key files (a collector
  test of a disabled server ends in `StopIteration`, `cli/collector.py`); the copy
  of `run.env`, which no modelled step reads; removing and copying a directory of
  secrets are one step each;
* in `Releases`, the attempts of systemd to start a failed unit again;
* the shell commands of the tunnel check, of the SSH helper, of Caddy and of the
  questions of `configure`: their results are inputs;
* development fixtures (`dev/`) and the screenshots' script.

Nothing the passing runs check is left to prove but `EveryMessageSettles`, which
stays with TLC. What would extend the development: a bound on future-dated
reports, once `accept_report` has one; a run for each of the four definitions of
section 5 that no run checks; the events page of the read model.
