------------------------------ MODULE Pipeline -------------------------------
(***************************************************************************)
(* One monitoring loop over one database: Pipeline.run_once with its       *)
(* StateRepository and NotificationWorker (src/vpnpulse/pipeline.py and    *)
(* src/vpnpulse/storage/repository.py).  Every transaction of the code is  *)
(* one action, so a crash or an aborted run may fall between any two.      *)
(*                                                                         *)
(* What evaluate_scope returns is an input here: any evaluation whose      *)
(* evidence is at most Lag old and at most Ahead early.  Monitor.tla feeds *)
(* the same actions with the evaluation of a real evidence table.          *)
(*                                                                         *)
(* Rows of state_transitions and notification_queue are identified by      *)
(* uuid5 of the same text (scope:previous:current:observed_at), so both    *)
(* tables, and events, are keyed by that tuple: INSERT OR IGNORE on an     *)
(* existing key does nothing.                                              *)
(***************************************************************************)
EXTENDS Evaluator

CONSTANTS
    Scopes,             \* the monitored servers ("server:<id>")
    MAX_ATTEMPTS,       \* sends of one message before it is given up
    Backoff,            \* NotificationWorker.backoff, in time units
    Quiet,              \* quiet_seconds: how long an admin notice is held
    FLAP_NOTICE_AFTER,  \* dropped notices that end the hold
    FlapWindow,         \* ... counted over this long (one hour)
    Outcomes,           \* what the messenger may do with a send
    Lag,                \* bound: how old the newest fresh evidence may be
    Ahead,              \* bound: how far in the future it may be dated
    MaxTime,            \* bound: number of runs
    MaxCrashes          \* bound: crashes and aborted runs

ASSUME PipelineAssumption ==
    /\ MAX_ATTEMPTS \in Nat \ {0}
    /\ {Backoff, Quiet, FLAP_NOTICE_AFTER, FlapWindow, Lag, Ahead, MaxTime, MaxCrashes}
         \subseteq Nat
    /\ Outcomes \subseteq {"ok", "lost", "late"}

VARIABLES
    now,       \* the `now` every step of a run works with
    pc,        \* where run_once is
    todo,      \* scopes this run has still to evaluate
    current,   \* the one row a half-done operation is about, if any
    batch,     \* deliver_pending: selected rows not yet collapsed
    newest,    \* deliver_pending: the row kept for each scope and destination
    ok,        \* _deliver: the answer of the messenger
    snapshot,  \* state_snapshots.state
    trans,     \* state_transitions: key -> "open" | "closed"
    events,    \* events, by the transition they report
    queue,     \* notification_queue: key -> row
    told,      \* observer: last message each destination really received
    heard,     \* observer: messages that reached their destination
    crashes

runVars == <<pc, todo, current, batch, newest, ok>>
dbVars  == <<snapshot, trans, events, queue>>
vars    == <<now, runVars, dbVars, told, heard, crashes>>

Destination == {"admin", "group"}

Template == {"bot.unavailable", "bot.recovered", "bot.degraded", "bot.unknown"}

QUIET_TEMPLATES == {"bot.degraded", "bot.unknown"}

Key == [scope : Scopes, from : State, to : State, observed : Int]

Row == [dest : Destination, template : Template,
        state : {"pending", "sent", "failed", "superseded"},
        attempts : Nat, next : Nat, created : Nat]

-----------------------------------------------------------------------------
(* StateRepository *)

NoTarget == <<"nobody", "nothing">>

\* Mutant: the template key is made from the state's name.
NotificationByStateName(previous, cur, alerted) ==
    IF cur = "unavailable" THEN <<IF alerted THEN "admin" ELSE "group", "bot.unavailable">>
    ELSE IF cur = "operational" THEN <<"group", "bot.operational">>
    ELSE <<"admin", IF cur = "degraded" THEN "bot.degraded" ELSE "bot.unknown">>

\* Mutant: the group hears of a recovery only straight from unavailable.
NotificationForDirectRecovery(previous, cur, alerted) ==
    IF cur = "unavailable" THEN <<IF alerted THEN "admin" ELSE "group", "bot.unavailable">>
    ELSE IF cur = "operational" /\ alerted /\ previous = "unavailable"
         THEN <<"group", "bot.recovered">>
    ELSE IF cur = "degraded" THEN <<"admin", "bot.degraded">>
    ELSE IF cur = "unknown" THEN <<"admin", "bot.unknown">>
    ELSE IF previous # "unknown" THEN <<"admin", "bot.recovered">>
    ELSE NoTarget

NotificationFor(previous, cur, alerted) ==
    IF cur = "unavailable" THEN <<IF alerted THEN "admin" ELSE "group", "bot.unavailable">>
    ELSE IF cur = "operational" /\ alerted THEN <<"group", "bot.recovered">>
    ELSE IF cur = "degraded" THEN <<"admin", "bot.degraded">>
    ELSE IF cur = "unknown" THEN <<"admin", "bot.unknown">>
    ELSE IF previous # "unknown" THEN <<"admin", "bot.recovered">>
    ELSE NoTarget

Rows(q, s, dest, states) ==
    {k \in DOMAIN q : k.scope = s /\ q[k].dest = dest /\ q[k].state \in states}

\* Mutants: notices that were sent are taken for waiting; only quiet ones are.
LiveAdminNotices(q, s) == Rows(q, s, "admin", {"pending", "sent"})
QuietAdminNotices(q, s) ==
    {k \in Rows(q, s, "admin", {"pending"}) : q[k].template \in QUIET_TEMPLATES}

PendingAdminNotices(q, s) == Rows(q, s, "admin", {"pending"})

\* Mutant: notices that were sent or failed count as dropped.
SettledNotices(q, s, since) ==
    Cardinality({k \in Rows(q, s, "admin", {"superseded", "sent", "failed"}) : q[k].created >= since})

DroppedNotices(q, s, since) ==
    Cardinality({k \in Rows(q, s, "admin", {"superseded"}) : q[k].created >= since})

\* Mutant: an outage message that was sent is forgotten.
GroupAlertPending(q, s) ==
    \E k \in Rows(q, s, "group", {"pending"}) : q[k].template = "bot.unavailable"

\* The group's newest message about the scope, sent or pending, is the outage.
GroupAlerted(q, s) ==
    LET live == Rows(q, s, "group", {"pending", "sent"})
    IN  \E k \in live : /\ q[k].template = "bot.unavailable"
                        /\ \A j \in live : q[j].created <= q[k].created

\* Mutant: a message that was tried before is kept.
SupersedeUntried(q, S) ==
    [k \in DOMAIN q |-> IF k \in S /\ q[k].attempts = 0 THEN [q[k] EXCEPT !.state = "superseded"]
                        ELSE q[k]]

Supersede(q, S) ==
    [k \in DOMAIN q |-> IF k \in S THEN [q[k] EXCEPT !.state = "superseded"] ELSE q[k]]

InsertOrIgnore(table, key, row) ==
    [k \in DOMAIN table \cup {key} |-> IF k \in DOMAIN table THEN table[k] ELSE row]

\* Mutant: nothing is closed.
NotClosed(table, s, but) == table

Closed(table, s, but) ==
    [k \in DOMAIN table |-> IF k.scope = s /\ k # but THEN "closed" ELSE table[k]]

\* Queue after a transition k: what waited is superseded, then at most one row is added.
Enqueue(q, k) ==
    LET waiting  == PendingAdminNotices(q, k.scope)
        cleared  == Supersede(q, waiting)
        target   == NotificationFor(k.from, k.to, GroupAlerted(cleared, k.scope))
        template == target[2]
        unannounced == target[1] = "admin" /\ template = "bot.recovered" /\ waiting # {}
        held == /\ target[1] = "admin" /\ template \in QUIET_TEMPLATES
                /\ DroppedNotices(cleared, k.scope, now - FlapWindow) < FLAP_NOTICE_AFTER
    IN  IF target = NoTarget \/ unannounced THEN cleared
        ELSE InsertOrIgnore(cleared, k,
                [dest |-> target[1], template |-> template, state |-> "pending", attempts |-> 0,
                 next |-> IF held THEN now + Quiet ELSE now, created |-> now])

\* save_evaluation for scope s; pc moves on to the transition's event, if there is one.
SaveEvaluation(s, ev) ==
    LET k == [scope |-> s, from |-> snapshot[s], to |-> ev.state, observed |-> ev.observed]
    IN  /\ pc = "evaluate" /\ s \in todo
        /\ todo' = todo \ {s}
        /\ snapshot' = [snapshot EXCEPT ![s] = ev.state]
        /\ \/ /\ ev.state = snapshot[s]
              /\ UNCHANGED <<pc, current, trans, queue>>
           \/ /\ ev.state # snapshot[s]
              /\ trans' = Closed(InsertOrIgnore(trans, k, "open"), s, k)
              /\ queue' = Enqueue(queue, k)
              /\ pc' = "event"
              /\ current' = {k}
        /\ UNCHANGED <<now, batch, newest, ok, events, told, heard, crashes>>

-----------------------------------------------------------------------------
(* Pipeline *)

StartRun ==
    /\ pc = "idle" /\ now < MaxTime
    /\ now' = now + 1
    /\ pc' = "evaluate"
    /\ todo' = Scopes
    /\ UNCHANGED <<current, batch, newest, ok, dbVars, told, heard, crashes>>

\* Mutant: a transition into unknown makes no event.
WriteEventIfKnown ==
    /\ pc = "event"
    /\ events' = events \cup {k \in current : k.to # "unknown"}
    /\ current' = {}
    /\ pc' = "evaluate"
    /\ UNCHANGED <<now, todo, batch, newest, ok, snapshot, trans, queue, told, heard, crashes>>

WriteEvent ==
    /\ pc = "event"
    /\ events' = events \cup current
    /\ current' = {}
    /\ pc' = "evaluate"
    /\ UNCHANGED <<now, todo, batch, newest, ok, snapshot, trans, queue, told, heard, crashes>>

-----------------------------------------------------------------------------
(* NotificationWorker.deliver_pending *)

Due(q) == {k \in DOMAIN q : q[k].state = "pending" /\ q[k].next <= now}

Oldest(S) == {k \in S : \A j \in S : queue[k].created <= queue[j].created}

\* Mutant: back-off and hold are not looked at.
SelectPending ==
    /\ pc = "evaluate" /\ todo = {}
    /\ batch' = {k \in DOMAIN queue : queue[k].state = "pending"}
    /\ newest' = {}
    /\ pc' = "deliver"
    /\ UNCHANGED <<now, todo, current, ok, dbVars, told, heard, crashes>>

SelectDue ==
    /\ pc = "evaluate" /\ todo = {}
    /\ batch' = Due(queue)
    /\ newest' = {}
    /\ pc' = "deliver"
    /\ UNCHANGED <<now, todo, current, ok, dbVars, told, heard, crashes>>

SameThread(j, k) == j.scope = k.scope /\ queue[j].dest = queue[k].dest

CancelsOut(j, k) ==
    /\ queue[k].dest = "group"
    /\ queue[j].template = "bot.unavailable" /\ queue[k].template = "bot.recovered"

\* One round of the collapsing loop: row k replaces the row kept for its thread.
Collapse(k) ==
    LET previous == {j \in newest : SameThread(j, k)}
        cancels  == \E j \in previous : CancelsOut(j, k)
    IN  /\ pc = "deliver" /\ k \in Oldest(batch)
        /\ batch' = batch \ {k}
        /\ queue' = Supersede(queue, previous)
        /\ newest' = (newest \ previous) \cup (IF cancels THEN {} ELSE {k})
        /\ current' = IF cancels THEN {k} ELSE {}
        /\ pc' = IF cancels THEN "cancel" ELSE "deliver"
        /\ UNCHANGED <<now, todo, ok, snapshot, trans, events, told, heard, crashes>>

\* The second transaction of a cancelled pair.
CancelRecovery ==
    /\ pc = "cancel"
    /\ queue' = Supersede(queue, current)
    /\ current' = {}
    /\ pc' = "deliver"
    /\ UNCHANGED <<now, todo, batch, newest, ok, snapshot, trans, events, told, heard, crashes>>

\* TelegramNotifier: what the worker learns.  A refusal, a timeout and an answer that
\* cannot be read are all a failure; after the last two ("late") the chat may have it.
Notifier(outcome) == outcome = "ok"

Send(k, outcome) ==
    /\ pc = "deliver" /\ batch = {} /\ k \in Oldest(newest)
    /\ newest' = newest \ {k}
    /\ current' = {k}
    /\ ok' = Notifier(outcome)
    /\ pc' = "record"
    /\ IF outcome = "lost" THEN UNCHANGED <<told, heard>>
       ELSE /\ told' = [told EXCEPT ![k.scope][queue[k].dest] = queue[k].template]
            /\ heard' = heard \cup {k}
    /\ UNCHANGED <<now, todo, batch, dbVars, crashes>>

\* Mutant: the answer is not written down.
DeliveredStillPending(row) == [row EXCEPT !.next = now]

Delivered(row) == [row EXCEPT !.state = "sent", !.attempts = @ + 1]

\* Mutant: MAX_ATTEMPTS is not looked at.
PostponedForEver(row) == [row EXCEPT !.attempts = @ + 1, !.next = now + Backoff * (row.attempts + 1)]

Postponed(row) ==
    LET attempts == row.attempts + 1
    IN  [row EXCEPT !.attempts = attempts,
                    !.state = IF attempts >= MAX_ATTEMPTS THEN "failed" ELSE "pending",
                    !.next = now + Backoff * attempts]

\* The transaction of _deliver that stores the answer.
Record ==
    /\ pc = "record"
    /\ queue' = [k \in DOMAIN queue |->
                    IF k \in current THEN IF ok THEN Delivered(queue[k]) ELSE Postponed(queue[k])
                    ELSE queue[k]]
    /\ current' = {}
    /\ pc' = "deliver"
    /\ UNCHANGED <<now, todo, batch, newest, ok, snapshot, trans, events, told, heard, crashes>>

\* The loop sleeps until the next run.  Maintenance only sweeps events months old,
\* beyond any horizon here.
FinishRun ==
    /\ pc = "deliver" /\ batch = {} /\ newest = {}
    /\ pc' = "idle"
    /\ UNCHANGED <<now, todo, current, batch, newest, ok, dbVars, told, heard, crashes>>

\* The process dies, or a step raises and run_forever abandons the run.
Crash ==
    /\ pc # "idle" /\ crashes < MaxCrashes
    /\ crashes' = crashes + 1
    /\ pc' = "idle"
    /\ todo' = {} /\ current' = {} /\ batch' = {} /\ newest' = {}
    /\ UNCHANGED <<now, ok, dbVars, told, heard>>

\* The bound MaxTime is reached.
Horizon == pc = "idle" /\ now = MaxTime /\ UNCHANGED vars

-----------------------------------------------------------------------------
EmptyTable == [k \in {} |-> k]

Init ==
    /\ now = 0 /\ pc = "idle" /\ ok = FALSE /\ crashes = 0
    /\ todo = {} /\ current = {} /\ batch = {} /\ newest = {}
    /\ snapshot = [s \in Scopes |-> "unknown"]
    /\ trans = EmptyTable /\ queue = EmptyTable /\ events = {} /\ heard = {}
    /\ told = [s \in Scopes |-> [d \in Destination |-> "nothing"]]

\* What evaluate_scope may return: no evidence, or evidence at most Lag old and, by
\* the clock of a probe that runs ahead, at most Ahead in the future.
Evaluations ==
    [state : {"unknown"}, observed : {NoTime}]
        \cup [state : State, observed : {t \in 0..(now + Ahead) : now - t <= Lag}]

Deliver ==
    \/ SelectDue
    \/ \E k \in batch : Collapse(k)
    \/ CancelRecovery
    \/ \E k \in newest, outcome \in Outcomes : Send(k, outcome)
    \/ Record

Step ==
    \/ \E s \in todo, ev \in Evaluations : SaveEvaluation(s, ev)
    \/ WriteEvent
    \/ Deliver
    \/ FinishRun

Next == StartRun \/ Step \/ Crash \/ Horizon

Spec == Init /\ [][Next]_vars

\* The loop keeps running: run_forever starts the next run and every run goes on.
FairSpec == Spec /\ WF_vars(StartRun) /\ WF_vars(Step)

-----------------------------------------------------------------------------
(* Properties *)

\* Types of all the tables and of the state a run keeps in memory.
TypeOK ==
    /\ now \in Nat /\ crashes \in Nat /\ ok \in BOOLEAN
    /\ pc \in {"idle", "evaluate", "event", "deliver", "cancel", "record"}
    /\ todo \subseteq Scopes
    /\ snapshot \in [Scopes -> State]
    /\ DOMAIN trans \subseteq Key /\ trans \in [DOMAIN trans -> {"open", "closed"}]
    /\ DOMAIN queue \subseteq Key /\ queue \in [DOMAIN queue -> Row]
    /\ events \subseteq Key /\ heard \subseteq Key
    /\ current \subseteq Key /\ batch \subseteq Key /\ newest \subseteq Key
    /\ told \in [Scopes -> [Destination -> Template \cup {"nothing"}]]

\* An administrator's notice that still waits is the only one of its scope and
\* describes the state the scope is in now, however often the state flapped,
\* sends failed or the run was cut short while it was held.
WaitingNoticeIsCurrent ==
    \A s \in Scopes : \A k \in PendingAdminNotices(queue, s) :
        /\ k.to = snapshot[s]
        /\ PendingAdminNotices(queue, s) = {k}

\* A scope never has two open transitions, and an open one leads to the state
\* the snapshot shows: the timeline built from them cannot contradict the card.
OpenTransitionIsCurrent ==
    \A k \in DOMAIN trans : trans[k] = "open" =>
        /\ k.to = snapshot[k.scope]
        /\ \A j \in DOMAIN trans : j.scope = k.scope /\ trans[j] = "open" => j = k

\* The rows deliver_pending holds in memory are still pending and due when they
\* are used: nothing selected earlier in the run is sent from a stale read, and
\* one scope and destination has one message in a run.
BatchIsPending ==
    pc \in {"deliver", "cancel", "record"} =>
        /\ batch \cup newest \subseteq Due(queue)
        /\ batch \cap newest = {}
        /\ \A j, k \in newest : SameThread(j, k) => j = k
        /\ pc # "deliver" => current \subseteq Due(queue) \ (batch \cup newest)

KeepsSettledRows ==
    \A k \in DOMAIN queue : queue[k].state # "pending" => /\ k \in DOMAIN queue'
                                                         /\ queue'[k] = queue[k]

\* A row that is sent, failed or superseded is never touched again: no resend of
\* what was recorded as sent, no revival of what was superseded.
SettledRowsStay == [][KeepsSettledRows]_vars

StateOf(template) ==
    CASE template = "bot.unavailable" -> "unavailable"
      [] template = "bot.recovered"   -> "operational"
      [] template = "bot.degraded"    -> "degraded"
      [] template = "bot.unknown"     -> "unknown"

Sends == pc = "deliver" /\ pc' = "record"

TellsAdminTheTruth ==
    Sends => \A k \in current' :
        queue[k].dest = "admin" => StateOf(queue[k].template) = snapshot[k.scope]

\* Whatever is sent to the administrator describes the state of the scope at that
\* moment, after any number of held, failed and retried notices.
AdminHearsTheTruth == [][TellsAdminTheTruth]_vars

\* A notice about a short spell is held: the administrator hears of degraded or
\* unknown only once it has lasted Quiet, unless FLAP_NOTICE_AFTER earlier
\* notices of the scope were dropped within FlapWindow.
DroppedBefore(k) ==
    {j \in Rows(queue, k.scope, "admin", {"superseded"}) :
        queue[j].created \in (queue[k].created - FlapWindow)..(queue[k].created - 1)}

HoldIsKept ==
    [][Sends => \A k \in current' :
         /\ queue[k].dest = "admin" /\ queue[k].template \in QUIET_TEMPLATES
         /\ Cardinality(DroppedBefore(k)) < FLAP_NOTICE_AFTER
         => now >= queue[k].created + Quiet]_vars

Yields(k) == queue[k].state = "pending" /\ queue'[k].state = "superseded"

YieldsOnlyToOwnScope ==
    \A k \in DOMAIN queue : Yields(k) =>
        \/ snapshot'[k.scope] # snapshot[k.scope]
        \/ \E j \in DOMAIN queue : j # k /\ SameThread(j, k)

\* A message yields only to news of its own scope: it is superseded by the step
\* in which its scope changes state, or because another message about the same
\* scope for the same destination is in the queue, never by another scope's.
YieldsToOwnScope == [][YieldsOnlyToOwnScope]_vars

\* So far no run was cut short and the messenger answered every send at once.
Reliable ==
    /\ crashes = 0
    /\ \A k \in DOMAIN queue :
         queue[k].attempts > 0 => queue[k].attempts = 1 /\ queue[k].state = "sent"

\* With a messenger that answers and no crash the group hears about an outage
\* once, about its recovery once, and about a recovery only after an outage,
\* whatever states lie between.
GroupHearsInPairs ==
    [][Sends /\ Reliable => \A k \in current' : queue[k].dest = "group" =>
         IF queue[k].template = "bot.unavailable"
         THEN told[k.scope]["group"] # "bot.unavailable"
         ELSE told[k.scope]["group"] = "bot.unavailable"]_vars

\* With a messenger that answers and no aborted run, between two runs the group
\* believes what the timeline shows: while the open transition of a server leads to
\* unavailable its last message is the outage, and it is not once it leads to
\* operational.  (A change that repeats an earlier one on the same newest evidence
\* opens no transition, see the README.)
GroupBelievesTheState ==
    pc = "idle" /\ Reliable => \A k \in DOMAIN trans : trans[k] = "open" =>
        /\ k.to = "unavailable" => told[k.scope]["group"] = "bot.unavailable"
        /\ k.to = "operational" => told[k.scope]["group"] # "bot.unavailable"

\* repository.py: the worker delivers "one message per scope with the newest
\* state": a message never reaches the group after a newer one about the scope.
\* (No run checks it: with four attempts it fails, see the README.)
GroupHearsNewestLast ==
    [][Sends => \A k \in current', j \in heard :
         j.scope = k.scope /\ queue[j].dest = "group" /\ queue[k].dest = "group"
         => queue[j].created <= queue[k].created]_vars

\* architecture.md: "a restart over the same database resends nothing": true of
\* every message whose answer arrived and was recorded.  A message reaches its
\* destination twice only if a send of it failed as far as the worker could
\* tell, or a run was cut short.
ResendsOnlyUnrecorded ==
    [][Sends => \A k \in current' \cap heard : queue[k].attempts > 0 \/ crashes > 0]_vars

\* architecture.md: "Each state transition becomes an event": the event is written
\* in a transaction of its own, so a run that is cut short may lose one event,
\* and nothing else loses any.
EventsLostOnlyByCrashes ==
    pc # "event" => /\ events \subseteq DOMAIN trans
                    /\ Cardinality(DOMAIN trans \ events) <= crashes

\* The hold and all the back-offs of a row.
LongestWait == Quiet + Backoff * ((MAX_ATTEMPTS * (MAX_ATTEMPTS - 1)) \div 2)

\* Every message that has the time for it is eventually sent, given up or
\* superseded for good: the delivery loop terminates and retries are not endless.
EveryMessageSettles ==
    <>[](\A k \in DOMAIN queue :
            queue[k].created + LongestWait + MaxCrashes < MaxTime => queue[k].state # "pending")
=============================================================================
