----------------------------- MODULE ProbeAbroad -----------------------------
(***************************************************************************)
(* The cross-server probe (deploy/probe-abroad/vpn-pulse-probe-abroad) and *)
(* the API that stores its reports (SqliteStore.accept_report).  A timer   *)
(* starts one process a minute: it fetches its targets, checks them, and   *)
(* sends the queued reports and the new one, oldest first.  Requests and   *)
(* answers may be lost and the process may be killed at any step.          *)
(***************************************************************************)
EXTENDS Integers, Sequences, SequencesExt

CONSTANTS
    QUEUE_MAX_AGE,      \* seconds a queued report is kept (24 hours)
    QUEUE_MAX_ENTRIES,  \* lines of the queue file (1500)
    MaxRounds,          \* bound: timer ticks
    MaxCrashes          \* bound: killed processes

ASSUME ProbeAssumption ==
    /\ QUEUE_MAX_ENTRIES \in Nat \ {0}
    /\ {QUEUE_MAX_AGE, MaxRounds, MaxCrashes} \subseteq Nat

VARIABLES
    time,     \* the timer
    made,     \* number of reports made; a report is identified by its number
    file,     \* queue.jsonl: sequence of [id, queued]
    pending,  \* tick: rows still to send
    pc,       \* "idle", "send", "save" or "write"
    copies,   \* the API: how often the observations of a report were stored
    crashes

probeVars == <<time, made, file, pending, pc, copies, crashes>>

\* Mutant: the first rows are kept, rows[:n].
FirstN(rows, n) == SubSeq(rows, 1, IF Len(rows) > n THEN n ELSE Len(rows))

LastN(rows, n) == SubSeq(rows, IF Len(rows) > n THEN Len(rows) - n + 1 ELSE 1, Len(rows))

\* load_queue: the last lines of the file, line by line, without those too old at t.
LoadQueue(t) ==
    LET lines == LastN(file, QUEUE_MAX_ENTRIES)
        rows[n \in 0..Len(lines)] ==
            IF n = 0 THEN <<>>
            ELSE IF lines[n].queued >= t - QUEUE_MAX_AGE THEN Append(rows[n - 1], lines[n])
            ELSE rows[n - 1]
    IN  rows[Len(lines)]

\* The API knows the report already: INSERT OR IGNORE on report_id, nothing is written.
StoreReport(id) == [copies EXCEPT ![id] = IF @ = 0 THEN 1 ELSE @]

\* The API cannot be reached for the targets: the process ends with the exception.
\* (A round with no target of its own ends as quietly and is not told apart.)
ConfigFails ==
    /\ pc = "idle" /\ time < MaxRounds
    /\ time' = time + 1
    /\ UNCHANGED <<made, file, pending, pc, copies, crashes>>

\* Mutant: the new report goes first.
MakeReportFirst ==
    /\ pc = "idle" /\ time < MaxRounds
    /\ time' = time + 1 /\ made' = made + 1
    /\ pending' = <<[id |-> made', queued |-> time']>> \o LoadQueue(time')
    /\ pc' = "send"
    /\ UNCHANGED <<file, copies, crashes>>

\* Targets are fetched and checked and the new report joins the queue in memory.
MakeReport ==
    /\ pc = "idle" /\ time < MaxRounds
    /\ time' = time + 1 /\ made' = made + 1
    /\ pending' = Append(LoadQueue(time'), [id |-> made', queued |-> time'])
    /\ pc' = "send"
    /\ UNCHANGED <<file, copies, crashes>>

\* One POST: "ok", "lost" (refused, unreachable) or "late" (stored, answer lost).
Post(outcome) ==
    /\ pc = "send"
    /\ copies' = IF outcome = "lost" THEN copies ELSE StoreReport(Head(pending).id)
    /\ pending' = IF outcome = "ok" THEN Tail(pending) ELSE pending
    /\ pc' = IF outcome = "ok" /\ Len(pending) > 1 THEN "send" ELSE "save"
    /\ UNCHANGED <<time, made, file, crashes>>

\* save_queue opens the file for writing, which truncates it ...
TruncateQueue ==
    /\ pc = "save" /\ file' = <<>> /\ pc' = "write"
    /\ UNCHANGED <<time, made, pending, copies, crashes>>

\* ... and then writes the newest rows.
SaveQueue ==
    /\ pc = "write"
    /\ file' = LastN(pending, QUEUE_MAX_ENTRIES)
    /\ pending' = <<>> /\ pc' = "idle"
    /\ UNCHANGED <<time, made, copies, crashes>>

Crash ==
    /\ pc # "idle" /\ crashes < MaxCrashes
    /\ crashes' = crashes + 1 /\ pending' = <<>> /\ pc' = "idle"
    /\ UNCHANGED <<time, made, file, copies>>

ProbeInit ==
    /\ time = 0 /\ made = 0 /\ file = <<>> /\ pending = <<>> /\ pc = "idle" /\ crashes = 0
    /\ copies = [id \in 1..MaxRounds |-> 0]

ProbeNext ==
    \/ ConfigFails \/ MakeReport \/ TruncateQueue \/ SaveQueue \/ Crash
    \/ \E outcome \in {"ok", "lost", "late"} : Post(outcome)
    \/ pc = "idle" /\ time = MaxRounds /\ UNCHANGED probeVars

ProbeSpec == ProbeInit /\ [][ProbeNext]_probeVars

-----------------------------------------------------------------------------
(* Properties *)

Held == ToSet(file) \cup ToSet(pending)

Stored == {id \in 1..MaxRounds : copies[id] > 0}

\* "oldest first": the API never learns of a report after a younger one, also
\* when the queue is resent, trimmed or lost.
ArrivesInOrder == [][\A id \in Stored', old \in Stored : id \in Stored \/ id > old]_probeVars

\* save_queue wrote as many rows as it may, all of them younger than the row.
GaveWayToYounger(row) ==
    Len(file') = QUEUE_MAX_ENTRIES /\ \A i \in DOMAIN file' : file'[i].id > row.id

\* While no process was killed a report leaves the probe only when the API has
\* it, when it is older than QUEUE_MAX_AGE, or when QUEUE_MAX_ENTRIES younger
\* ones wait: the queue is trimmed at its old end, never at the new one.
NothingVanishes ==
    [][crashes' = 0 =>
         \A row \in Held : \/ row \in Held'
                           \/ row.id \in Stored'
                           \/ row.queued < time - QUEUE_MAX_AGE
                           \/ GaveWayToYounger(row)]_probeVars
=============================================================================
