------------------------------ MODULE Watchdog -------------------------------
(***************************************************************************)
(* The watchdog on a second host (deploy/watchdog/vpn-pulse-watchdog): a   *)
(* timer starts one process a minute, which loads state.json, asks the API *)
(* whether it is ready, perhaps sends the administrator a message, and     *)
(* saves its state.  The process may be killed between any two of these.   *)
(***************************************************************************)
EXTENDS Integers

CONSTANTS
    FAILURES,    \* consecutive failures that raise the alarm (3)
    FiveMinutes, \* or this long without readiness, in timer periods
    SIX_HOURS,   \* the repeat interval of a continuing incident
    Outcomes,    \* what the messenger may do with a send
    MaxTime,     \* bound: timer ticks
    MaxCrashes   \* bound: killed or failed processes

ASSUME WatchdogAssumption ==
    /\ FAILURES \in Nat \ {0} /\ {FiveMinutes, SIX_HOURS, MaxTime, MaxCrashes} \subseteq Nat
    /\ Outcomes \subseteq {"ok", "lost", "late"}

VARIABLES
    now,      \* the timer
    state,    \* state.json
    pc,       \* "idle", "send" or "save": where the process is
    message,  \* the message to send
    sent,     \* send_message's answer
    next,     \* the state to save, when the message was sent and when it was not
    streak,   \* observer: checks in a row that failed
    downtime, \* observer: the first of them
    told,     \* observer: last message the administrator received
    trouble,  \* observer: the sends that went wrong, by kind
    crashes

vars == <<now, state, pc, message, sent, next, streak, downtime, told, trouble, crashes>>

Never == -1

InitialState == [failures |-> 0, since |-> Never, alerted |-> FALSE, last |-> Never]

Larger(a, b) == IF a > b THEN a ELSE b

\* The state after a failed check at time t.
Failing(t) ==
    [state EXCEPT !.failures = @ + 1, !.since = IF @ = Never THEN t ELSE @]

\* Mutant: one failure more than promised.
DueOneLater(st, t) == st.failures > FAILURES \/ Larger(0, t - st.since) >= FiveMinutes

Due(st, t) == st.failures >= FAILURES \/ Larger(0, t - st.since) >= FiveMinutes

RepeatDue(st, t) == st.last = Never \/ t - st.last >= SIX_HOURS

Same(st) == [sent |-> st, unsent |-> st]

Sending(m, st) == pc' = "send" /\ message' = m /\ next' = st

Saving(st) == pc' = "save" /\ next' = Same(st) /\ UNCHANGED message

\* Mutant: recovery is announced after any failure.
CheckReadyAlwaysTells ==
    /\ pc = "idle" /\ now < MaxTime
    /\ now' = now + 1 /\ streak' = 0 /\ downtime' = Never
    /\ IF state.since # Never
       THEN Sending("recovered", [sent |-> InitialState, unsent |-> state])
       ELSE Saving(InitialState)
    /\ UNCHANGED <<state, sent, told, trouble, crashes>>

\* The API answered ready: 200 and {"ready": true}.
CheckReady ==
    /\ pc = "idle" /\ now < MaxTime
    /\ now' = now + 1 /\ streak' = 0 /\ downtime' = Never
    /\ IF state.since # Never /\ state.alerted
       THEN Sending("recovered", [sent |-> InitialState, unsent |-> state])
       ELSE Saving(InitialState)
    /\ UNCHANGED <<state, sent, told, trouble, crashes>>

\* It did not: an error status, ready false, a timeout, an unreadable answer.
CheckFailed ==
    LET t  == now + 1
        st == Failing(t)
    IN  /\ pc = "idle" /\ now < MaxTime
        /\ now' = t /\ streak' = streak + 1
        /\ downtime' = IF downtime = Never THEN t ELSE downtime
        /\ IF Due(st, t) /\ (~st.alerted \/ RepeatDue(st, t))
           THEN Sending("alert", [sent |-> [st EXCEPT !.alerted = TRUE, !.last = t], unsent |-> st])
           ELSE Saving(st)
        /\ UNCHANGED <<state, sent, told, trouble, crashes>>

\* send_message: "late" reaches the chat although the call times out.
Send(outcome) ==
    /\ pc = "send"
    /\ sent' = (outcome = "ok")
    /\ told' = IF outcome = "lost" THEN told ELSE message
    /\ trouble' = trouble \cup ({outcome} \ {"ok"})
    /\ pc' = "save"
    /\ UNCHANGED <<now, state, message, next, streak, downtime, crashes>>

\* Mutant: the state is saved only after a successful send.
SaveOnlySent ==
    /\ pc = "save"
    /\ state' = IF sent THEN next.sent ELSE state
    /\ pc' = "idle"
    /\ UNCHANGED <<now, message, sent, next, streak, downtime, told, trouble, crashes>>

\* save_state replaces the file atomically.
Save ==
    /\ pc = "save"
    /\ state' = IF sent THEN next.sent ELSE next.unsent
    /\ pc' = "idle"
    /\ UNCHANGED <<now, message, sent, next, streak, downtime, told, trouble, crashes>>

\* The process is killed or raises: what was not saved is forgotten.
Crash ==
    /\ pc # "idle" /\ crashes < MaxCrashes
    /\ crashes' = crashes + 1 /\ pc' = "idle"
    /\ UNCHANGED <<now, state, message, sent, next, streak, downtime, told, trouble>>

Init ==
    /\ now = 0 /\ state = InitialState /\ pc = "idle" /\ message = "nothing" /\ sent = FALSE
    /\ next = Same(InitialState) /\ streak = 0 /\ downtime = Never /\ told = "nothing" /\ crashes = 0
    /\ trouble = {}

Step == CheckReady \/ CheckFailed \/ (\E outcome \in Outcomes : Send(outcome)) \/ Save

Next == Step \/ Crash \/ (now = MaxTime /\ pc = "idle" /\ UNCHANGED vars)

Spec == Init /\ [][Next]_vars

-----------------------------------------------------------------------------
(* Properties *)

\* The state file never forgets a failure: whatever sends failed and whatever
\* process was killed, between ticks it counts no fewer failures than were
\* observed less the killed processes, and starts the incident no later.
FileCoversTheOutage ==
    pc = "idle" /\ streak > crashes =>
        /\ state.failures >= streak - crashes
        /\ state.since # Never /\ (crashes = 0 => state.since <= downtime)

\* watchdog.md: "sends one recovery message when readiness returns": as long as no
\* process was killed and no send was taken for a failure that had arrived,
\* recovery is announced once, and only to an administrator who was told of the
\* outage, however often either send failed.
RecoveryFollowsAlert ==
    [][/\ pc = "send" /\ pc' = "save" /\ message = "recovered"
       /\ crashes = 0 /\ trouble \subseteq {"lost"}
       => told = "alert"]_vars

\* watchdog.md: an alert after "three consecutive failures" is not missed: while
\* every send worked and no process was killed, an outage that long was announced.
LongOutageIsAnnounced ==
    pc = "idle" /\ streak >= FAILURES /\ crashes = 0 /\ trouble = {} => told = "alert"
=============================================================================
