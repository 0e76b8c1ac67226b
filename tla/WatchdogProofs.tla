--------------------------- MODULE WatchdogProofs ----------------------------
(***************************************************************************)
(* The watchdog's promises, for any thresholds, any messenger and any      *)
(* number of killed processes.                                             *)
(***************************************************************************)
EXTENDS Watchdog, TLAPS

States == [failures : Nat, since : Nat \cup {Never}, alerted : BOOLEAN, last : Nat \cup {Never}]

WatchdogTypeOK ==
    /\ now \in Nat /\ streak \in Nat /\ crashes \in Nat /\ downtime \in Nat \cup {Never}
    /\ state \in States /\ next \in [sent : States, unsent : States]
    /\ pc \in {"idle", "send", "save"} /\ sent \in BOOLEAN
    /\ message \in {"nothing", "alert", "recovered"} /\ told \in {"nothing", "alert", "recovered"}
    /\ trouble \subseteq {"lost", "late"}

\* What Save is going to write.
Saved == IF sent THEN next.sent ELSE next.unsent

\* A state accounts for k failures in a row.
Covers(st, k) ==
    k > crashes => /\ st.failures >= k - crashes /\ st.since # Never
                   /\ crashes = 0 => st.since <= downtime

\* Between ticks the file accounts for the streak; during one, what will be saved
\* does, and the file for all but the failure being handled, which a kill forgets.
CoverInv ==
    /\ streak = 0 <=> downtime = Never
    /\ state.since <= now
    /\ pc = "idle" => Covers(state, streak)
    /\ pc # "idle" => /\ Covers(next.sent, streak) /\ Covers(next.unsent, streak)
                      /\ next.sent.since <= now /\ next.unsent.since <= now
                      /\ streak - 1 > crashes => state.failures >= streak - 1 - crashes /\ state.since # Never

\* No process was killed and no message arrived that was taken for lost.
Believable == crashes = 0 /\ trouble \subseteq {"lost"}

\* The file says that the administrator was alerted only if that is the last they heard.
AlertInv ==
    Believable =>
        /\ pc = "idle" => (state.alerted => told = "alert")
        /\ pc = "send" => /\ message = "recovered" => told = "alert" /\ ~next.sent.alerted
                          /\ message # "nothing"
                          /\ next.unsent.alerted => told = "alert"
        /\ pc = "save" => (Saved.alerted => told = "alert")

Raised(st) == st.failures >= FAILURES => st.alerted

\* While every send worked, a state with enough failures is an alerted one.
RaisedInv ==
    crashes = 0 /\ trouble = {} =>
        /\ pc = "idle" => Raised(state)
        /\ pc = "send" => Raised(next.sent)
        /\ pc = "save" => Raised(Saved)

WatchdogInv == WatchdogTypeOK /\ CoverInv /\ AlertInv /\ RaisedInv

-----------------------------------------------------------------------------

\* What the assumption says, in the form the provers use.
LEMMA WatchdogConstants ==
    /\ FAILURES \in Nat \ {0} /\ FiveMinutes \in Nat /\ SIX_HOURS \in Nat /\ MaxTime \in Nat
    /\ MaxCrashes \in Nat /\ Outcomes \subseteq {"ok", "lost", "late"}
  BY WatchdogAssumption

\* load_state of a missing file.
LEMMA InitialTyped ==
    /\ InitialState \in States /\ Same(InitialState) \in [sent : States, unsent : States]
    /\ InitialState.failures = 0 /\ InitialState.since = Never /\ InitialState.alerted = FALSE
<1>1. InitialState \in States
  BY DEF InitialState, States, Never
<1> QED BY <1>1 DEF InitialState, Same

\* The state after a failed check, and the one that is saved when the alarm was sent.
LEMMA FailingTyped ==
  ASSUME state \in States, NEW t \in Nat
  PROVE  /\ Failing(t) \in States
         /\ Failing(t).failures = state.failures + 1 /\ Failing(t).alerted = state.alerted
         /\ Failing(t).since = IF state.since = Never THEN t ELSE state.since
<1>1. ASSUME NEW n \in Nat, NEW u \in Nat \cup {Never}
      PROVE  [state EXCEPT !.failures = n, !.since = u] \in States
  BY DEF States
<1>2. state.failures + 1 \in Nat /\ (IF state.since = Never THEN t ELSE state.since) \in Nat \cup {Never}
  BY DEF States
<1>3. Failing(t) \in States
  BY <1>1, <1>2 DEF Failing
<1> QED BY <1>3 DEF States, Failing

\* The state after an alert was sent.
LEMMA AlertedTyped ==
  ASSUME NEW st \in States, NEW t \in Nat
  PROVE  LET sa == [st EXCEPT !.alerted = TRUE, !.last = t]
         IN  sa \in States /\ sa.alerted /\ sa.failures = st.failures /\ sa.since = st.since
  BY DEF States

\* The invariant holds at first.
LEMMA InitWatchdog == Init => WatchdogInv
<1> SUFFICES ASSUME Init PROVE WatchdogInv
  OBVIOUS
<1>1. WatchdogTypeOK
  BY InitialTyped DEF Init, WatchdogTypeOK
<1>2. CoverInv
  BY InitialTyped DEF Init, CoverInv, Covers, Never
<1>3. AlertInv /\ RaisedInv
  BY InitialTyped, WatchdogConstants DEF Init, AlertInv, RaisedInv, Raised, Believable
<1> QED BY <1>1, <1>2, <1>3 DEF WatchdogInv

\* A check that finds the API ready.
LEMMA ReadyKeeps == WatchdogInv /\ CheckReady => WatchdogInv'
<1> SUFFICES ASSUME WatchdogInv, CheckReady PROVE WatchdogInv'
  OBVIOUS
<1> USE InitialTyped DEF WatchdogInv, CheckReady, Sending, Saving, Same
<1>1. WatchdogTypeOK'
  BY DEF WatchdogTypeOK
<1>2. CoverInv'
  BY DEF WatchdogTypeOK, States, CoverInv, Covers, Never
<1>3. AlertInv'
  BY DEF WatchdogTypeOK, States, AlertInv, Believable, Saved
<1>4. RaisedInv'
  BY WatchdogConstants DEF WatchdogTypeOK, States, RaisedInv, Raised, Saved
<1> QED BY <1>1, <1>2, <1>3, <1>4

\* A check that fails.
LEMMA FailedKeeps == WatchdogInv /\ CheckFailed => WatchdogInv'
<1> SUFFICES ASSUME WatchdogInv, CheckFailed PROVE WatchdogInv'
  OBVIOUS
<1> DEFINE t  == now + 1
           st == Failing(t)
<1> USE DEF WatchdogInv, Never
<1>1. /\ st \in States /\ st.failures = state.failures + 1 /\ st.alerted = state.alerted
      /\ st.since = IF state.since = Never THEN t ELSE state.since
  BY FailingTyped DEF WatchdogTypeOK
<1>2. /\ pc = "idle" /\ now' = t /\ streak' = streak + 1 /\ UNCHANGED <<state, sent, told, trouble, crashes>>
      /\ downtime' = IF downtime = Never THEN t ELSE downtime
  BY DEF CheckFailed
<1>3. \/ /\ Due(st, t) /\ pc' = "send" /\ message' = "alert"
         /\ next' = [sent |-> [st EXCEPT !.alerted = TRUE, !.last = t], unsent |-> st]
      \/ /\ ~Due(st, t) \/ st.alerted
         /\ pc' = "save" /\ next' = [sent |-> st, unsent |-> st] /\ message' = message
  BY DEF CheckFailed, Sending, Saving, Same
<1>4. /\ next'.unsent = st /\ next'.sent \in States
      /\ next'.sent.failures = st.failures /\ next'.sent.since = st.since /\ (pc' = "send" => next'.sent.alerted)
  <2>1. t \in Nat
    BY DEF WatchdogTypeOK
  <2> DEFINE sa == [st EXCEPT !.alerted = TRUE, !.last = t]
  <2> HIDE DEF st, t
  <2>2. sa \in States /\ sa.alerted /\ sa.failures = st.failures /\ sa.since = st.since
    BY <1>1, <2>1, AlertedTyped
  <2> HIDE DEF sa
  <2>3. \/ pc' = "send" /\ next' = [sent |-> sa, unsent |-> st]
        \/ pc' = "save" /\ next' = [sent |-> st, unsent |-> st]
    BY <1>3 DEF sa
  <2> QED BY <1>1, <2>2, <2>3
<1> HIDE DEF st
<1>5. WatchdogTypeOK'
  <2>1. next' \in [sent : States, unsent : States]
    BY <1>1, <1>3, <1>4
  <2> QED BY <1>1, <1>2, <1>3, <2>1 DEF WatchdogTypeOK
<1>6. CoverInv'
  BY <1>1, <1>2, <1>3, <1>4 DEF WatchdogTypeOK, States, CoverInv, Covers
<1>7. AlertInv'
  BY <1>1, <1>2, <1>3 DEF WatchdogTypeOK, States, AlertInv, Believable, Saved
<1>8. RaisedInv'
  BY <1>1, <1>2, <1>3, <1>4, WatchdogConstants DEF WatchdogTypeOK, States, RaisedInv, Raised, Saved, Due
<1> QED BY <1>5, <1>6, <1>7, <1>8

\* A message is sent, lost, or arrives without an answer.
LEMMA SendKeeps ==
  ASSUME WatchdogInv, NEW outcome \in Outcomes, Send(outcome) PROVE WatchdogInv'
<1> USE WatchdogConstants DEF WatchdogInv, Send
<1>1. WatchdogTypeOK'
  BY DEF WatchdogTypeOK
<1>2. CoverInv'
  BY DEF WatchdogTypeOK, States, CoverInv, Covers
<1>3. AlertInv'
  BY DEF WatchdogTypeOK, States, AlertInv, Believable, Saved
<1>4. RaisedInv'
  BY DEF WatchdogTypeOK, States, RaisedInv, Raised, Saved
<1> QED BY <1>1, <1>2, <1>3, <1>4

\* save_state replaces the file.
LEMMA SaveKeeps == WatchdogInv /\ Save => WatchdogInv'
<1> SUFFICES ASSUME WatchdogInv, Save PROVE WatchdogInv'
  OBVIOUS
<1> USE DEF WatchdogInv, Save
<1>1. WatchdogTypeOK'
  BY DEF WatchdogTypeOK
<1>2. CoverInv'
  BY DEF WatchdogTypeOK, States, CoverInv, Covers
<1>3. AlertInv'
  BY DEF WatchdogTypeOK, States, AlertInv, Believable, Saved
<1>4. RaisedInv'
  BY DEF WatchdogTypeOK, States, RaisedInv, Raised, Saved
<1> QED BY <1>1, <1>2, <1>3, <1>4

\* The process is killed: the file stays.
LEMMA CrashKeeps == WatchdogInv /\ Crash => WatchdogInv'
<1> SUFFICES ASSUME WatchdogInv, Crash PROVE WatchdogInv'
  OBVIOUS
<1> USE DEF WatchdogInv, Crash
<1>1. WatchdogTypeOK'
  BY DEF WatchdogTypeOK
<1>2. CoverInv'
  BY DEF WatchdogTypeOK, States, CoverInv, Covers
<1>3. AlertInv' /\ RaisedInv'
  BY DEF WatchdogTypeOK, AlertInv, Believable, RaisedInv
<1> QED BY <1>1, <1>2, <1>3

\* The inductive invariant of the watchdog: the types, what the file accounts for, and
\* what it says the administrator knows.
THEOREM WatchdogSafe == Spec => []WatchdogInv
<1>1. ASSUME WatchdogInv, [Next]_vars PROVE WatchdogInv'
  <2>1. CASE UNCHANGED vars
    BY <1>1, <2>1 DEF vars, WatchdogInv, WatchdogTypeOK, CoverInv, AlertInv, RaisedInv, Covers, Raised, Saved,
                      Believable
  <2> QED
    BY <1>1, <2>1, ReadyKeeps, FailedKeeps, SendKeeps, SaveKeeps, CrashKeeps DEF Next, Step
<1> QED BY <1>1, InitWatchdog, PTL DEF Spec

\* The state file never forgets an outage, wherever processes were killed
\* (load_state, save_state and the counters of tick).
THEOREM FileCovers == Spec => []FileCoversTheOutage
<1>1. WatchdogInv => FileCoversTheOutage
  BY DEF WatchdogInv, CoverInv, Covers, FileCoversTheOutage
<1> QED BY <1>1, WatchdogSafe, PTL

\* An outage of FAILURES checks is announced (tick's alarm).
THEOREM OutageAnnounced == Spec => []LongOutageIsAnnounced
<1>1. WatchdogInv => LongOutageIsAnnounced
  BY WatchdogConstants DEF WatchdogInv, WatchdogTypeOK, States, CoverInv, Covers, AlertInv, RaisedInv, Raised,
     Believable, LongOutageIsAnnounced
<1> QED BY <1>1, WatchdogSafe, PTL

\* A recovery is announced only to an administrator who was told of the outage
\* (tick's recovery message).
THEOREM RecoveryAfterAlert == Spec => RecoveryFollowsAlert
<1>1. WatchdogInv /\ [Next]_vars =>
        [/\ pc = "send" /\ pc' = "save" /\ message = "recovered" /\ crashes = 0 /\ trouble \subseteq {"lost"}
         => told = "alert"]_vars
  BY DEF WatchdogInv, AlertInv, Believable
<1> QED BY <1>1, WatchdogSafe, PTL DEF Spec, RecoveryFollowsAlert
=============================================================================
