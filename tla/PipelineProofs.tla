--------------------------- MODULE PipelineProofs ----------------------------
(***************************************************************************)
(* Theorems of Pipeline for every set of scopes, every retry limit,        *)
(* back-off, hold and flap limit, any messenger and any number of crashes, *)
(* and of Monitor, whose evidence table and evaluate_scope yield one of    *)
(* those evaluations for every freshness, delay, skew and set of reports.  *)
(***************************************************************************)
EXTENDS Monitor, FiniteSetTheorems, WellFoundedInduction, TLAPS

\* The constants used in arithmetic are naturals.
LEMMA ConstantTypes ==
    /\ MAX_ATTEMPTS \in Nat /\ Backoff \in Nat /\ Quiet \in Nat
    /\ FLAP_NOTICE_AFTER \in Nat /\ FlapWindow \in Nat /\ Lag \in Nat /\ Ahead \in Nat
    /\ MaxTime \in Nat /\ MaxCrashes \in Nat
BY PipelineAssumption

\* notification_for names a known destination and the template of the new state.
LEMMA NotificationForType ==
    ASSUME NEW p \in State, NEW c \in State, NEW a \in BOOLEAN
    PROVE  LET t == NotificationFor(p, c, a)
           IN  t # NoTarget => t[1] \in Destination /\ t[2] \in Template /\ StateOf(t[2]) = c
BY DEF NotificationFor, NoTarget, Destination, Template, StateOf, State

\* Superseding keeps a table of rows a table of rows.
LEMMA SupersedeType ==
    ASSUME NEW q, q \in [DOMAIN q -> Row], NEW S
    PROVE  /\ DOMAIN Supersede(q, S) = DOMAIN q
           /\ Supersede(q, S) \in [DOMAIN q -> Row]
           /\ \A k \in DOMAIN q :
                /\ k \notin S => Supersede(q, S)[k] = q[k]
                /\ k \in S => Supersede(q, S)[k].state = "superseded"
                /\ Supersede(q, S)[k].template = q[k].template
                /\ Supersede(q, S)[k].dest = q[k].dest
                /\ Supersede(q, S)[k].created = q[k].created
                /\ Supersede(q, S)[k].next = q[k].next
                /\ Supersede(q, S)[k].attempts = q[k].attempts
BY DEF Supersede, Row

\* What Enqueue does to the queue: rows keep their message, what waited for the
\* administrator of the scope is superseded, at most the row k is new, and it
\* carries the template of the new state.
LEMMA EnqueueEffect ==
    ASSUME NEW k \in Key, now \in Nat, DOMAIN queue \subseteq Key, queue \in [DOMAIN queue -> Row]
    PROVE  LET q == Enqueue(queue, k)
               waiting == PendingAdminNotices(queue, k.scope)
           IN  /\ DOMAIN queue \subseteq DOMAIN q
               /\ DOMAIN q \subseteq DOMAIN queue \cup {k}
               /\ q \in [DOMAIN q -> Row]
               /\ \A j \in DOMAIN queue : j \notin waiting => q[j] = queue[j]
               /\ \A j \in waiting : q[j].state = "superseded"
               /\ \A j \in DOMAIN queue : q[j].template = queue[j].template
               /\ k \in DOMAIN q \ DOMAIN queue => StateOf(q[k].template) = k.to
<1> DEFINE waiting == PendingAdminNotices(queue, k.scope)
           cleared == Supersede(queue, waiting)
           alerted == GroupAlerted(cleared, k.scope)
           target == NotificationFor(k.from, k.to, alerted)
           held == /\ target[1] = "admin" /\ target[2] \in QUIET_TEMPLATES
                   /\ DroppedNotices(cleared, k.scope, now - FlapWindow) < FLAP_NOTICE_AFTER
           row == [dest |-> target[1], template |-> target[2], state |-> "pending", attempts |-> 0,
                   next |-> IF held THEN now + Quiet ELSE now, created |-> now]
<1>1. /\ DOMAIN cleared = DOMAIN queue /\ cleared \in [DOMAIN queue -> Row]
      /\ \A j \in DOMAIN queue :
            /\ j \notin waiting => cleared[j] = queue[j]
            /\ j \in waiting => cleared[j].state = "superseded"
            /\ cleared[j].template = queue[j].template
  BY SupersedeType
<1>2. waiting \subseteq DOMAIN queue
  BY DEF PendingAdminNotices, Rows
<1>3. k.from \in State /\ k.to \in State /\ alerted \in BOOLEAN
  BY DEF Key, GroupAlerted
<1>4. CASE Enqueue(queue, k) = cleared
  BY <1>1, <1>2, <1>4
<1>5. CASE /\ target # NoTarget
           /\ Enqueue(queue, k) = InsertOrIgnore(cleared, k, row)
  <2>1. target[1] \in Destination /\ target[2] \in Template /\ StateOf(target[2]) = k.to
    BY <1>3, <1>5, NotificationForType
  <2>2. row \in Row /\ row.template = target[2]
    <3> HIDE DEF target, held
    <3> QED BY <2>1, ConstantTypes DEF Row
  <2> DEFINE q == InsertOrIgnore(cleared, k, row)
  <2> HIDE DEF row, cleared, waiting, target
  <2>3. /\ DOMAIN q = DOMAIN queue \cup {k}
        /\ \A j \in DOMAIN queue : q[j] = cleared[j]
        /\ k \notin DOMAIN queue => q[k] = row
    BY <1>1 DEF InsertOrIgnore
  <2>4. q \in [DOMAIN q -> Row]
    BY <1>1, <2>2 DEF InsertOrIgnore
  <2>5. QED
    BY <1>1, <1>2, <1>5, <2>1, <2>2, <2>3, <2>4 DEF waiting
<1>6. QED
  BY <1>4, <1>5 DEF Enqueue

-----------------------------------------------------------------------------
(* Types and the worker's memory.  Send and Record look rows up by keys    *)
(* kept in memory, so TypeOK is inductive only together with the fact that *)
(* those keys are still rows of the queue (BatchIsPending).                *)

TypeInv == TypeOK /\ BatchIsPending

\* The first state.
LEMMA TypeInit == Init => TypeInv
<1> SUFFICES ASSUME Init PROVE TypeInv
  OBVIOUS
<1>1. DOMAIN trans = {} /\ DOMAIN queue = {}
  BY DEF Init, EmptyTable
<1>2. trans \in [DOMAIN trans -> {"open", "closed"}] /\ queue \in [DOMAIN queue -> Row]
  BY DEF Init, EmptyTable
<1>3. snapshot \in [Scopes -> State]
  BY DEF Init, State
<1>4. told \in [Scopes -> [Destination -> Template \cup {"nothing"}]]
  BY DEF Init
<1>5. TypeOK
  BY <1>1, <1>2, <1>3, <1>4 DEF Init, TypeOK
<1>6. QED
  BY <1>5 DEF Init, TypeInv, BatchIsPending

\* save_evaluation and the start of a delivery.
LEMMA TypeEvaluate ==
    ASSUME TypeInv, NEW s \in todo, NEW ev \in Evaluations, SaveEvaluation(s, ev)
    PROVE  TypeInv'
<1> DEFINE k == [scope |-> s, from |-> snapshot[s], to |-> ev.state, observed |-> ev.observed]
<1>1. s \in Scopes /\ ev.state \in State /\ ev.observed \in Int
  BY DEF TypeInv, TypeOK, Evaluations, State, NoTime
<1>2. k \in Key /\ k.scope = s
  BY <1>1 DEF TypeInv, TypeOK, Key
<1>3. snapshot' \in [Scopes -> State] /\ todo' \subseteq Scopes
  BY <1>1 DEF SaveEvaluation, TypeInv, TypeOK
<1>4. CASE ev.state = snapshot[s]
  BY <1>3, <1>4 DEF SaveEvaluation, TypeInv, TypeOK, BatchIsPending
<1>5. CASE ev.state # snapshot[s]
  <2>1. /\ DOMAIN queue' \subseteq Key /\ queue' \in [DOMAIN queue' -> Row]
    BY <1>2, <1>5, EnqueueEffect DEF SaveEvaluation, TypeInv, TypeOK
  <2>2. /\ DOMAIN trans' \subseteq Key /\ trans' \in [DOMAIN trans' -> {"open", "closed"}]
    BY <1>2, <1>5 DEF SaveEvaluation, TypeInv, TypeOK, Closed, InsertOrIgnore
  <2>3. QED
    BY <1>2, <1>3, <1>5, <2>1, <2>2 DEF SaveEvaluation, TypeInv, TypeOK, BatchIsPending
<1>6. QED
  BY <1>4, <1>5

\* One round of the collapsing loop.
LEMMA TypeCollapse ==
    ASSUME TypeInv, NEW k \in batch, Collapse(k)
    PROVE  TypeInv'
<1> DEFINE previous == {j \in newest : SameThread(j, k)}
<1>1. /\ batch \cup newest \subseteq Due(queue) /\ batch \cap newest = {} /\ k \in batch
      /\ \A i, j \in newest : SameThread(i, j) => i = j
  BY DEF TypeInv, BatchIsPending, Collapse, Oldest
<1>2. queue' = Supersede(queue, previous) /\ now' = now
  BY DEF Collapse
<1>3. /\ DOMAIN queue' = DOMAIN queue /\ queue' \in [DOMAIN queue -> Row]
      /\ \A j \in DOMAIN queue : /\ j \notin previous => queue'[j] = queue[j]
                                /\ queue'[j].dest = queue[j].dest
  BY <1>2, SupersedeType DEF TypeInv, TypeOK
<1>4. Due(queue) \ previous \subseteq Due(queue)'
  BY <1>2, <1>3 DEF Due
<1>5. /\ batch' = batch \ {k} /\ newest' \subseteq (newest \ previous) \cup {k}
      /\ current' \subseteq {k} /\ current' \cap newest' = {}
      /\ pc' \in {"cancel", "deliver"}
      /\ UNCHANGED <<now, todo, ok, snapshot, trans, events, told, heard, crashes>>
  BY <1>1 DEF Collapse
<1>6. TypeOK'
  BY <1>1, <1>3, <1>5 DEF TypeInv, TypeOK, Due
<1>7. batch' \cup newest' \cup current' \subseteq Due(queue)'
  BY <1>1, <1>4, <1>5
<1>8. batch' \cap newest' = {} /\ current' \cap (batch' \cup newest') = {}
  BY <1>1, <1>5
<1>9. \A i, j \in newest' : SameThread(i, j)' => i = j
  BY <1>1, <1>3, <1>5 DEF SameThread, Due
<1>10. QED
  BY <1>6, <1>7, <1>8, <1>9 DEF TypeInv, BatchIsPending

\* Sending a kept row and storing the messenger's answer.
LEMMA TypeSend ==
    ASSUME TypeInv, NEW k \in newest, NEW outcome \in Outcomes, Send(k, outcome)
    PROVE  TypeInv'
<1>1. /\ k \in Due(queue) /\ newest \subseteq Due(queue) /\ batch = {} /\ k \in DOMAIN queue /\ k \in Key
      /\ \A i, j \in newest : SameThread(i, j) => i = j
  BY DEF TypeInv, TypeOK, BatchIsPending, Send, Due
<1>2. /\ newest' = newest \ {k} /\ current' = {k} /\ batch' = {} /\ pc' = "record"
      /\ ok' \in BOOLEAN /\ UNCHANGED <<now, todo, snapshot, trans, events, queue, crashes>>
  BY <1>1 DEF Send, Notifier, dbVars
<1>3. queue[k].dest \in Destination /\ queue[k].template \in Template
  BY <1>1 DEF TypeInv, TypeOK, Row
<1>4. /\ told' \in [Scopes -> [Destination -> Template \cup {"nothing"}]]
      /\ heard' \subseteq Key
  <2>1. k.scope \in Scopes
    BY <1>1 DEF Key
  <2>2. CASE outcome = "lost"
    BY <2>2 DEF Send, Notifier, TypeInv, TypeOK
  <2>3. CASE outcome # "lost"
    BY <2>1, <2>3, <1>1, <1>3 DEF Send, Notifier, TypeInv, TypeOK
  <2>4. QED
    BY <2>2, <2>3
<1>5. TypeOK'
  BY <1>1, <1>2, <1>4 DEF TypeInv, TypeOK
<1>6. Due(queue)' = Due(queue)
  BY <1>2 DEF Due
<1>7. QED
  BY <1>1, <1>2, <1>5, <1>6 DEF TypeInv, BatchIsPending, SameThread

\* The product of two naturals is a natural.
LEMMA ProductType == \A a, b \in Nat : a * b \in Nat
OBVIOUS

\* The transaction of _deliver: the row is settled or postponed by a natural amount.
LEMMA TypeRecord ==
    ASSUME TypeInv, Record
    PROVE  TypeInv'
<1>1. \A k \in DOMAIN queue : Delivered(queue[k]) \in Row /\ Postponed(queue[k]) \in Row
  <2> TAKE k \in DOMAIN queue
  <2>1. queue[k] \in Row /\ now \in Nat
    BY DEF TypeInv, TypeOK
  <2>2. queue[k].attempts + 1 \in Nat
    BY <2>1 DEF Row
  <2>3. now + Backoff * (queue[k].attempts + 1) \in Nat
    BY <2>1, <2>2, ConstantTypes, ProductType
  <2>4. QED
    BY <2>1, <2>2, <2>3 DEF Delivered, Postponed, Row
<1>2. /\ DOMAIN queue' = DOMAIN queue
      /\ \A k \in DOMAIN queue : k \notin current => queue'[k] = queue[k]
      /\ queue' \in [DOMAIN queue -> Row]
  BY <1>1 DEF Record, TypeInv, TypeOK
<1>3. \A k \in DOMAIN queue : queue'[k].dest = queue[k].dest
  <2> TAKE k \in DOMAIN queue
  <2>1. queue[k] \in Row
    BY DEF TypeInv, TypeOK
  <2>2. QED
    BY <2>1, <1>2 DEF Record, Delivered, Postponed, Row
<1>4. /\ batch \cup newest \subseteq Due(queue) \ current /\ batch \cap newest = {}
      /\ \A i, j \in newest : SameThread(i, j) => i = j
  BY DEF TypeInv, BatchIsPending, Record
<1>5. Due(queue) \ current \subseteq Due(queue)'
  BY <1>2 DEF Due, Record
<1>6. TypeOK'
  BY <1>2 DEF Record, TypeInv, TypeOK
<1>7. QED
  BY <1>3, <1>4, <1>5, <1>6 DEF Record, TypeInv, BatchIsPending, SameThread, Due

\* The second half of a cancelled pair.
LEMMA TypeCancel ==
    ASSUME TypeInv, CancelRecovery
    PROVE  TypeInv'
<1>1. /\ DOMAIN queue' = DOMAIN queue /\ queue' \in [DOMAIN queue -> Row]
      /\ \A j \in DOMAIN queue : /\ j \notin current => queue'[j] = queue[j]
                                /\ queue'[j].dest = queue[j].dest
  BY SupersedeType DEF CancelRecovery, TypeInv, TypeOK
<1>2. /\ batch \cup newest \subseteq Due(queue) \ current /\ batch \cap newest = {}
      /\ \A i, j \in newest : SameThread(i, j) => i = j
  BY DEF TypeInv, BatchIsPending, CancelRecovery
<1>3. Due(queue) \ current \subseteq Due(queue)'
  BY <1>1 DEF Due, CancelRecovery
<1>4. TypeOK'
  BY <1>1 DEF CancelRecovery, TypeInv, TypeOK
<1>5. QED
  BY <1>1, <1>2, <1>3, <1>4 DEF CancelRecovery, TypeInv, BatchIsPending, SameThread, Due

\* The remaining steps.
LEMMA TypeOther ==
    ASSUME TypeInv, StartRun \/ WriteEvent \/ SelectDue \/ FinishRun \/ Crash \/ UNCHANGED vars
    PROVE  TypeInv'
<1>1. CASE StartRun
  BY <1>1 DEF StartRun, dbVars, TypeInv, TypeOK, BatchIsPending
<1>2. CASE WriteEvent
  BY <1>2 DEF WriteEvent, TypeInv, TypeOK, BatchIsPending
<1>3. CASE SelectDue
  BY <1>3 DEF SelectDue, dbVars, TypeInv, TypeOK, BatchIsPending, Due
<1>4. CASE FinishRun
  BY <1>4 DEF FinishRun, dbVars, TypeInv, TypeOK, BatchIsPending
<1>5. CASE Crash
  BY <1>5 DEF Crash, dbVars, TypeInv, TypeOK, BatchIsPending
<1>6. CASE UNCHANGED vars
  BY <1>6 DEF vars, runVars, dbVars, TypeInv, TypeOK, BatchIsPending, Due, SameThread
<1>7. QED
  BY <1>1, <1>2, <1>3, <1>4, <1>5, <1>6

\* Every step keeps the types and the worker's memory right.
LEMMA TypeStep == TypeInv /\ [Next]_vars => TypeInv'
BY TypeEvaluate, TypeCollapse, TypeSend, TypeRecord, TypeCancel, TypeOther
   DEF Next, Step, Deliver, Horizon

\* The tables keep their types, for every instance (StateRepository and
\* NotificationWorker).
THEOREM TypeCorrect == Spec => []TypeOK
<1>1. Spec => []TypeInv
  BY TypeInit, TypeStep, PTL DEF Spec
<1>2. TypeInv => TypeOK
  BY DEF TypeInv
<1>3. QED
  BY <1>1, <1>2, PTL

\* Rows deliver_pending keeps in memory are still pending and due when they are
\* used, and a run sends one message per scope and destination.
THEOREM BatchStaysPending == Spec => []BatchIsPending
<1>1. Spec => []TypeInv
  BY TypeInit, TypeStep, PTL DEF Spec
<1>2. TypeInv => BatchIsPending
  BY DEF TypeInv
<1>3. QED
  BY <1>1, <1>2, PTL

-----------------------------------------------------------------------------
(* What a step may do to the queue.  All later proofs rest on this: only   *)
(* save_evaluation adds a row or moves a snapshot; every other step keeps  *)
(* the messages and settles or postpones pending rows.                     *)

QueueOnlySettles ==
    /\ DOMAIN queue' = DOMAIN queue
    /\ \A k \in DOMAIN queue :
          /\ queue'[k].dest = queue[k].dest /\ queue'[k].template = queue[k].template
          /\ queue[k].state # "pending" => queue'[k] = queue[k]

SnapshotsStay == UNCHANGED <<snapshot, trans>>

\* Outside save_evaluation rows only settle, no row is added and snapshots stay.
LEMMA OtherSteps ==
    ASSUME TypeInv, [Next]_vars, ~ \E s \in todo, ev \in Evaluations : SaveEvaluation(s, ev)
    PROVE  QueueOnlySettles /\ SnapshotsStay
<1>1. queue \in [DOMAIN queue -> Row]
  BY DEF TypeInv, TypeOK
<1>2. ASSUME NEW k \in batch, Collapse(k) PROVE QueueOnlySettles /\ SnapshotsStay
  <2> DEFINE previous == {j \in newest : SameThread(j, k)}
  <2>1. previous \subseteq Due(queue) /\ queue' = Supersede(queue, previous)
    BY <1>2 DEF TypeInv, BatchIsPending, Collapse
  <2>2. QED
    BY <1>1, <1>2, <2>1, SupersedeType DEF Collapse, QueueOnlySettles, SnapshotsStay, Due
<1>3. CASE CancelRecovery
  <2>1. current \subseteq Due(queue) /\ queue' = Supersede(queue, current)
    BY <1>3 DEF TypeInv, BatchIsPending, CancelRecovery
  <2>2. QED
    BY <1>1, <1>3, <2>1, SupersedeType DEF CancelRecovery, QueueOnlySettles, SnapshotsStay, Due
<1>4. CASE Record
  <2>1. current \subseteq Due(queue)
    BY <1>4 DEF TypeInv, BatchIsPending, Record
  <2>2. \A k \in DOMAIN queue : k \notin current => queue'[k] = queue[k]
    BY <1>4 DEF Record
  <2>3. \A k \in DOMAIN queue : queue'[k].dest = queue[k].dest /\ queue'[k].template = queue[k].template
    <3> TAKE k \in DOMAIN queue
    <3>1. queue[k] \in Row
      BY <1>1
    <3>2. QED
      BY <3>1, <1>4 DEF Record, Delivered, Postponed, Row
  <2>4. QED
    BY <1>4, <2>1, <2>2, <2>3 DEF Record, QueueOnlySettles, SnapshotsStay, Due
<1>5. CASE UNCHANGED <<queue, snapshot, trans>>
  BY <1>5 DEF QueueOnlySettles, SnapshotsStay
<1>6. QED
  BY <1>2, <1>3, <1>4, <1>5 DEF Next, Step, Deliver, StartRun, WriteEvent, SelectDue, Send,
     FinishRun, Crash, Horizon, vars, dbVars

\* A transition, with its row key and the tables it leaves.
LEMMA TransitionStep ==
    ASSUME TypeInv, NEW s \in todo, NEW ev \in Evaluations, SaveEvaluation(s, ev)
    PROVE  LET k == [scope |-> s, from |-> snapshot[s], to |-> ev.state, observed |-> ev.observed]
           IN  /\ s \in Scopes /\ k \in Key /\ k.scope = s
               /\ snapshot' = [snapshot EXCEPT ![s] = k.to]
               /\ \/ k.to = snapshot[s] /\ UNCHANGED <<trans, queue>>
                  \/ /\ k.to # snapshot[s]
                     /\ trans' = Closed(InsertOrIgnore(trans, k, "open"), s, k)
                     /\ queue' = Enqueue(queue, k)
BY DEF SaveEvaluation, TypeInv, TypeOK, Key, Evaluations, State, NoTime

\* A settled row is never sent again, revived or dropped by any step.
THEOREM SettledRows == Spec => SettledRowsStay
<1>1. TypeInv /\ [Next]_vars => KeepsSettledRows
  <2> SUFFICES ASSUME TypeInv, [Next]_vars PROVE KeepsSettledRows
    OBVIOUS
  <2>1. ASSUME NEW s \in todo, NEW ev \in Evaluations, SaveEvaluation(s, ev) PROVE KeepsSettledRows
    <3> DEFINE k == [scope |-> s, from |-> snapshot[s], to |-> ev.state, observed |-> ev.observed]
    <3>1. k \in Key /\ (queue' = queue \/ queue' = Enqueue(queue, k))
      BY <2>1, TransitionStep
    <3>2. CASE queue' = Enqueue(queue, k)
      <4>1. \A j \in PendingAdminNotices(queue, k.scope) : queue[j].state = "pending"
        BY DEF PendingAdminNotices, Rows
      <4> HIDE DEF k
      <4>2. QED
        BY <3>1, <3>2, <4>1, EnqueueEffect DEF TypeInv, TypeOK, KeepsSettledRows
    <3>3. QED
      BY <3>1, <3>2 DEF KeepsSettledRows
  <2>2. CASE ~ \E s \in todo, ev \in Evaluations : SaveEvaluation(s, ev)
    BY <2>2, OtherSteps DEF QueueOnlySettles, KeepsSettledRows
  <2>3. QED
    BY <2>1, <2>2
<1>2. Spec => []TypeInv
  BY TypeInit, TypeStep, PTL DEF Spec
<1>3. QED
  BY <1>1, <1>2, PTL DEF Spec, SettledRowsStay

\* While a notice waits it is the only one and describes the present state.
THEOREM WaitingNotice == Spec => []WaitingNoticeIsCurrent
<1>1. Init => WaitingNoticeIsCurrent
  BY DEF Init, EmptyTable, WaitingNoticeIsCurrent, PendingAdminNotices, Rows
<1>2. TypeInv /\ WaitingNoticeIsCurrent /\ [Next]_vars => WaitingNoticeIsCurrent'
  <2> SUFFICES ASSUME TypeInv, WaitingNoticeIsCurrent, [Next]_vars PROVE WaitingNoticeIsCurrent'
    OBVIOUS
  <2>1. ASSUME NEW s \in todo, NEW ev \in Evaluations, SaveEvaluation(s, ev)
        PROVE  WaitingNoticeIsCurrent'
    <3> DEFINE k == [scope |-> s, from |-> snapshot[s], to |-> ev.state, observed |-> ev.observed]
    <3>1. /\ s \in Scopes /\ k \in Key /\ k.scope = s /\ snapshot' = [snapshot EXCEPT ![s] = k.to]
          /\ \/ k.to = snapshot[s] /\ UNCHANGED queue
             \/ k.to # snapshot[s] /\ queue' = Enqueue(queue, k)
      BY <2>1, TransitionStep
    <3> HIDE DEF k
    <3>2. snapshot \in [Scopes -> State]
      BY DEF TypeInv, TypeOK
    <3>3. CASE UNCHANGED queue /\ k.to = snapshot[s]
      BY <3>1, <3>2, <3>3 DEF WaitingNoticeIsCurrent, PendingAdminNotices, Rows
    <3>4. CASE queue' = Enqueue(queue, k)
      <4>1. /\ DOMAIN queue \subseteq DOMAIN queue' /\ DOMAIN queue' \subseteq DOMAIN queue \cup {k}
            /\ \A j \in DOMAIN queue : j \notin PendingAdminNotices(queue, s) => queue'[j] = queue[j]
            /\ \A j \in PendingAdminNotices(queue, s) : queue'[j].state = "superseded"
        BY <3>1, <3>4, EnqueueEffect DEF TypeInv, TypeOK
      <4>2. PendingAdminNotices(queue, s)' \subseteq {k}
        BY <4>1 DEF PendingAdminNotices, Rows
      <4>3. \A r \in Scopes \ {s} : PendingAdminNotices(queue, r)' = PendingAdminNotices(queue, r)
        BY <3>1, <4>1 DEF PendingAdminNotices, Rows
      <4>4. \A r \in Scopes \ {s} : snapshot'[r] = snapshot[r]
        BY <3>1, <3>2
      <4>5. snapshot'[s] = k.to
        BY <3>1, <3>2
      <4>6. QED
        BY <4>2, <4>3, <4>4, <4>5 DEF WaitingNoticeIsCurrent
    <3>5. QED
      BY <3>1, <3>3, <3>4
  <2>2. CASE ~ \E s \in todo, ev \in Evaluations : SaveEvaluation(s, ev)
    <3>1. QueueOnlySettles /\ snapshot' = snapshot
      BY <2>2, OtherSteps DEF SnapshotsStay
    <3>2. \A s \in Scopes : PendingAdminNotices(queue, s)' \subseteq PendingAdminNotices(queue, s)
      BY <3>1 DEF QueueOnlySettles, PendingAdminNotices, Rows
    <3>3. QED
      BY <3>1, <3>2 DEF WaitingNoticeIsCurrent
  <2>3. QED
    BY <2>1, <2>2
<1>3. Spec => []TypeInv
  BY TypeInit, TypeStep, PTL DEF Spec
<1>4. QED
  BY <1>1, <1>2, <1>3, PTL DEF Spec

\* A scope has at most one open transition and it leads to the present state.
\* When INSERT OR IGNORE meets an existing row, that row is closed: an open one
\* leads to the present state, and the new transition leaves it.
THEOREM OpenTransition == Spec => []OpenTransitionIsCurrent
<1>1. Init => OpenTransitionIsCurrent
  BY DEF Init, EmptyTable, OpenTransitionIsCurrent
<1>2. TypeInv /\ OpenTransitionIsCurrent /\ [Next]_vars => OpenTransitionIsCurrent'
  <2> SUFFICES ASSUME TypeInv, OpenTransitionIsCurrent, [Next]_vars PROVE OpenTransitionIsCurrent'
    OBVIOUS
  <2>1. ASSUME NEW s \in todo, NEW ev \in Evaluations, SaveEvaluation(s, ev)
        PROVE  OpenTransitionIsCurrent'
    <3> DEFINE k == [scope |-> s, from |-> snapshot[s], to |-> ev.state, observed |-> ev.observed]
    <3>1. /\ s \in Scopes /\ k \in Key /\ k.scope = s /\ snapshot' = [snapshot EXCEPT ![s] = k.to]
          /\ \/ k.to = snapshot[s] /\ UNCHANGED trans
             \/ k.to # snapshot[s] /\ trans' = Closed(InsertOrIgnore(trans, k, "open"), s, k)
      BY <2>1, TransitionStep
    <3> HIDE DEF k
    <3>2. snapshot \in [Scopes -> State] /\ DOMAIN trans \subseteq Key
      BY DEF TypeInv, TypeOK
    <3>3. \A j \in DOMAIN trans : j.scope \in Scopes
      BY <3>2 DEF Key
    <3>4. snapshot'[s] = k.to /\ \A r \in Scopes \ {s} : snapshot'[r] = snapshot[r]
      BY <3>1, <3>2
    <3>5. CASE UNCHANGED trans /\ k.to = snapshot[s]
      BY <3>3, <3>4, <3>5 DEF OpenTransitionIsCurrent
    <3>6. CASE k.to # snapshot[s] /\ trans' = Closed(InsertOrIgnore(trans, k, "open"), s, k)
      <4>1. /\ DOMAIN trans' = DOMAIN trans \cup {k}
            /\ \A j \in DOMAIN trans' : j.scope = s /\ j # k => trans'[j] = "closed"
            /\ \A j \in DOMAIN trans : j.scope # s => trans'[j] = trans[j]
        BY <3>1, <3>6 DEF Closed, InsertOrIgnore
      <4>2. QED
        BY <3>1, <3>3, <3>4, <4>1 DEF OpenTransitionIsCurrent
    <3>7. QED
      BY <3>1, <3>5, <3>6
  <2>2. CASE ~ \E s \in todo, ev \in Evaluations : SaveEvaluation(s, ev)
    BY <2>2, OtherSteps DEF SnapshotsStay, OpenTransitionIsCurrent
  <2>3. QED
    BY <2>1, <2>2
<1>3. Spec => []TypeInv
  BY TypeInit, TypeStep, PTL DEF Spec
<1>4. QED
  BY <1>1, <1>2, <1>3, PTL DEF Spec

\* Every queued message carries the template of the state its transition led to.
TemplateMatches == \A k \in DOMAIN queue : StateOf(queue[k].template) = k.to

\* Every row carries the template of the state its transition leads to.
LEMMA TemplatesMatch == Spec => []TemplateMatches
<1>1. Init => TemplateMatches
  BY DEF Init, EmptyTable, TemplateMatches
<1>2. TypeInv /\ TemplateMatches /\ [Next]_vars => TemplateMatches'
  <2> SUFFICES ASSUME TypeInv, TemplateMatches, [Next]_vars PROVE TemplateMatches'
    OBVIOUS
  <2>1. ASSUME NEW s \in todo, NEW ev \in Evaluations, SaveEvaluation(s, ev)
        PROVE  TemplateMatches'
    <3> DEFINE k == [scope |-> s, from |-> snapshot[s], to |-> ev.state, observed |-> ev.observed]
    <3>1. k \in Key /\ (queue' = queue \/ queue' = Enqueue(queue, k))
      BY <2>1, TransitionStep
    <3> HIDE DEF k
    <3>2. CASE queue' = Enqueue(queue, k)
      <4>1. /\ DOMAIN queue' \subseteq DOMAIN queue \cup {k}
            /\ \A j \in DOMAIN queue : queue'[j].template = queue[j].template
            /\ k \in DOMAIN queue' \ DOMAIN queue => StateOf(queue'[k].template) = k.to
        BY <3>1, <3>2, EnqueueEffect DEF TypeInv, TypeOK
      <4>2. QED
        BY <4>1 DEF TemplateMatches
    <3>3. CASE queue' = queue
      BY <3>3 DEF TemplateMatches
    <3>4. QED
      BY <3>1, <3>2, <3>3
  <2>2. CASE ~ \E s \in todo, ev \in Evaluations : SaveEvaluation(s, ev)
    BY <2>2, OtherSteps DEF QueueOnlySettles, TemplateMatches
  <2>3. QED
    BY <2>1, <2>2
<1>3. Spec => []TypeInv
  BY TypeInit, TypeStep, PTL DEF Spec
<1>4. QED
  BY <1>1, <1>2, <1>3, PTL DEF Spec

\* A recovery that is about to be cancelled has the outage beside it in the queue.
CancelledHasPartner ==
    pc = "cancel" => \A k \in current : \E j \in DOMAIN queue : j # k /\ SameThread(j, k)

\* The partner was kept by the loop when the recovery met it.
LEMMA PartnerStep == TypeInv /\ CancelledHasPartner /\ [Next]_vars => CancelledHasPartner'
<1> SUFFICES ASSUME TypeInv, CancelledHasPartner, [Next]_vars, pc' = "cancel"
             PROVE  \A k \in current' : \E j \in DOMAIN queue' : j # k /\ SameThread(j, k)'
  BY DEF CancelledHasPartner
<1>1. CASE UNCHANGED vars
  BY <1>1 DEF vars, runVars, dbVars, CancelledHasPartner, SameThread
<1>2. ASSUME NEW k \in batch, Collapse(k)
      PROVE  \A i \in current' : \E j \in DOMAIN queue' : j # i /\ SameThread(j, i)'
  <2>1. PICK j \in newest : SameThread(j, k)
    BY <1>2 DEF Collapse
  <2>2. k \in DOMAIN queue /\ j \in DOMAIN queue /\ j # k
    BY <1>2, <2>1 DEF TypeInv, BatchIsPending, Collapse, Due
  <2>3. /\ DOMAIN queue' = DOMAIN queue
        /\ \A i \in DOMAIN queue : queue'[i].dest = queue[i].dest
    BY <1>2, SupersedeType DEF Collapse, TypeInv, TypeOK
  <2>4. current' \subseteq {k}
    BY <1>2 DEF Collapse
  <2>5. QED
    BY <2>1, <2>2, <2>3, <2>4 DEF SameThread
<1>3. UNCHANGED vars \/ \E k \in batch : Collapse(k)
  BY DEF Next, Step, Deliver, StartRun, SaveEvaluation, WriteEvent, SelectDue, CancelRecovery, Send,
         Record, FinishRun, Crash, Horizon
<1>4. QED
  BY <1>1, <1>2, <1>3

\* The messages of different servers never displace one another, however many
\* servers change state in a run and wherever it is cut short.
THEOREM YieldsToOwn == Spec => YieldsToOwnScope
<1>1. TypeInv /\ CancelledHasPartner /\ [Next]_vars => YieldsOnlyToOwnScope
  <2> SUFFICES ASSUME TypeInv, CancelledHasPartner, [Next]_vars, NEW k \in DOMAIN queue, Yields(k)
               PROVE  \/ snapshot'[k.scope] # snapshot[k.scope]
                      \/ \E j \in DOMAIN queue : j # k /\ SameThread(j, k)
    BY DEF YieldsOnlyToOwnScope
  <2>1. queue \in [DOMAIN queue -> Row] /\ queue' # queue
    BY DEF TypeInv, TypeOK, Yields
  <2>2. ASSUME NEW s \in todo, NEW ev \in Evaluations, SaveEvaluation(s, ev)
        PROVE  snapshot'[k.scope] # snapshot[k.scope]
    <3> DEFINE n == [scope |-> s, from |-> snapshot[s], to |-> ev.state, observed |-> ev.observed]
    <3>1. /\ s \in Scopes /\ n \in Key /\ n.scope = s /\ snapshot' = [snapshot EXCEPT ![s] = n.to]
          /\ n.to # snapshot[s] /\ queue' = Enqueue(queue, n)
      BY <2>1, <2>2, TransitionStep
    <3> HIDE DEF n
    <3>2. k \in PendingAdminNotices(queue, s)
      BY <3>1, EnqueueEffect DEF TypeInv, TypeOK, Yields
    <3>3. k.scope = s
      BY <3>2 DEF PendingAdminNotices, Rows
    <3>4. QED
      BY <3>1, <3>3 DEF TypeInv, TypeOK
  <2>3. ASSUME NEW n \in batch, Collapse(n)
        PROVE  \E j \in DOMAIN queue : j # k /\ SameThread(j, k)
    <3> DEFINE previous == {j \in newest : SameThread(j, n)}
    <3>1. queue' = Supersede(queue, previous)
      BY <2>3 DEF Collapse
    <3>2. k \in previous
      BY <2>1, <3>1, SupersedeType DEF Yields
    <3>3. n \in DOMAIN queue /\ n # k
      BY <2>3, <3>2 DEF TypeInv, BatchIsPending, Collapse, Due
    <3>4. QED
      BY <3>2, <3>3 DEF SameThread
  <2>4. CASE CancelRecovery
    <3>1. k \in current /\ pc = "cancel"
      BY <2>1, <2>4, SupersedeType DEF CancelRecovery, Yields
    <3>2. QED
      BY <3>1 DEF CancelledHasPartner
  <2>5. CASE Record
    <3>1. queue[k] \in Row
      BY <2>1
    <3>2. queue'[k].state # "superseded"
      BY <3>1, <2>5 DEF Record, Delivered, Postponed, Row, Yields
    <3>3. QED
      BY <3>2 DEF Yields
  <2>6. QED
    BY <2>1, <2>2, <2>3, <2>4, <2>5 DEF Next, Step, Deliver, StartRun, WriteEvent, SelectDue, Send,
       FinishRun, Crash, Horizon, vars, dbVars
<1>2. Init => CancelledHasPartner
  BY DEF Init, CancelledHasPartner
<1>3. Spec => []TypeInv
  BY TypeInit, TypeStep, PTL DEF Spec
<1>4. QED
  BY <1>1, <1>2, <1>3, PartnerStep, PTL DEF Spec, YieldsToOwnScope

\* What the administrator is sent is true when it is sent: the row is pending
\* (BatchIsPending), a pending notice is about the present state
\* (WaitingNoticeIsCurrent) and says so (TemplateMatches).
THEOREM AdminTruth == Spec => AdminHearsTheTruth
<1>1. TypeInv /\ WaitingNoticeIsCurrent /\ TemplateMatches /\ [Next]_vars => TellsAdminTheTruth
  <2> SUFFICES ASSUME TypeInv, WaitingNoticeIsCurrent, TemplateMatches, [Next]_vars, Sends,
                      NEW k \in current', queue[k].dest = "admin"
               PROVE  StateOf(queue[k].template) = snapshot[k.scope]
    BY DEF TellsAdminTheTruth
  <2>1. k \in newest
    BY DEF Sends, Next, Step, Deliver, StartRun, SaveEvaluation, WriteEvent, SelectDue, Collapse,
           CancelRecovery, Send, Record, FinishRun, Crash, Horizon, vars, runVars
  <2>2. k \in DOMAIN queue /\ queue[k].state = "pending" /\ k.scope \in Scopes
    BY <2>1 DEF TypeInv, TypeOK, BatchIsPending, Sends, Due, Key
  <2>3. k \in PendingAdminNotices(queue, k.scope)
    BY <2>2 DEF PendingAdminNotices, Rows
  <2>4. QED
    BY <2>2, <2>3 DEF WaitingNoticeIsCurrent, TemplateMatches
<1>2. Spec => []TypeInv
  BY TypeInit, TypeStep, PTL DEF Spec
<1>3. QED
  BY <1>1, <1>2, WaitingNotice, TemplatesMatch, PTL DEF Spec, AdminHearsTheTruth

-----------------------------------------------------------------------------
(* The rows in detail: when they were made, when they are due and how often *)
(* they were tried.                                                         *)

\* The row save_evaluation adds is untried and pending; for the group it is due
\* at once and says what the group has not heard, a quiet notice is held unless
\* enough notices were dropped before.
LEMMA EnqueueRow ==
    ASSUME NEW k \in Key, now \in Nat, DOMAIN queue \subseteq Key, queue \in [DOMAIN queue -> Row]
    PROVE  LET q == Enqueue(queue, k)
               cleared == Supersede(queue, PendingAdminNotices(queue, k.scope))
           IN  /\ \A j \in DOMAIN queue : q[j] = cleared[j]
               /\ k \in DOMAIN q \ DOMAIN queue =>
                    /\ q[k].state = "pending" /\ q[k].attempts = 0 /\ q[k].created = now
                    /\ q[k].dest = "group" =>
                         /\ q[k].next = now
                         /\ q[k].template = IF GroupAlerted(cleared, k.scope)
                                            THEN "bot.recovered" ELSE "bot.unavailable"
                    /\ \/ ~(q[k].dest = "admin" /\ q[k].template \in QUIET_TEMPLATES)
                       \/ q[k].next = now + Quiet
                       \/ ~(DroppedNotices(cleared, k.scope, now - FlapWindow) < FLAP_NOTICE_AFTER)
<1> DEFINE waiting == PendingAdminNotices(queue, k.scope)
           cleared == Supersede(queue, waiting)
           alerted == GroupAlerted(cleared, k.scope)
           target == NotificationFor(k.from, k.to, alerted)
           held == /\ target[1] = "admin" /\ target[2] \in QUIET_TEMPLATES
                   /\ DroppedNotices(cleared, k.scope, now - FlapWindow) < FLAP_NOTICE_AFTER
           due == IF held THEN now + Quiet ELSE now
           row == [dest |-> target[1], template |-> target[2], state |-> "pending", attempts |-> 0,
                   next |-> due, created |-> now]
           q == Enqueue(queue, k)
<1>1. DOMAIN cleared = DOMAIN queue
  BY SupersedeType
<1>2. q = cleared \/ q = InsertOrIgnore(cleared, k, row)
  BY DEF Enqueue
<1>3. target[1] = "group" => target[2] = IF alerted THEN "bot.recovered" ELSE "bot.unavailable"
  BY DEF NotificationFor, NoTarget
<1>4. /\ target[1] = "group" => due = now
      /\ \/ ~(target[1] = "admin" /\ target[2] \in QUIET_TEMPLATES)
         \/ due = now + Quiet
         \/ ~(DroppedNotices(cleared, k.scope, now - FlapWindow) < FLAP_NOTICE_AFTER)
  <2> HIDE DEF cleared, target
  <2> QED OBVIOUS
<1> HIDE DEF due, target, cleared, alerted, waiting
<1>5. /\ row.state = "pending" /\ row.attempts = 0 /\ row.created = now
      /\ row.dest = target[1] /\ row.template = target[2] /\ row.next = due
  OBVIOUS
<1> HIDE DEF row
<1>6. CASE q = cleared
  <2>1. k \notin DOMAIN q \ DOMAIN queue
    BY <1>1, <1>6
  <2>2. \A j \in DOMAIN queue : q[j] = cleared[j]
    BY <1>6
  <2>3. QED
    BY <2>1, <2>2 DEF cleared, waiting
<1>7. CASE q = InsertOrIgnore(cleared, k, row)
  <2>1. /\ \A j \in DOMAIN queue : q[j] = cleared[j]
        /\ k \notin DOMAIN queue => q[k] = row
    BY <1>1, <1>7 DEF InsertOrIgnore
  <2> HIDE DEF q
  <2>2. k \notin DOMAIN queue =>
          /\ q[k].state = "pending" /\ q[k].attempts = 0 /\ q[k].created = now
          /\ q[k].dest = "group" =>
               /\ q[k].next = now
               /\ q[k].template = IF alerted THEN "bot.recovered" ELSE "bot.unavailable"
          /\ \/ ~(q[k].dest = "admin" /\ q[k].template \in QUIET_TEMPLATES)
             \/ q[k].next = now + Quiet
             \/ ~(DroppedNotices(cleared, k.scope, now - FlapWindow) < FLAP_NOTICE_AFTER)
    BY <2>1, <1>3, <1>4, <1>5
  <2>3. QED
    BY <2>1, <2>2 DEF q, cleared, waiting, alerted
<1>8. QED
  BY <1>2, <1>6, <1>7

\* What a step other than save_evaluation may do to one row: nothing, supersede it
\* while it waits, or store the answer of the messenger.
RowStep(k) ==
    \/ queue'[k] = queue[k]
    \/ /\ queue[k].state = "pending" /\ queue'[k].state = "superseded"
       /\ queue'[k].attempts = queue[k].attempts /\ queue'[k].created = queue[k].created
    \/ /\ pc = "record" /\ k \in current /\ queue[k].state = "pending" /\ queue[k].next <= now
       /\ queue'[k].attempts = queue[k].attempts + 1 /\ queue'[k].created = queue[k].created
       /\ IF ok THEN queue'[k].state = "sent"
          ELSE queue'[k].state \in {"pending", "failed"} /\ queue'[k].next >= now

\* Every row of the queue goes through one of these.
LEMMA OtherRows ==
    ASSUME TypeInv, [Next]_vars, ~ \E s \in todo, ev \in Evaluations : SaveEvaluation(s, ev),
           NEW k \in DOMAIN queue
    PROVE  RowStep(k)
<1>1. queue \in [DOMAIN queue -> Row] /\ queue[k] \in Row /\ now \in Nat
  BY DEF TypeInv, TypeOK
<1>2. ASSUME NEW n \in batch, Collapse(n) PROVE RowStep(k)
  <2> DEFINE previous == {j \in newest : SameThread(j, n)}
  <2>1. previous \subseteq Due(queue) /\ queue' = Supersede(queue, previous)
    BY <1>2 DEF TypeInv, BatchIsPending, Collapse
  <2>2. QED
    BY <1>1, <2>1, SupersedeType DEF RowStep, Due
<1>3. CASE CancelRecovery
  <2>1. current \subseteq Due(queue) /\ queue' = Supersede(queue, current)
    BY <1>3 DEF TypeInv, BatchIsPending, CancelRecovery
  <2>2. QED
    BY <1>1, <2>1, SupersedeType DEF RowStep, Due
<1>4. CASE Record
  <2>1. current \subseteq Due(queue) /\ pc = "record"
    BY <1>4 DEF TypeInv, BatchIsPending, Record
  <2>2. CASE k \notin current
    BY <1>4, <2>2 DEF Record, RowStep
  <2>3. CASE k \in current /\ ok
    <3>1. queue'[k] = Delivered(queue[k])
      BY <1>4, <2>3 DEF Record
    <3>2. QED
      BY <1>1, <2>1, <2>3, <3>1 DEF Delivered, RowStep, Due, Row
  <2>4. CASE k \in current /\ ~ok
    <3>1. queue'[k] = Postponed(queue[k])
      BY <1>4, <2>4 DEF Record
    <3>2. queue[k].attempts + 1 \in Nat
      BY <1>1 DEF Row
    <3>3. Backoff * (queue[k].attempts + 1) \in Nat
      BY <3>2, ConstantTypes, ProductType
    <3> DEFINE wait == Backoff * (queue[k].attempts + 1)
    <3>4. /\ queue'[k].attempts = queue[k].attempts + 1 /\ queue'[k].created = queue[k].created
          /\ queue'[k].next = now + wait /\ queue'[k].state \in {"pending", "failed"}
      BY <1>1, <3>1 DEF Postponed, Row
    <3> HIDE DEF wait
    <3>5. now + wait >= now
      BY <1>1, <3>3 DEF wait
    <3>6. QED
      BY <2>1, <2>4, <3>4, <3>5 DEF RowStep, Due
  <2>5. QED
    BY <2>2, <2>3, <2>4
<1>5. CASE UNCHANGED queue
  BY <1>5 DEF RowStep
<1>6. QED
  BY <1>2, <1>3, <1>4, <1>5 DEF Next, Step, Deliver, StartRun, WriteEvent, SelectDue, Send,
     FinishRun, Crash, Horizon, vars, dbVars

\* The queue is finite, no row is from the future, and a scope that this run has
\* still to evaluate has no row of this run.
RowTimes ==
    /\ IsFiniteSet(DOMAIN queue)
    /\ \A k \in DOMAIN queue : /\ queue[k].created <= now
                               /\ k.scope \in todo => queue[k].created < now

\* Each run reads a later clock than the one before, however that one ended.
LEMMA RowTimesStep == TypeInv /\ RowTimes /\ [Next]_vars => RowTimes'
<1> SUFFICES ASSUME TypeInv, RowTimes, [Next]_vars PROVE RowTimes'
  OBVIOUS
<1>1. /\ queue \in [DOMAIN queue -> Row] /\ now \in Nat
      /\ \A k \in DOMAIN queue : queue[k].created \in Nat
  BY DEF TypeInv, TypeOK, Row
<1>2. ASSUME NEW s \in todo, NEW ev \in Evaluations, SaveEvaluation(s, ev)
      PROVE  RowTimes'
  <2> DEFINE k == [scope |-> s, from |-> snapshot[s], to |-> ev.state, observed |-> ev.observed]
  <2>1. k \in Key /\ k.scope = s /\ (queue' = queue \/ queue' = Enqueue(queue, k))
    BY <1>2, TransitionStep
  <2>2. now' = now /\ todo' = todo \ {s}
    BY <1>2 DEF SaveEvaluation
  <2> HIDE DEF k
  <2>3. CASE queue' = queue
    BY <2>2, <2>3 DEF RowTimes
  <2>4. CASE queue' = Enqueue(queue, k)
    <3>1. DOMAIN queue \subseteq DOMAIN queue' /\ DOMAIN queue' \subseteq DOMAIN queue \cup {k}
      BY <2>1, <2>4, EnqueueEffect DEF TypeInv, TypeOK
    <3>2. /\ \A j \in DOMAIN queue :
               queue'[j] = Supersede(queue, PendingAdminNotices(queue, k.scope))[j]
          /\ k \in DOMAIN queue' \ DOMAIN queue => queue'[k].created = now
      BY <2>1, <2>4, EnqueueRow DEF TypeInv, TypeOK
    <3>3. \A j \in DOMAIN queue : queue'[j].created = queue[j].created
      BY <1>1, <3>2, SupersedeType
    <3>4. IsFiniteSet(DOMAIN queue')
      BY <3>1, FS_AddElement, FS_Subset DEF RowTimes
    <3>5. QED
      BY <1>1, <2>1, <2>2, <3>1, <3>2, <3>3, <3>4 DEF RowTimes
  <2>5. QED
    BY <2>1, <2>3, <2>4
<1>3. CASE ~ \E s \in todo, ev \in Evaluations : SaveEvaluation(s, ev)
  <2>1. DOMAIN queue' = DOMAIN queue
    BY <1>3, OtherSteps DEF QueueOnlySettles
  <2>2. \A k \in DOMAIN queue : queue'[k].created = queue[k].created
    BY <1>3, OtherRows DEF RowStep
  <2>3. (now' = now /\ todo' \subseteq todo) \/ now' = now + 1
    BY <1>3 DEF Next, Step, Deliver, StartRun, WriteEvent, SelectDue, Collapse, CancelRecovery, Send,
       Record, FinishRun, Crash, Horizon, vars, runVars
  <2>4. QED
    BY <1>1, <2>1, <2>2, <2>3 DEF RowTimes
<1>4. QED
  BY <1>2, <1>3

\* The times of the rows, for the proofs below.
LEMMA RowTimesHold == Spec => [](TypeInv /\ RowTimes)
<1>1. Init => RowTimes
  BY FS_EmptySet DEF Init, EmptyTable, RowTimes
<1>2. QED
  BY <1>1, RowTimesStep, TypeInit, TypeStep, PTL DEF Spec

-----------------------------------------------------------------------------
(* The hold of quiet notices *)

\* A waiting quiet notice is held for Quiet, or enough notices were dropped before
\* it was made.  HoldIsKept speaks of the moment of sending only; the invariant says
\* it of the whole wait, because a postponed notice is due again at a later time.
HoldInv ==
    \A k \in DOMAIN queue :
        queue[k].dest = "admin" /\ queue[k].template \in QUIET_TEMPLATES /\ queue[k].state = "pending"
        => \/ queue[k].next >= queue[k].created + Quiet
           \/ Cardinality(DroppedBefore(k)) >= FLAP_NOTICE_AFTER

\* Dropped notices stay dropped, so their number only grows.
LEMMA DroppedGrows ==
    ASSUME NEW k \in DOMAIN queue, DOMAIN queue \subseteq DOMAIN queue',
           IsFiniteSet(DOMAIN queue), IsFiniteSet(DOMAIN queue'), KeepsSettledRows,
           queue'[k].created = queue[k].created,
           Cardinality(DroppedBefore(k)) >= FLAP_NOTICE_AFTER
    PROVE  Cardinality(DroppedBefore(k)') >= FLAP_NOTICE_AFTER
<1> DEFINE D == DroppedBefore(k)
           E == DroppedBefore(k)'
<1>1. D \subseteq DOMAIN queue /\ E \subseteq DOMAIN queue'
  BY DEF DroppedBefore, Rows
<1>2. D \subseteq E
  BY DEF DroppedBefore, Rows, KeepsSettledRows
<1> HIDE DEF D, E
<1>3. IsFiniteSet(D) /\ IsFiniteSet(E)
  BY <1>1, FS_Subset
<1>4. Cardinality(D) <= Cardinality(E) /\ Cardinality(D) \in Nat /\ Cardinality(E) \in Nat
  BY <1>2, <1>3, FS_Subset, FS_CardinalityType
<1>5. Cardinality(D) >= FLAP_NOTICE_AFTER
  BY DEF D
<1>6. Cardinality(E) >= FLAP_NOTICE_AFTER
  BY <1>4, <1>5, ConstantTypes
<1>7. QED
  BY <1>6 DEF E

\* The notices counted when a new one is made are older than it: the scope had not
\* been evaluated in this run.
LEMMA DroppedAtCreation ==
    ASSUME TypeInv, RowTimes, RowTimes', NEW k \in Key, k.scope \in todo, k \notin DOMAIN queue,
           queue' = Enqueue(queue, k), k \in DOMAIN queue', queue'[k].created = now,
           ~(DroppedNotices(Supersede(queue, PendingAdminNotices(queue, k.scope)), k.scope,
                            now - FlapWindow) < FLAP_NOTICE_AFTER)
    PROVE  Cardinality(DroppedBefore(k)') >= FLAP_NOTICE_AFTER
<1> DEFINE cleared == Supersede(queue, PendingAdminNotices(queue, k.scope))
           D == {j \in Rows(cleared, k.scope, "admin", {"superseded"}) : cleared[j].created >= now - FlapWindow}
           E == DroppedBefore(k)'
<1>1. queue \in [DOMAIN queue -> Row] /\ DOMAIN queue \subseteq Key /\ now \in Nat
  BY DEF TypeInv, TypeOK
<1>2. /\ DOMAIN cleared = DOMAIN queue
      /\ \A j \in DOMAIN queue : cleared[j].created = queue[j].created
  BY <1>1, SupersedeType
<1>3. DOMAIN queue \subseteq DOMAIN queue'
  BY <1>1, EnqueueEffect
<1>4. \A j \in DOMAIN queue : queue'[j] = cleared[j]
  BY <1>1, EnqueueRow
<1>5. \A j \in DOMAIN queue : queue[j].created \in Nat
  BY <1>1 DEF Row
<1> HIDE DEF cleared
<1>6. D \subseteq E
  <2> SUFFICES ASSUME NEW j \in D PROVE j \in E
    OBVIOUS
  <2>1. /\ j \in DOMAIN queue /\ j.scope = k.scope /\ cleared[j].dest = "admin"
        /\ cleared[j].state = "superseded" /\ cleared[j].created >= now - FlapWindow
    BY <1>2 DEF Rows
  <2>2. queue[j].created < now /\ queue[j].created \in Nat
    BY <2>1, <1>5 DEF RowTimes
  <2>3. cleared[j].created \in (now - FlapWindow)..(now - 1)
    BY <1>1, <1>2, <2>1, <2>2, ConstantTypes
  <2>4. /\ j \in DOMAIN queue' /\ queue'[j].dest = "admin" /\ queue'[j].state = "superseded"
        /\ queue'[j].created \in (queue'[k].created - FlapWindow)..(queue'[k].created - 1)
    BY <1>3, <1>4, <2>1, <2>3
  <2>5. QED
    BY <2>1, <2>4 DEF DroppedBefore, Rows
<1>7. E \subseteq DOMAIN queue'
  BY DEF DroppedBefore, Rows
<1>8. ~(Cardinality(D) < FLAP_NOTICE_AFTER)
  BY DEF DroppedNotices, cleared
<1> HIDE DEF D, E
<1>9. IsFiniteSet(E)
  BY <1>7, FS_Subset DEF RowTimes
<1>10. Cardinality(D) <= Cardinality(E) /\ Cardinality(D) \in Nat /\ Cardinality(E) \in Nat
  BY <1>6, <1>9, FS_Subset, FS_CardinalityType
<1>11. Cardinality(E) >= FLAP_NOTICE_AFTER
  BY <1>8, <1>10, ConstantTypes
<1>12. QED
  BY <1>11 DEF E

\* Making, superseding, sending and postponing notices keeps the hold.
LEMMA HoldStep ==
    TypeInv /\ RowTimes /\ RowTimes' /\ HoldInv /\ KeepsSettledRows /\ [Next]_vars => HoldInv'
<1> SUFFICES ASSUME TypeInv, RowTimes, RowTimes', HoldInv, KeepsSettledRows, [Next]_vars,
                    NEW k \in DOMAIN queue', queue'[k].dest = "admin",
                    queue'[k].template \in QUIET_TEMPLATES, queue'[k].state = "pending"
             PROVE  \/ queue'[k].next >= queue'[k].created + Quiet
                    \/ Cardinality(DroppedBefore(k)') >= FLAP_NOTICE_AFTER
  BY DEF HoldInv
<1>1. queue \in [DOMAIN queue -> Row] /\ DOMAIN queue \subseteq Key /\ now \in Nat
  BY DEF TypeInv, TypeOK
<1>2. ASSUME k \in DOMAIN queue, queue'[k] = queue[k], DOMAIN queue \subseteq DOMAIN queue'
      PROVE  \/ queue'[k].next >= queue'[k].created + Quiet
             \/ Cardinality(DroppedBefore(k)') >= FLAP_NOTICE_AFTER
  BY <1>2, DroppedGrows DEF HoldInv, RowTimes
<1>3. ASSUME NEW s \in todo, NEW ev \in Evaluations, SaveEvaluation(s, ev)
      PROVE  \/ queue'[k].next >= queue'[k].created + Quiet
             \/ Cardinality(DroppedBefore(k)') >= FLAP_NOTICE_AFTER
  <2> DEFINE n == [scope |-> s, from |-> snapshot[s], to |-> ev.state, observed |-> ev.observed]
  <2>1. n \in Key /\ n.scope = s /\ (queue' = queue \/ queue' = Enqueue(queue, n))
    BY <1>3, TransitionStep
  <2> HIDE DEF n
  <2>2. CASE queue' = queue
    BY <1>2, <2>2
  <2>3. CASE queue' = Enqueue(queue, n)
    <3>1. /\ DOMAIN queue \subseteq DOMAIN queue' /\ DOMAIN queue' \subseteq DOMAIN queue \cup {n}
          /\ \A j \in DOMAIN queue : j \notin PendingAdminNotices(queue, n.scope) => queue'[j] = queue[j]
          /\ \A j \in PendingAdminNotices(queue, n.scope) : queue'[j].state = "superseded"
      BY <1>1, <2>1, <2>3, EnqueueEffect
    <3>2. CASE k \in DOMAIN queue
      BY <1>2, <3>1, <3>2
    <3>3. CASE k \notin DOMAIN queue
      <4>1. k = n
        BY <3>1, <3>3
      <4>2. /\ queue'[k].created = now
            /\ \/ queue'[k].next = now + Quiet
               \/ ~(DroppedNotices(Supersede(queue, PendingAdminNotices(queue, k.scope)), k.scope,
                                   now - FlapWindow) < FLAP_NOTICE_AFTER)
        BY <1>1, <2>1, <2>3, <3>3, <4>1, EnqueueRow
      <4>3. CASE queue'[k].next = now + Quiet
        BY <1>1, <4>2, <4>3, ConstantTypes
      <4>4. CASE ~(DroppedNotices(Supersede(queue, PendingAdminNotices(queue, k.scope)), k.scope,
                                  now - FlapWindow) < FLAP_NOTICE_AFTER)
        BY <2>1, <2>3, <3>3, <4>1, <4>2, <4>4, DroppedAtCreation
      <4>5. QED
        BY <4>2, <4>3, <4>4
    <3>4. QED
      BY <3>2, <3>3
  <2>4. QED
    BY <2>1, <2>2, <2>3
<1>4. CASE ~ \E s \in todo, ev \in Evaluations : SaveEvaluation(s, ev)
  <2>1. /\ DOMAIN queue' = DOMAIN queue
        /\ queue'[k].dest = queue[k].dest /\ queue'[k].template = queue[k].template
    BY <1>4, OtherSteps DEF QueueOnlySettles
  <2>2. RowStep(k)
    BY <1>4, <2>1, OtherRows
  <2>3. CASE queue'[k] = queue[k]
    BY <1>2, <2>1, <2>3
  <2>4. CASE queue'[k] # queue[k]
    <3>1. /\ queue[k].state = "pending" /\ queue[k].next <= now
          /\ queue'[k].created = queue[k].created /\ queue'[k].next >= now
      BY <2>2, <2>4 DEF RowStep
    <3>2. \/ queue[k].next >= queue[k].created + Quiet
          \/ Cardinality(DroppedBefore(k)) >= FLAP_NOTICE_AFTER
      BY <2>1, <3>1 DEF HoldInv
    <3>3. queue[k].next \in Nat /\ queue[k].created \in Nat /\ queue'[k].next \in Nat
      BY <1>1, <2>1, TypeStep DEF TypeInv, TypeOK, Row
    <3>4. CASE queue[k].next >= queue[k].created + Quiet
      BY <1>1, <3>1, <3>3, <3>4, ConstantTypes
    <3>5. CASE Cardinality(DroppedBefore(k)) >= FLAP_NOTICE_AFTER
      BY <2>1, <3>1, <3>5, DroppedGrows DEF RowTimes
    <3>6. QED
      BY <3>2, <3>4, <3>5
  <2>5. QED
    BY <2>3, <2>4
<1>5. QED
  BY <1>3, <1>4

\* The administrator hears of degraded or unknown only once it has lasted Quiet,
\* unless FLAP_NOTICE_AFTER notices of the scope were dropped within FlapWindow.
THEOREM HoldKept == Spec => HoldIsKept
<1>1. Init => HoldInv
  BY DEF Init, EmptyTable, HoldInv
<1>2. TypeInv /\ RowTimes /\ HoldInv /\ [Next]_vars =>
        (Sends => \A k \in current' :
           /\ queue[k].dest = "admin" /\ queue[k].template \in QUIET_TEMPLATES
           /\ Cardinality(DroppedBefore(k)) < FLAP_NOTICE_AFTER
           => now >= queue[k].created + Quiet)
  <2> SUFFICES ASSUME TypeInv, RowTimes, HoldInv, [Next]_vars, Sends, NEW k \in current',
                      queue[k].dest = "admin", queue[k].template \in QUIET_TEMPLATES,
                      Cardinality(DroppedBefore(k)) < FLAP_NOTICE_AFTER
               PROVE  now >= queue[k].created + Quiet
    OBVIOUS
  <2>1. k \in newest
    BY DEF Sends, Next, Step, Deliver, StartRun, SaveEvaluation, WriteEvent, SelectDue, Collapse,
           CancelRecovery, Send, Record, FinishRun, Crash, Horizon, vars, runVars
  <2>2. k \in DOMAIN queue /\ queue[k].state = "pending" /\ queue[k].next <= now
    BY <2>1 DEF TypeInv, BatchIsPending, Sends, Due
  <2>3. \/ queue[k].next >= queue[k].created + Quiet
        \/ Cardinality(DroppedBefore(k)) >= FLAP_NOTICE_AFTER
    BY <2>2 DEF HoldInv
  <2>4. queue[k].next \in Nat /\ queue[k].created \in Nat /\ now \in Nat
    BY <2>2 DEF TypeInv, TypeOK, Row
  <2>5. Cardinality(DroppedBefore(k)) \in Nat
    <3>1. DroppedBefore(k) \subseteq DOMAIN queue
      BY DEF DroppedBefore, Rows
    <3>2. QED
      BY <3>1, FS_Subset, FS_CardinalityType DEF RowTimes
  <2>6. QED
    BY <2>2, <2>3, <2>4, <2>5, ConstantTypes
<1>3. Spec => [][KeepsSettledRows]_vars
  BY SettledRows DEF SettledRowsStay
<1>4. HoldInv /\ UNCHANGED vars => HoldInv'
  BY DEF HoldInv, vars, dbVars, DroppedBefore, Rows
<1>5. QED
  BY <1>1, <1>2, <1>3, <1>4, HoldStep, RowTimesHold, PTL DEF Spec, HoldIsKept

-----------------------------------------------------------------------------
(* Resends *)

\* What was heard is a row of the queue, and while no run was cut short a heard row
\* that still waits was tried before, or its answer is being written down.
HeardInv ==
    /\ heard \subseteq DOMAIN queue
    /\ crashes = 0 => \A k \in heard :
         queue[k].state = "pending" => queue[k].attempts > 0 \/ (pc = "record" /\ k \in current)

\* Sending makes a row heard and Record counts the attempt or settles the row.
LEMMA HeardStep == TypeInv /\ HeardInv /\ [Next]_vars => HeardInv'
<1> SUFFICES ASSUME TypeInv, HeardInv, [Next]_vars PROVE HeardInv'
  OBVIOUS
<1>1. /\ queue \in [DOMAIN queue -> Row] /\ DOMAIN queue \subseteq Key /\ now \in Nat /\ crashes \in Nat
      /\ \A k \in DOMAIN queue : queue[k].attempts \in Nat
  BY DEF TypeInv, TypeOK, Row
<1>2. ASSUME NEW s \in todo, NEW ev \in Evaluations, SaveEvaluation(s, ev)
      PROVE  HeardInv'
  <2> DEFINE n == [scope |-> s, from |-> snapshot[s], to |-> ev.state, observed |-> ev.observed]
  <2>1. n \in Key /\ (queue' = queue \/ queue' = Enqueue(queue, n))
    BY <1>2, TransitionStep
  <2>2. heard' = heard /\ crashes' = crashes /\ pc = "evaluate"
    BY <1>2 DEF SaveEvaluation
  <2> HIDE DEF n
  <2>3. CASE queue' = queue
    BY <2>2, <2>3 DEF HeardInv
  <2>4. CASE queue' = Enqueue(queue, n)
    <3>1. /\ DOMAIN queue \subseteq DOMAIN queue'
          /\ \A j \in DOMAIN queue : j \notin PendingAdminNotices(queue, n.scope) => queue'[j] = queue[j]
          /\ \A j \in PendingAdminNotices(queue, n.scope) : queue'[j].state = "superseded"
      BY <1>1, <2>1, <2>4, EnqueueEffect
    <3>2. QED
      BY <2>2, <3>1 DEF HeardInv
  <2>5. QED
    BY <2>1, <2>3, <2>4
<1>3. ASSUME NEW k \in newest, NEW outcome \in Outcomes, Send(k, outcome)
      PROVE  HeardInv'
  <2>1. k \in DOMAIN queue
    BY <1>3 DEF TypeInv, BatchIsPending, Send, Due
  <2>2. /\ heard' \subseteq heard \cup {k} /\ queue' = queue /\ crashes' = crashes
        /\ pc = "deliver" /\ pc' = "record" /\ current' = {k}
    BY <1>3 DEF Send, dbVars
  <2>3. QED
    BY <2>1, <2>2 DEF HeardInv
<1>4. CASE /\ ~ \E s \in todo, ev \in Evaluations : SaveEvaluation(s, ev)
           /\ ~ \E k \in newest, outcome \in Outcomes : Send(k, outcome)
  <2>1. DOMAIN queue' = DOMAIN queue /\ \A k \in DOMAIN queue : RowStep(k)
    BY <1>4, OtherSteps, OtherRows DEF QueueOnlySettles
  <2>2. /\ heard' = heard /\ (crashes' = 0 => crashes = 0)
        /\ \/ Record
           \/ pc # "record" \/ crashes' # 0
           \/ UNCHANGED <<pc, current, queue>>
    <3>1. CASE Record
      BY <3>1 DEF Record
    <3>2. CASE Crash
      <4>1. heard' = heard /\ crashes' = crashes + 1
        BY <3>2 DEF Crash
      <4>2. crashes' # 0
        BY <1>1, <4>1
      <4>3. QED
        BY <4>1, <4>2
    <3>3. CASE UNCHANGED vars
      BY <3>3 DEF vars, runVars, dbVars
    <3>4. CASE heard' = heard /\ crashes' = crashes /\ pc # "record"
      BY <3>4
    <3>5. QED
      BY <1>4, <3>1, <3>2, <3>3, <3>4 DEF Next, Step, Deliver, StartRun, WriteEvent, SelectDue,
         Collapse, CancelRecovery, FinishRun, Horizon
  <2>3. ASSUME crashes' = 0, NEW k \in heard, queue'[k].state = "pending"
        PROVE  queue'[k].attempts > 0 \/ (pc' = "record" /\ k \in current')
    <3>1. k \in DOMAIN queue /\ RowStep(k) /\ crashes = 0
      BY <2>1, <2>2, <2>3 DEF HeardInv
    <3>2. CASE queue'[k] = queue[k]
      <4>1. queue[k].attempts > 0 \/ (pc = "record" /\ k \in current)
        BY <2>3, <3>1, <3>2 DEF HeardInv
      <4>2. CASE queue[k].attempts > 0
        BY <3>2, <4>2
      <4>3. CASE pc = "record" /\ k \in current /\ Record
        <5>1. queue[k] \in Row /\ queue'[k] = IF ok THEN Delivered(queue[k]) ELSE Postponed(queue[k])
          BY <1>1, <3>1, <4>3 DEF Record
        <5>2. queue'[k].attempts = queue[k].attempts + 1
          BY <5>1 DEF Delivered, Postponed, Row
        <5>3. QED
          BY <1>1, <3>1, <5>2
      <4>4. CASE UNCHANGED <<pc, current, queue>>
        BY <4>1, <4>4
      <4>5. QED
        BY <2>2, <2>3, <4>1, <4>2, <4>3, <4>4
    <3>3. CASE queue'[k] # queue[k]
      BY <1>1, <2>3, <3>1, <3>3 DEF RowStep
    <3>4. QED
      BY <3>2, <3>3
  <2>4. QED
    BY <2>1, <2>2, <2>3 DEF HeardInv
<1>5. QED
  BY <1>2, <1>3, <1>4

\* A restart over the same database resends nothing that was recorded: a message
\* reaches its destination twice only if a send of it failed as far as the worker
\* could tell, or a run was cut short.
THEOREM NoNeedlessResend == Spec => ResendsOnlyUnrecorded
<1>1. Init => HeardInv
  BY DEF Init, HeardInv
<1>2. TypeInv /\ HeardInv /\ [Next]_vars =>
        (Sends => \A k \in current' \cap heard : queue[k].attempts > 0 \/ crashes > 0)
  <2> SUFFICES ASSUME TypeInv, HeardInv, [Next]_vars, Sends, NEW k \in current' \cap heard
               PROVE  queue[k].attempts > 0 \/ crashes > 0
    OBVIOUS
  <2>1. k \in newest
    BY DEF Sends, Next, Step, Deliver, StartRun, SaveEvaluation, WriteEvent, SelectDue, Collapse,
           CancelRecovery, Send, Record, FinishRun, Crash, Horizon, vars, runVars
  <2>2. queue[k].state = "pending" /\ pc = "deliver" /\ crashes \in Nat
    BY <2>1 DEF TypeInv, TypeOK, BatchIsPending, Sends, Due
  <2>3. QED
    BY <2>2 DEF HeardInv
<1>3. QED
  BY <1>1, <1>2, HeardStep, TypeInit, TypeStep, PTL DEF Spec, ResendsOnlyUnrecorded

-----------------------------------------------------------------------------
(* Events *)

\* The transitions without an event, the one that is about to be written apart.
Missing == DOMAIN trans \ (events \cup (IF pc = "event" THEN current ELSE {}))

\* No event is without its transition, and at most one transition per crash is
\* without its event.
EventsInv ==
    /\ IsFiniteSet(DOMAIN trans)
    /\ events \subseteq DOMAIN trans
    /\ pc = "event" => \E k \in DOMAIN trans : current = {k}
    /\ Cardinality(Missing) <= crashes

\* The number of missing events grows only when a crash falls between the two
\* transactions.
LEMMA EventsStep == TypeInv /\ EventsInv /\ [Next]_vars => EventsInv'
<1> SUFFICES ASSUME TypeInv, EventsInv, [Next]_vars PROVE EventsInv'
  OBVIOUS
<1>1. crashes \in Nat /\ IsFiniteSet(Missing) /\ Cardinality(Missing) \in Nat
  <2>1. Missing \subseteq DOMAIN trans
    BY DEF Missing
  <2>2. QED
    BY <2>1, FS_Subset, FS_CardinalityType DEF TypeInv, TypeOK, EventsInv
<1>2. ASSUME Missing' \subseteq Missing, crashes' \in Nat, crashes' >= crashes
      PROVE  Cardinality(Missing') <= crashes'
  <2>1. Cardinality(Missing') <= Cardinality(Missing) /\ Cardinality(Missing') \in Nat
    BY <1>1, <1>2, FS_Subset, FS_CardinalityType
  <2>2. QED
    BY <1>1, <1>2, <2>1 DEF EventsInv
<1>3. ASSUME NEW s \in todo, NEW ev \in Evaluations, SaveEvaluation(s, ev)
      PROVE  EventsInv'
  <2> DEFINE n == [scope |-> s, from |-> snapshot[s], to |-> ev.state, observed |-> ev.observed]
  <2>1. /\ UNCHANGED <<events, crashes>> /\ pc = "evaluate"
        /\ \/ UNCHANGED <<pc, current, trans>>
           \/ /\ trans' = Closed(InsertOrIgnore(trans, n, "open"), s, n)
              /\ pc' = "event" /\ current' = {n}
    BY <1>3 DEF SaveEvaluation
  <2> HIDE DEF n
  <2>2. CASE UNCHANGED <<pc, current, trans>>
    BY <2>1, <2>2 DEF EventsInv, Missing
  <2>3. CASE /\ trans' = Closed(InsertOrIgnore(trans, n, "open"), s, n)
             /\ pc' = "event" /\ current' = {n}
    <3>1. DOMAIN trans' = DOMAIN trans \cup {n}
      BY <2>3 DEF Closed, InsertOrIgnore
    <3>2. IsFiniteSet(DOMAIN trans')
      BY <3>1, FS_AddElement DEF EventsInv
    <3>3. Missing' \subseteq Missing
      BY <2>1, <2>3, <3>1 DEF Missing
    <3>4. Cardinality(Missing') <= crashes'
      BY <1>1, <1>2, <2>1, <3>3
    <3>5. QED
      BY <2>1, <2>3, <3>1, <3>2, <3>4 DEF EventsInv
  <2>4. QED
    BY <2>1, <2>2, <2>3
<1>4. CASE WriteEvent
  <2>1. UNCHANGED <<trans, crashes>> /\ pc = "event" /\ pc' = "evaluate" /\ events' = events \cup current
    BY <1>4 DEF WriteEvent
  <2>2. Missing' \subseteq Missing
    BY <2>1 DEF Missing
  <2>3. Cardinality(Missing') <= crashes'
    BY <1>1, <1>2, <2>1, <2>2
  <2>4. QED
    BY <2>1, <2>3 DEF EventsInv
<1>5. CASE Crash
  <2>1. UNCHANGED <<trans, events>> /\ pc' = "idle" /\ crashes' = crashes + 1
    BY <1>5 DEF Crash, dbVars
  <2>2. CASE pc # "event"
    <3>1. Missing' \subseteq Missing /\ crashes' \in Nat /\ crashes' >= crashes
      BY <1>1, <2>1, <2>2 DEF Missing
    <3>2. QED
      BY <1>2, <2>1, <3>1 DEF EventsInv
  <2>3. CASE pc = "event"
    <3>1. PICK k \in DOMAIN trans : current = {k}
      BY <2>3 DEF EventsInv
    <3>2. Missing' \subseteq Missing \cup {k}
      BY <2>1, <2>3, <3>1 DEF Missing
    <3>3. IsFiniteSet(Missing \cup {k}) /\ Cardinality(Missing \cup {k}) <= Cardinality(Missing) + 1
      <4>1. /\ IsFiniteSet(Missing \cup {k})
            /\ Cardinality(Missing \cup {k}) =
                 IF k \in Missing THEN Cardinality(Missing) ELSE Cardinality(Missing) + 1
        BY <1>1, FS_AddElement
      <4>2. QED
        BY <1>1, <4>1
    <3>4. Cardinality(Missing') <= Cardinality(Missing \cup {k}) /\ Cardinality(Missing') \in Nat
          /\ Cardinality(Missing \cup {k}) \in Nat
      BY <3>2, <3>3, FS_Subset, FS_CardinalityType
    <3>5. Cardinality(Missing') <= crashes'
      BY <1>1, <2>1, <3>3, <3>4 DEF EventsInv
    <3>6. QED
      BY <2>1, <3>5 DEF EventsInv
  <2>4. QED
    BY <2>2, <2>3
<1>6. CASE UNCHANGED <<pc, current, trans, events, crashes>>
  BY <1>6 DEF EventsInv, Missing
<1>7. CASE UNCHANGED <<trans, events, crashes>> /\ pc # "event" /\ pc' # "event"
  BY <1>7 DEF EventsInv, Missing
<1>8. QED
  BY <1>3, <1>4, <1>5, <1>6, <1>7 DEF Next, Step, Deliver, StartRun, SelectDue, Collapse,
     CancelRecovery, Send, Record, FinishRun, Horizon, vars, runVars, dbVars

\* Each transition becomes an event, except for at most one per run cut short.
THEOREM EventsAreKept == Spec => []EventsLostOnlyByCrashes
<1>1. Init => EventsInv
  <2> SUFFICES ASSUME Init PROVE EventsInv
    OBVIOUS
  <2>1. DOMAIN trans = {} /\ events = {} /\ pc = "idle" /\ crashes = 0
    BY DEF Init, EmptyTable
  <2>2. Missing = {}
    BY <2>1 DEF Missing
  <2>3. QED
    BY <2>1, <2>2, FS_EmptySet DEF EventsInv
<1>2. EventsInv => EventsLostOnlyByCrashes
  BY DEF EventsInv, EventsLostOnlyByCrashes, Missing
<1>3. QED
  BY <1>1, <1>2, EventsStep, TypeInit, TypeStep, PTL DEF Spec

-----------------------------------------------------------------------------
(* What the group hears.  GroupHearsInPairs compares a message with the     *)
(* last one the group received.  The invariant ties that to the queue: the  *)
(* last message that reached the group is its newest settled row, which is  *)
(* what GroupAlerted reads, and the one waiting row of a scope is of this   *)
(* run, newer than all others and the opposite of what was heard.           *)

\* Every send so far was answered, the one being recorded included.
Answered == Reliable /\ (pc = "record" => ok)

\* The group's rows about a scope that have reached it.
Reached(s) ==
    {k \in DOMAIN queue : /\ k.scope = s /\ queue[k].dest = "group"
                          /\ \/ queue[k].state = "sent"
                             \/ queue[k].state = "pending" /\ pc = "record" /\ k \in current}

LastIsOutage(s) ==
    \E k \in Reached(s) : /\ queue[k].template = "bot.unavailable"
                          /\ \A j \in Reached(s) : queue[j].created <= queue[k].created

GroupTold == \A s \in Scopes : told[s]["group"] = "bot.unavailable" <=> LastIsOutage(s)

IsNews(k) ==
    queue[k].template = IF told[k.scope]["group"] = "bot.unavailable"
                        THEN "bot.recovered" ELSE "bot.unavailable"

GroupRow(k) == k \in DOMAIN queue /\ queue[k].dest = "group"

NewestOfItsScope(k) ==
    \A j \in DOMAIN queue : GroupRow(j) /\ j.scope = k.scope /\ j # k => queue[j].created < now

\* The waiting row k of the group in a run whose sends are all answered.
FreshNews(k) ==
    /\ queue[k].created = now /\ queue[k].next <= now /\ k.scope \notin todo
    /\ NewestOfItsScope(k)
    /\ pc # "idle"
    /\ pc = "deliver" => k \in batch \cup newest
    /\ pc = "record" => k \in newest \cup current
    /\ ~(pc = "record" /\ k \in current) => IsNews(k)

GroupPending == \A k \in DOMAIN queue : GroupRow(k) /\ queue[k].state = "pending" => FreshNews(k)

GroupInv ==
    /\ pc = "record" => current # {}
    /\ Answered => GroupTold /\ GroupPending /\ pc # "cancel"

\* A failure to answer is never forgotten: what is answered now was answered before.
LEMMA AnsweredBefore ==
    ASSUME TypeInv, GroupInv, [Next]_vars, Answered'
    PROVE  Answered
<1>1. /\ queue \in [DOMAIN queue -> Row] /\ DOMAIN queue \subseteq Key /\ now \in Nat /\ crashes \in Nat
      /\ \A k \in DOMAIN queue : queue[k].attempts \in Nat
  BY DEF TypeInv, TypeOK, Row
<1>2. crashes = 0 /\ ~Crash
  <2>1. crashes' = 0
    BY DEF Answered, Reliable
  <2>2. ~Crash
    BY <1>1, <2>1 DEF Crash
  <2>3. crashes' = crashes
    BY <2>2 DEF Next, Step, Deliver, StartRun, SaveEvaluation, WriteEvent, SelectDue, Collapse,
       CancelRecovery, Send, Record, FinishRun, Horizon, vars
  <2>4. QED
    BY <2>1, <2>2, <2>3
<1>3. DOMAIN queue \subseteq DOMAIN queue' /\
      \A k \in DOMAIN queue : queue[k].attempts > 0 => queue[k].attempts = 1 /\ queue[k].state = "sent"
  <2>1. ASSUME NEW s \in todo, NEW ev \in Evaluations, SaveEvaluation(s, ev),
               NEW k \in DOMAIN queue, queue[k].attempts > 0
        PROVE  k \in DOMAIN queue' /\ queue[k].attempts = 1 /\ queue[k].state = "sent"
    <3> DEFINE n == [scope |-> s, from |-> snapshot[s], to |-> ev.state, observed |-> ev.observed]
               waiting == PendingAdminNotices(queue, n.scope)
    <3>1. n \in Key /\ (queue' = queue \/ queue' = Enqueue(queue, n))
      BY <2>1, TransitionStep
    <3> HIDE DEF n
    <3>2. CASE queue' = queue
      BY <2>1, <3>2 DEF Answered, Reliable
    <3>3. CASE queue' = Enqueue(queue, n)
      <4>1. /\ DOMAIN queue \subseteq DOMAIN queue'
            /\ \A j \in DOMAIN queue : j \notin waiting => queue'[j] = queue[j]
            /\ \A j \in waiting : queue'[j].state = "superseded"
        BY <1>1, <3>1, <3>3, EnqueueEffect
      <4>2. queue'[k] = Supersede(queue, waiting)[k]
        BY <1>1, <3>1, <3>3, EnqueueRow
      <4>3. queue'[k].attempts = queue[k].attempts
        BY <1>1, <4>2, SupersedeType
      <4>4. QED
        BY <2>1, <4>1, <4>3 DEF Answered, Reliable
    <3>4. QED
      BY <3>1, <3>2, <3>3
  <2>2. ASSUME ~ \E s \in todo, ev \in Evaluations : SaveEvaluation(s, ev),
               NEW k \in DOMAIN queue, queue[k].attempts > 0
        PROVE  queue[k].attempts = 1 /\ queue[k].state = "sent"
    <3>1. RowStep(k) /\ k \in DOMAIN queue'
      BY <2>2, OtherRows, OtherSteps DEF QueueOnlySettles
    <3>2. queue'[k].attempts > 0 => queue'[k].attempts = 1 /\ queue'[k].state = "sent"
      BY <3>1 DEF Answered, Reliable
    <3>3. QED
      BY <1>1, <2>2, <3>1, <3>2 DEF RowStep
  <2>3. DOMAIN queue \subseteq DOMAIN queue'
    <3>1. ASSUME NEW s \in todo, NEW ev \in Evaluations, SaveEvaluation(s, ev)
          PROVE  DOMAIN queue \subseteq DOMAIN queue'
      <4> DEFINE n == [scope |-> s, from |-> snapshot[s], to |-> ev.state, observed |-> ev.observed]
      <4>1. n \in Key /\ (queue' = queue \/ queue' = Enqueue(queue, n))
        BY <3>1, TransitionStep
      <4> HIDE DEF n
      <4>2. QED
        BY <1>1, <4>1, EnqueueEffect
    <3>2. QED
      BY <3>1, OtherSteps DEF QueueOnlySettles
  <2>4. QED
    BY <2>1, <2>2, <2>3
<1>4. ASSUME pc = "record" PROVE ok
  <2>1. CASE Record
    <3>1. PICK k : k \in current
      BY <1>4 DEF GroupInv
    <3>2. k \in DOMAIN queue /\ queue[k] \in Row
      BY <1>1, <1>4, <3>1 DEF TypeInv, BatchIsPending, Due
    <3>3. ASSUME ~ok PROVE FALSE
      <4>1. queue'[k] = Postponed(queue[k])
        BY <2>1, <3>1, <3>2, <3>3 DEF Record
      <4>2. queue'[k].attempts = queue[k].attempts + 1 /\ queue'[k].state \in {"pending", "failed"}
        BY <3>2, <4>1 DEF Postponed, Row
      <4>3. queue'[k].attempts > 0 => queue'[k].state = "sent"
        BY <1>3, <3>2 DEF Answered, Reliable
      <4>4. QED
        BY <1>1, <3>2, <4>2, <4>3
    <3>4. QED
      BY <3>3
  <2>2. CASE UNCHANGED vars
    BY <1>4, <2>2 DEF vars, runVars, Answered
  <2>3. QED
    BY <1>2, <1>4, <2>1, <2>2 DEF Next, Step, Deliver, StartRun, SaveEvaluation, WriteEvent, SelectDue,
       Collapse, CancelRecovery, Send, FinishRun, Horizon
<1>5. QED
  BY <1>2, <1>3, <1>4 DEF Answered, Reliable

\* What was heard and what is known of it stay together while no group row moves.
LEMMA GroupRowsStay ==
    ASSUME DOMAIN queue' = DOMAIN queue, told' = told, pc # "record", pc' # "record",
           \A k \in DOMAIN queue : /\ queue'[k].dest = queue[k].dest
                                   /\ queue[k].dest = "group" => queue'[k] = queue[k],
           GroupTold
    PROVE  GroupTold'
<1>1. \A s \in Scopes : Reached(s)' = Reached(s)
  BY DEF Reached
<1>2. \A s \in Scopes : \A k \in Reached(s) : queue'[k] = queue[k]
  BY DEF Reached
<1>3. \A s \in Scopes : LastIsOutage(s)' <=> LastIsOutage(s)
  BY <1>1, <1>2 DEF LastIsOutage
<1>4. QED
  BY <1>3 DEF GroupTold

\* A waiting row keeps being fresh news while nothing about its scope moves.
LEMMA FreshNewsStays ==
    ASSUME NEW k \in DOMAIN queue, FreshNews(k), DOMAIN queue' = DOMAIN queue,
           queue'[k] = queue[k], now' = now, todo' \subseteq todo,
           \A j \in DOMAIN queue : /\ queue'[j].dest = queue[j].dest
                                   /\ queue'[j].created = queue[j].created,
           told'[k.scope]["group"] = told[k.scope]["group"], pc' # "idle", ~(pc = "record" /\ k \in current),
           pc' = "deliver" => k \in batch' \cup newest',
           pc' = "record" => k \in newest' \cup current'
    PROVE  FreshNews(k)'
<1>1. NewestOfItsScope(k)'
  BY DEF FreshNews, NewestOfItsScope, GroupRow
<1>2. IsNews(k)'
  BY DEF FreshNews, IsNews
<1>3. QED
  BY <1>1, <1>2 DEF FreshNews

\* save_evaluation: the row it adds for the group is news.
LEMMA GroupEvaluate ==
    ASSUME TypeInv, RowTimes, GroupTold, GroupPending,
           NEW s \in todo, NEW ev \in Evaluations, SaveEvaluation(s, ev)
    PROVE  GroupTold' /\ GroupPending'
<1> DEFINE n == [scope |-> s, from |-> snapshot[s], to |-> ev.state, observed |-> ev.observed]
           waiting == PendingAdminNotices(queue, s)
<1>1. n \in Key /\ n.scope = s /\ s \in Scopes /\ (queue' = queue \/ queue' = Enqueue(queue, n))
  BY TransitionStep
<1>2. /\ now' = now /\ told' = told /\ todo' = todo \ {s} /\ pc = "evaluate" /\ pc' \in {"evaluate", "event"}
      /\ UNCHANGED <<batch, newest>>
  BY DEF SaveEvaluation
<1>3. queue \in [DOMAIN queue -> Row] /\ DOMAIN queue \subseteq Key /\ now \in Nat
  BY DEF TypeInv, TypeOK
<1> HIDE DEF n
<1>4. CASE queue' = queue
  <2>1. GroupTold'
    BY <1>2, <1>4, GroupRowsStay
  <2>2. ASSUME NEW k \in DOMAIN queue, GroupRow(k), queue[k].state = "pending" PROVE FreshNews(k)'
    <3>1. FreshNews(k)
      BY <2>2 DEF GroupPending
    <3>2. QED
      BY <1>2, <1>4, <3>1, FreshNewsStays
  <2>3. QED
    BY <1>4, <2>1, <2>2 DEF GroupPending, GroupRow
<1>5. CASE queue' = Enqueue(queue, n)
  <2>1. /\ DOMAIN queue \subseteq DOMAIN queue' /\ DOMAIN queue' \subseteq DOMAIN queue \cup {n}
        /\ \A j \in DOMAIN queue : j \notin waiting => queue'[j] = queue[j]
        /\ \A j \in waiting : queue'[j].state = "superseded"
    BY <1>1, <1>3, <1>5, EnqueueEffect
  <2> DEFINE cleared == Supersede(queue, waiting)
  <2>2. /\ \A j \in DOMAIN queue : queue'[j] = cleared[j]
        /\ n \in DOMAIN queue' \ DOMAIN queue =>
             /\ queue'[n].state = "pending" /\ queue'[n].created = now
             /\ queue'[n].dest = "group" =>
                  /\ queue'[n].next = now
                  /\ queue'[n].template = IF GroupAlerted(cleared, s)
                                          THEN "bot.recovered" ELSE "bot.unavailable"
    BY <1>1, <1>3, <1>5, EnqueueRow
  <2>3. /\ DOMAIN cleared = DOMAIN queue
        /\ \A j \in DOMAIN queue : /\ cleared[j].dest = queue[j].dest
                                   /\ cleared[j].created = queue[j].created
                                   /\ queue[j].dest = "group" => cleared[j] = queue[j]
    BY <1>3, SupersedeType DEF PendingAdminNotices, Rows
  <2> HIDE DEF cleared, waiting
  <2>4. \A r \in Scopes : Reached(r)' = Reached(r) /\ \A k \in Reached(r) : queue'[k] = queue[k]
    BY <1>2, <2>1, <2>2, <2>3 DEF Reached
  <2>5. GroupTold'
    <3>1. \A r \in Scopes : LastIsOutage(r)' <=> LastIsOutage(r)
      BY <2>4 DEF LastIsOutage
    <3>2. QED
      BY <1>2, <3>1 DEF GroupTold
  <2>6. \A j \in DOMAIN queue : GroupRow(j) /\ j.scope = s => queue[j].state # "pending"
    BY <1>1 DEF GroupPending, FreshNews
  <2>7. GroupAlerted(cleared, s) <=> LastIsOutage(s)
    <3>1. Rows(cleared, s, "group", {"pending", "sent"}) = Reached(s)
      BY <1>2, <2>3, <2>6 DEF Rows, Reached, GroupRow
    <3>2. \A k \in Reached(s) : cleared[k] = queue[k]
      BY <2>3 DEF Reached
    <3>3. QED
      BY <3>1, <3>2 DEF GroupAlerted, LastIsOutage
  <2>8. ASSUME NEW k \in DOMAIN queue', GroupRow(k)', queue'[k].state = "pending" PROVE FreshNews(k)'
    <3>1. CASE k \in DOMAIN queue
      <4>1. queue'[k] = queue[k] /\ GroupRow(k) /\ FreshNews(k)
        BY <2>2, <2>3, <2>8, <3>1 DEF GroupRow, GroupPending
      <4>2. k.scope # s /\ k.scope \notin todo'
        BY <1>2, <4>1 DEF FreshNews
      <4>3. ASSUME NEW j \in DOMAIN queue', GroupRow(j)', j.scope = k.scope, j # k
            PROVE  queue'[j].created < now'
        <5>1. j \in DOMAIN queue /\ GroupRow(j)
          BY <1>1, <2>1, <2>2, <2>3, <4>2, <4>3 DEF GroupRow
        <5>2. queue'[j] = queue[j]
          BY <2>2, <2>3, <5>1 DEF GroupRow
        <5>3. QED
          BY <1>2, <4>1, <4>3, <5>1, <5>2 DEF FreshNews, NewestOfItsScope
      <4>4. NewestOfItsScope(k)'
        BY <4>3 DEF NewestOfItsScope
      <4>5. IsNews(k)'
        BY <1>2, <4>1 DEF FreshNews, IsNews
      <4>6. QED
        BY <1>2, <4>1, <4>2, <4>4, <4>5 DEF FreshNews
    <3>2. CASE k \notin DOMAIN queue
      <4>1. k = n /\ queue'[k].created = now /\ queue'[k].next = now
        BY <2>1, <2>2, <2>8, <3>2 DEF GroupRow
      <4>2. ASSUME NEW j \in DOMAIN queue', GroupRow(j)', j.scope = k.scope, j # k
            PROVE  queue'[j].created < now'
        <5>1. j \in DOMAIN queue
          BY <2>1, <4>1, <4>2
        <5>2. queue[j].created < now /\ queue'[j].created = queue[j].created
          BY <1>1, <2>2, <2>3, <4>1, <4>2, <5>1 DEF RowTimes
        <5>3. QED
          BY <1>2, <5>2
      <4>3. NewestOfItsScope(k)'
        BY <4>2 DEF NewestOfItsScope
      <4>4. IsNews(k)'
        <5>1. queue'[k].template = IF LastIsOutage(s) THEN "bot.recovered" ELSE "bot.unavailable"
          BY <2>2, <2>7, <2>8, <3>2, <4>1 DEF GroupRow
        <5>2. told'[k.scope]["group"] = "bot.unavailable" <=> LastIsOutage(s)
          BY <1>1, <1>2, <4>1 DEF GroupTold
        <5>3. QED
          BY <5>1, <5>2 DEF IsNews
      <4>5. k.scope \notin todo' /\ queue'[k].next <= now
        BY <1>1, <1>2, <1>3, <4>1
      <4>6. QED
        BY <1>2, <4>1, <4>3, <4>4, <4>5 DEF FreshNews
    <3>3. QED
      BY <3>1, <3>2
  <2>9. QED
    BY <2>5, <2>8 DEF GroupPending
<1>6. QED
  BY <1>1, <1>4, <1>5

\* deliver_pending's loop leaves the group's rows alone: each is alone in its thread.
LEMMA CollapseKeepsGroup ==
    ASSUME TypeInv, GroupPending, NEW n \in batch, Collapse(n)
    PROVE  LET previous == {j \in newest : SameThread(j, n)}
           IN  /\ \A j \in previous : queue[j].dest # "group"
               /\ pc' = "deliver" /\ newest' = (newest \ previous) \cup {n}
               /\ DOMAIN queue' = DOMAIN queue
               /\ \A k \in DOMAIN queue : /\ queue'[k].dest = queue[k].dest
                                          /\ queue'[k].created = queue[k].created
                                          /\ queue[k].dest = "group" => queue'[k] = queue[k]
<1> DEFINE previous == {j \in newest : SameThread(j, n)}
<1>1. /\ pc = "deliver" /\ now' = now /\ todo' = todo /\ told' = told
      /\ queue' = Supersede(queue, previous) /\ batch' = batch \ {n}
  BY DEF Collapse
<1>2. /\ queue \in [DOMAIN queue -> Row] /\ now \in Nat
      /\ batch \cup newest \subseteq Due(queue) /\ batch \cap newest = {}
  BY <1>1 DEF TypeInv, TypeOK, BatchIsPending
<1>3. \A j \in previous : queue[j].dest # "group"
  <2> SUFFICES ASSUME NEW j \in previous, queue[j].dest = "group" PROVE FALSE
    OBVIOUS
  <2>1. /\ j # n /\ j \in DOMAIN queue /\ n \in DOMAIN queue
        /\ queue[j].state = "pending" /\ queue[n].state = "pending"
    BY <1>2 DEF Due
  <2>2. GroupRow(j) /\ GroupRow(n) /\ j.scope = n.scope
    BY <2>1 DEF GroupRow, SameThread
  <2>3. FreshNews(j) /\ FreshNews(n)
    BY <2>1, <2>2 DEF GroupPending
  <2>4. queue[j].created < now /\ queue[j].created = now
    BY <2>1, <2>2, <2>3 DEF FreshNews, NewestOfItsScope
  <2>5. QED
    BY <1>2, <2>4
<1>4. ~\E j \in previous : CancelsOut(j, n)
  BY <1>3 DEF CancelsOut, SameThread
<1>5. pc' = "deliver" /\ newest' = (newest \ previous) \cup {n}
  BY <1>4 DEF Collapse
<1>6. /\ DOMAIN queue' = DOMAIN queue
      /\ \A k \in DOMAIN queue : /\ queue'[k].dest = queue[k].dest
                                 /\ queue'[k].created = queue[k].created
                                 /\ queue[k].dest = "group" => queue'[k] = queue[k]
  BY <1>1, <1>2, <1>3, SupersedeType
<1>7. QED
  BY <1>3, <1>5, <1>6

\* So the loop keeps what waits for the group.
LEMMA GroupCollapse ==
    ASSUME TypeInv, GroupTold, GroupPending, NEW n \in batch, Collapse(n)
    PROVE  GroupTold' /\ GroupPending' /\ pc' = "deliver"
<1> DEFINE previous == {j \in newest : SameThread(j, n)}
<1>1. pc = "deliver" /\ now' = now /\ todo' = todo /\ told' = told /\ batch' = batch \ {n}
  BY DEF Collapse
<1>2. \A j \in previous : queue[j].dest # "group"
  BY CollapseKeepsGroup
<1>3. pc' = "deliver" /\ newest' = (newest \ previous) \cup {n}
  BY CollapseKeepsGroup
<1>4. /\ DOMAIN queue' = DOMAIN queue
      /\ \A k \in DOMAIN queue : /\ queue'[k].dest = queue[k].dest
                                 /\ queue'[k].created = queue[k].created
                                 /\ queue[k].dest = "group" => queue'[k] = queue[k]
  BY CollapseKeepsGroup
<1> HIDE DEF previous
<1>5. GroupTold'
  BY <1>1, <1>3, <1>4, GroupRowsStay
<1>6. ASSUME NEW k \in DOMAIN queue, GroupRow(k), queue[k].state = "pending" PROVE FreshNews(k)'
  <2>1. FreshNews(k) /\ queue'[k] = queue[k]
    BY <1>4, <1>6 DEF GroupPending, GroupRow
  <2>2. k \in batch' \cup newest'
    <3>1. k \in batch \cup newest /\ k \notin previous
      BY <1>1, <1>2, <1>6, <2>1 DEF FreshNews, GroupRow
    <3>2. QED
      BY <1>1, <1>3, <3>1
  <2>3. QED
    BY <1>1, <1>3, <1>4, <2>1, <2>2, FreshNewsStays
<1>7. QED
  BY <1>3, <1>4, <1>5, <1>6 DEF GroupPending, GroupRow

\* A send that is answered makes the row the last message the group heard.
LEMMA GroupSend ==
    ASSUME TypeInv, GroupTold, GroupPending, NEW n \in newest, Send(n, "ok")
    PROVE  GroupTold' /\ GroupPending'
<1>1. /\ pc = "deliver" /\ pc' = "record" /\ current' = {n} /\ newest' = newest \ {n} /\ batch = {}
      /\ UNCHANGED <<now, todo, queue>>
      /\ told' = [told EXCEPT ![n.scope][queue[n].dest] = queue[n].template]
  BY DEF Send, dbVars
<1>2. /\ told \in [Scopes -> [Destination -> Template \cup {"nothing"}]]
      /\ n \in DOMAIN queue /\ queue[n].state = "pending" /\ n.scope \in Scopes
      /\ queue[n].dest \in Destination
  BY <1>1 DEF TypeInv, TypeOK, BatchIsPending, Due, Key, Row
<1>3. /\ \A s \in Scopes : s # n.scope => told'[s]["group"] = told[s]["group"]
      /\ queue[n].dest # "group" => \A s \in Scopes : told'[s]["group"] = told[s]["group"]
      /\ queue[n].dest = "group" => told'[n.scope]["group"] = queue[n].template
  BY <1>1, <1>2 DEF Destination
<1>4. \A s \in Scopes : s # n.scope \/ queue[n].dest # "group" => Reached(s)' = Reached(s)
  BY <1>1 DEF Reached
<1>5. queue[n].dest = "group" => Reached(n.scope)' = Reached(n.scope) \cup {n}
  BY <1>1, <1>2 DEF Reached
<1>6. queue[n].dest = "group" => FreshNews(n)
  BY <1>2 DEF GroupPending, GroupRow
<1>7. ASSUME NEW s \in Scopes PROVE told'[s]["group"] = "bot.unavailable" <=> LastIsOutage(s)'
  <2>1. CASE s # n.scope \/ queue[n].dest # "group"
    <3>1. LastIsOutage(s)' <=> LastIsOutage(s)
      BY <1>1, <1>4, <2>1 DEF LastIsOutage
    <3>2. QED
      BY <1>3, <2>1, <3>1 DEF GroupTold
  <2>2. CASE s = n.scope /\ queue[n].dest = "group"
    <3>1. told'[s]["group"] = queue[n].template /\ Reached(s)' = Reached(s) \cup {n} /\ queue' = queue
      BY <1>1, <1>3, <1>5, <2>2
    <3>2. queue[n].template \in {"bot.recovered", "bot.unavailable"} /\ queue[n].created = now
      BY <1>1, <1>6, <2>2 DEF FreshNews, IsNews
    <3>3. n \notin Reached(s) /\ \A j \in Reached(s) : queue[j].created < now
      BY <1>1, <1>2, <1>6, <2>2 DEF FreshNews, NewestOfItsScope, Reached, GroupRow
    <3>4. now \in Nat /\ \A j \in Reached(s) : queue[j].created \in Nat
      BY DEF TypeInv, TypeOK, Reached, Row
    <3>5. CASE queue[n].template = "bot.unavailable"
      <4>1. \A j \in Reached(s)' : queue'[j].created <= queue'[n].created
        BY <3>1, <3>2, <3>3, <3>4
      <4>2. LastIsOutage(s)'
        BY <3>1, <3>5, <4>1 DEF LastIsOutage
      <4>3. QED
        BY <3>1, <3>5, <4>2
    <3>6. CASE queue[n].template = "bot.recovered"
      <4>1. ASSUME NEW k \in Reached(s)', queue'[k].template = "bot.unavailable",
                   \A j \in Reached(s)' : queue'[j].created <= queue'[k].created
            PROVE  FALSE
        <5>1. k \in Reached(s)
          BY <3>1, <3>6, <4>1
        <5>2. queue[n].created <= queue[k].created
          BY <3>1, <4>1
        <5>3. QED
          BY <3>2, <3>3, <3>4, <5>1, <5>2
      <4>2. ~LastIsOutage(s)'
        BY <4>1 DEF LastIsOutage
      <4>3. QED
        BY <3>1, <3>6, <4>2
    <3>7. QED
      BY <3>2, <3>5, <3>6
  <2>3. QED
    BY <2>1, <2>2
<1>8. ASSUME NEW k \in DOMAIN queue, GroupRow(k), queue[k].state = "pending" PROVE FreshNews(k)'
  <2>1. FreshNews(k)
    BY <1>8 DEF GroupPending
  <2>2. k \in newest' \cup current'
    BY <1>1, <2>1 DEF FreshNews
  <2>3. NewestOfItsScope(k)'
    BY <1>1, <2>1 DEF FreshNews, NewestOfItsScope, GroupRow
  <2>4. ASSUME k # n PROVE IsNews(k)'
    <3>1. k.scope \in Scopes
      BY <1>8 DEF TypeInv, TypeOK, Key
    <3>2. queue[n].dest = "group" => k.scope # n.scope
      <4> SUFFICES ASSUME queue[n].dest = "group", k.scope = n.scope PROVE FALSE
        OBVIOUS
      <4>1. queue[k].created < now
        BY <1>2, <1>6, <1>8, <2>4 DEF FreshNews, NewestOfItsScope, GroupRow
      <4>2. queue[k].created = now /\ now \in Nat
        BY <2>1 DEF FreshNews, TypeInv, TypeOK
      <4>3. QED
        BY <4>1, <4>2
    <3>3. told'[k.scope]["group"] = told[k.scope]["group"]
      BY <1>3, <3>1, <3>2
    <3>4. QED
      BY <1>1, <2>1, <3>3 DEF FreshNews, IsNews
  <2>5. QED
    BY <1>1, <2>1, <2>2, <2>3, <2>4 DEF FreshNews
<1>9. QED
  BY <1>1, <1>7, <1>8 DEF GroupTold, GroupPending, GroupRow

\* Writing the answer down turns the row that was heard into a sent one.
LEMMA GroupRecord ==
    ASSUME TypeInv, GroupTold, GroupPending, Record, ok
    PROVE  GroupTold' /\ GroupPending'
<1>1. /\ pc = "record" /\ pc' = "deliver" /\ current' = {}
      /\ UNCHANGED <<now, todo, batch, newest, told>>
      /\ DOMAIN queue' = DOMAIN queue
  BY DEF Record
<1>2. /\ queue \in [DOMAIN queue -> Row] /\ current \subseteq Due(queue)
  BY <1>1 DEF TypeInv, TypeOK, BatchIsPending
<1>3. \A k \in DOMAIN queue :
        /\ k \notin current => queue'[k] = queue[k]
        /\ k \in current => queue'[k].state = "sent"
        /\ queue'[k].dest = queue[k].dest /\ queue'[k].template = queue[k].template
        /\ queue'[k].created = queue[k].created
  <2> TAKE k \in DOMAIN queue
  <2>1. queue[k] \in Row
    BY <1>2
  <2>2. queue'[k] = IF k \in current THEN Delivered(queue[k]) ELSE queue[k]
    BY DEF Record
  <2>3. QED
    BY <2>1, <2>2 DEF Delivered, Row
<1>4. \A k \in current : k \in DOMAIN queue /\ queue[k].state = "pending"
  BY <1>2 DEF Due
<1>5. \A s \in Scopes : Reached(s)' = Reached(s)
  BY <1>1, <1>3, <1>4 DEF Reached
<1>6. \A s \in Scopes : LastIsOutage(s)' <=> LastIsOutage(s)
  <2>1. \A s \in Scopes : Reached(s) \subseteq DOMAIN queue
    BY DEF Reached
  <2>2. QED
    BY <1>3, <1>5, <2>1 DEF LastIsOutage
<1>7. GroupTold'
  BY <1>1, <1>6 DEF GroupTold
<1>8. ASSUME NEW k \in DOMAIN queue, GroupRow(k)', queue'[k].state = "pending" PROVE FreshNews(k)'
  <2>1. k \notin current /\ queue'[k] = queue[k]
    BY <1>3, <1>8
  <2>2. FreshNews(k)
    BY <1>8, <2>1 DEF GroupPending, GroupRow
  <2>3. k \in newest
    BY <1>1, <2>1, <2>2 DEF FreshNews
  <2>4. QED
    BY <1>1, <1>3, <2>1, <2>2, <2>3, FreshNewsStays
<1>9. QED
  BY <1>1, <1>7, <1>8 DEF GroupPending

\* The steps that leave the queue and what was heard alone.
LEMMA GroupOther ==
    ASSUME TypeInv, GroupTold, GroupPending,
           StartRun \/ WriteEvent \/ SelectDue \/ FinishRun
    PROVE  GroupTold' /\ GroupPending'
<1>1. UNCHANGED <<queue, told>> /\ pc # "record" /\ pc' # "record"
  BY DEF StartRun, WriteEvent, SelectDue, FinishRun, dbVars
<1>2. GroupTold'
  BY <1>1, GroupRowsStay
<1>3. ASSUME NEW k \in DOMAIN queue, GroupRow(k), queue[k].state = "pending" PROVE FreshNews(k)'
  <2>1. FreshNews(k)
    BY <1>3 DEF GroupPending
  <2>2. CASE StartRun
    BY <2>1, <2>2 DEF StartRun, FreshNews
  <2>3. CASE WriteEvent
    <3>1. now' = now /\ todo' = todo /\ pc' = "evaluate"
      BY <2>3 DEF WriteEvent
    <3>2. QED
      BY <1>1, <2>1, <3>1, FreshNewsStays
  <2>4. CASE SelectDue
    <3>1. now' = now /\ todo' = todo /\ pc' = "deliver" /\ batch' = Due(queue)
      BY <2>4 DEF SelectDue
    <3>2. k \in batch'
      BY <1>3, <2>1, <3>1 DEF FreshNews, Due
    <3>3. QED
      BY <1>1, <2>1, <3>1, <3>2, FreshNewsStays
  <2>5. CASE FinishRun
    BY <2>1, <2>5 DEF FinishRun, FreshNews
  <2>6. QED
    BY <2>2, <2>3, <2>4, <2>5
<1>4. QED
  BY <1>1, <1>2, <1>3 DEF GroupPending, GroupRow

\* Every step keeps what the group heard and what waits for it together.
LEMMA GroupStep == TypeInv /\ RowTimes /\ GroupInv /\ [Next]_vars => GroupInv'
<1> SUFFICES ASSUME TypeInv, RowTimes, GroupInv, [Next]_vars PROVE GroupInv'
  OBVIOUS
<1>1. pc' = "record" => current' # {}
  BY DEF GroupInv, Next, Step, Deliver, StartRun, SaveEvaluation, WriteEvent, SelectDue, Collapse,
     CancelRecovery, Send, Record, FinishRun, Crash, Horizon, vars, runVars
<1>2. ASSUME Answered' PROVE GroupTold' /\ GroupPending' /\ pc' # "cancel"
  <2>1. Answered /\ GroupTold /\ GroupPending /\ pc # "cancel"
    BY <1>2, AnsweredBefore DEF GroupInv
  <2>2. ASSUME NEW s \in todo, NEW ev \in Evaluations, SaveEvaluation(s, ev)
        PROVE  GroupTold' /\ GroupPending' /\ pc' # "cancel"
    <3>1. pc' # "cancel"
      BY <2>2 DEF SaveEvaluation
    <3>2. QED
      BY <2>1, <2>2, <3>1, GroupEvaluate
  <2>3. ASSUME NEW n \in batch, Collapse(n)
        PROVE  GroupTold' /\ GroupPending' /\ pc' # "cancel"
    BY <2>1, <2>3, GroupCollapse
  <2>4. ASSUME NEW n \in newest, NEW outcome \in Outcomes, Send(n, outcome)
        PROVE  GroupTold' /\ GroupPending' /\ pc' # "cancel"
    <3>1. pc' = "record" /\ ok' = (outcome = "ok")
      BY <2>4 DEF Send, Notifier
    <3>2. outcome = "ok"
      BY <1>2, <3>1 DEF Answered
    <3>3. QED
      BY <2>1, <2>4, <3>1, <3>2, GroupSend
  <2>5. CASE Record
    <3>1. ok /\ pc' = "deliver"
      BY <2>1, <2>5 DEF Answered, Record
    <3>2. QED
      BY <2>1, <2>5, <3>1, GroupRecord
  <2>6. CASE StartRun \/ WriteEvent \/ SelectDue \/ FinishRun
    <3>1. pc' # "cancel"
      BY <2>6 DEF StartRun, WriteEvent, SelectDue, FinishRun
    <3>2. QED
      BY <2>1, <2>6, <3>1, GroupOther
  <2>7. CASE UNCHANGED vars
    <3>1. UNCHANGED <<now, pc, todo, current, batch, newest, queue, told>>
      BY <2>7 DEF vars, runVars, dbVars
    <3>2. GroupTold'
      BY <2>1, <3>1 DEF GroupTold, LastIsOutage, Reached
    <3>3. GroupPending'
      BY <2>1, <3>1 DEF GroupPending, GroupRow, FreshNews, NewestOfItsScope, IsNews
    <3>4. QED
      BY <2>1, <3>1, <3>2, <3>3
  <2>8. ~Crash
    <3>1. crashes \in Nat /\ crashes' = 0
      BY <1>2 DEF TypeInv, TypeOK, Answered, Reliable
    <3>2. QED
      BY <3>1 DEF Crash
  <2>9. CASE CancelRecovery
    BY <2>1, <2>9 DEF CancelRecovery
  <2>10. QED
    BY <2>2, <2>3, <2>4, <2>5, <2>6, <2>7, <2>8, <2>9 DEF Next, Step, Deliver, Horizon
<1>3. QED
  BY <1>1, <1>2 DEF GroupInv

\* What the group heard agrees with the messages that waited, in every run.
LEMMA GroupInvariant == Spec => [](TypeInv /\ GroupInv)
<1>1. Init => GroupInv
  <2> SUFFICES ASSUME Init PROVE GroupInv
    OBVIOUS
  <2>1. DOMAIN queue = {} /\ pc = "idle" /\ told = [s \in Scopes |-> [d \in Destination |-> "nothing"]]
    BY DEF Init, EmptyTable
  <2>2. GroupTold
    BY <2>1 DEF GroupTold, LastIsOutage, Reached, Destination
  <2>3. QED
    BY <2>1, <2>2 DEF GroupInv, GroupPending
<1>2. QED
  BY <1>1, GroupStep, RowTimesHold, PTL DEF Spec

\* With a messenger that answers and no crash the group hears an outage once, its
\* recovery once, and a recovery only after an outage, for any number of servers
\* and any sequence of states between.
THEOREM GroupHearsPairs == Spec => GroupHearsInPairs
<1>1. TypeInv /\ GroupInv /\ [Next]_vars =>
        (Sends /\ Reliable => \A k \in current' : queue[k].dest = "group" =>
           IF queue[k].template = "bot.unavailable"
           THEN told[k.scope]["group"] # "bot.unavailable"
           ELSE told[k.scope]["group"] = "bot.unavailable")
  <2> SUFFICES ASSUME TypeInv, GroupInv, [Next]_vars, Sends, Reliable, NEW k \in current',
                      queue[k].dest = "group"
               PROVE  IF queue[k].template = "bot.unavailable"
                      THEN told[k.scope]["group"] # "bot.unavailable"
                      ELSE told[k.scope]["group"] = "bot.unavailable"
    OBVIOUS
  <2>1. k \in newest
    BY DEF Sends, Next, Step, Deliver, StartRun, SaveEvaluation, WriteEvent, SelectDue, Collapse,
           CancelRecovery, Send, Record, FinishRun, Crash, Horizon, vars, runVars
  <2>2. k \in DOMAIN queue /\ queue[k].state = "pending" /\ pc = "deliver"
    BY <2>1 DEF TypeInv, BatchIsPending, Sends, Due
  <2>3. FreshNews(k)
    BY <2>2 DEF GroupInv, Answered, GroupPending, GroupRow
  <2>4. IsNews(k)
    BY <2>2, <2>3 DEF FreshNews
  <2>5. QED
    BY <2>4 DEF IsNews
<1>2. QED
  BY <1>1, GroupInvariant, PTL DEF Spec, GroupHearsInPairs

-----------------------------------------------------------------------------
(* What the group believes between two runs.  Inside a run a message may    *)
(* still wait; what the group will believe once it is sent must already     *)
(* agree with the open transition.                                          *)

\* The group's rows about s that wait and are not being recorded.
Unsent(s) ==
    {k \in DOMAIN queue : /\ GroupRow(k) /\ k.scope = s /\ queue[k].state = "pending"
                          /\ ~(pc = "record" /\ k \in current)}

\* The group believes in an outage, or will once the message that waits is sent.
WillBelieve(s) == (told[s]["group"] = "bot.unavailable") # (Unsent(s) # {})

Agrees(k) ==
    /\ k.to = "unavailable" => WillBelieve(k.scope)
    /\ k.to = "operational" => ~WillBelieve(k.scope)

BeliefInv ==
    /\ DOMAIN queue \subseteq DOMAIN trans
    /\ Answered => \A k \in DOMAIN trans : trans[k] = "open" => Agrees(k)

\* A transition that is not in the queue yet gets a row for the group exactly when
\* the group has to change its mind.
LEMMA EnqueueGroup ==
    ASSUME NEW k \in Key, now \in Nat, DOMAIN queue \subseteq Key, queue \in [DOMAIN queue -> Row],
           k \notin DOMAIN queue
    PROVE  LET q == Enqueue(queue, k)
               alerted == GroupAlerted(Supersede(queue, PendingAdminNotices(queue, k.scope)), k.scope)
           IN  (k \in DOMAIN q /\ q[k].dest = "group") <=>
                 (k.to = "unavailable" /\ ~alerted) \/ (k.to = "operational" /\ alerted)
<1> DEFINE waiting == PendingAdminNotices(queue, k.scope)
           cleared == Supersede(queue, waiting)
           alerted == GroupAlerted(cleared, k.scope)
           target == NotificationFor(k.from, k.to, alerted)
           unannounced == target[1] = "admin" /\ target[2] = "bot.recovered" /\ waiting # {}
           held == /\ target[1] = "admin" /\ target[2] \in QUIET_TEMPLATES
                   /\ DroppedNotices(cleared, k.scope, now - FlapWindow) < FLAP_NOTICE_AFTER
           row == [dest |-> target[1], template |-> target[2], state |-> "pending", attempts |-> 0,
                   next |-> IF held THEN now + Quiet ELSE now, created |-> now]
           q == Enqueue(queue, k)
<1>1. DOMAIN cleared = DOMAIN queue
  BY SupersedeType
<1>2. q = IF target = NoTarget \/ unannounced THEN cleared ELSE InsertOrIgnore(cleared, k, row)
  BY DEF Enqueue
<1>3. target[1] = "group" <=> (k.to = "unavailable" /\ ~alerted) \/ (k.to = "operational" /\ alerted)
  <2>1. k.to \in State /\ alerted \in BOOLEAN
    BY DEF Key, GroupAlerted
  <2> HIDE DEF alerted
  <2>2. QED
    BY <2>1 DEF NotificationFor, NoTarget, State
<1>4. target[1] = "group" => target # NoTarget /\ ~unannounced
  <2> HIDE DEF target
  <2> QED BY DEF NoTarget
<1> HIDE DEF target, cleared, alerted, held, unannounced, waiting
<1>5. CASE q = cleared
  <2>1. k \notin DOMAIN q
    BY <1>1, <1>5
  <2>2. target[1] # "group"
    <3> SUFFICES ASSUME target[1] = "group" PROVE FALSE
      OBVIOUS
    <3>1. q = InsertOrIgnore(cleared, k, row)
      BY <1>2, <1>4
    <3> HIDE DEF q, row
    <3>2. k \in DOMAIN q
      BY <3>1 DEF InsertOrIgnore
    <3>3. QED
      BY <2>1, <3>2
  <2>3. QED
    BY <1>3, <2>1, <2>2 DEF alerted, cleared, waiting
<1>6. CASE q = InsertOrIgnore(cleared, k, row)
  <2>1. k \in DOMAIN q /\ q[k] = row
    BY <1>1, <1>6 DEF InsertOrIgnore
  <2>2. q[k].dest = target[1]
    BY <2>1
  <2> HIDE DEF q, row
  <2>3. QED
    BY <1>3, <2>1, <2>2 DEF alerted, cleared, waiting, q
<1>7. QED
  BY <1>2, <1>5, <1>6

\* A step that moves no group row and tells the group nothing keeps the agreement.
LEMMA BeliefStays ==
    ASSUME DOMAIN queue' = DOMAIN queue, told' = told, pc # "record", pc' # "record", trans' = trans,
           \A k \in DOMAIN queue : /\ queue'[k].dest = queue[k].dest
                                   /\ queue[k].dest = "group" => queue'[k] = queue[k],
           \A k \in DOMAIN trans : trans[k] = "open" => Agrees(k)
    PROVE  \A k \in DOMAIN trans' : trans'[k] = "open" => Agrees(k)'
<1>1. \A k : Unsent(k.scope)' = Unsent(k.scope)
  BY DEF Unsent, GroupRow
<1>2. QED
  BY <1>1 DEF Agrees, WillBelieve

\* save_evaluation: the transition it opens agrees with the row it adds.
LEMMA BeliefEvaluate ==
    ASSUME TypeInv, GroupTold, GroupPending, OpenTransitionIsCurrent, DOMAIN queue \subseteq DOMAIN trans,
           \A k \in DOMAIN trans : trans[k] = "open" => Agrees(k),
           NEW s \in todo, NEW ev \in Evaluations, SaveEvaluation(s, ev)
    PROVE  /\ DOMAIN queue' \subseteq DOMAIN trans'
           /\ \A k \in DOMAIN trans' : trans'[k] = "open" => Agrees(k)'
<1> DEFINE n == [scope |-> s, from |-> snapshot[s], to |-> ev.state, observed |-> ev.observed]
           waiting == PendingAdminNotices(queue, s)
<1>1. /\ n \in Key /\ n.scope = s /\ s \in Scopes
      /\ \/ UNCHANGED <<trans, queue>>
         \/ /\ n.to # snapshot[s]
            /\ trans' = Closed(InsertOrIgnore(trans, n, "open"), s, n)
            /\ queue' = Enqueue(queue, n)
  BY TransitionStep
<1>2. told' = told /\ pc = "evaluate" /\ pc' \in {"evaluate", "event"}
  BY DEF SaveEvaluation
<1>3. queue \in [DOMAIN queue -> Row] /\ DOMAIN queue \subseteq Key /\ now \in Nat
  BY DEF TypeInv, TypeOK
<1> HIDE DEF n
<1>4. CASE UNCHANGED <<trans, queue>>
  BY <1>2, <1>4, BeliefStays
<1>5. CASE /\ n.to # snapshot[s]
           /\ trans' = Closed(InsertOrIgnore(trans, n, "open"), s, n)
           /\ queue' = Enqueue(queue, n)
  <2>1. /\ DOMAIN trans' = DOMAIN trans \cup {n}
        /\ \A k \in DOMAIN trans' : k.scope = s /\ k # n => trans'[k] = "closed"
        /\ \A k \in DOMAIN trans : k.scope # s \/ k = n => trans'[k] = trans[k]
    BY <1>1, <1>5 DEF Closed, InsertOrIgnore
  <2>2. /\ DOMAIN queue \subseteq DOMAIN queue' /\ DOMAIN queue' \subseteq DOMAIN queue \cup {n}
        /\ \A j \in DOMAIN queue : j \notin waiting => queue'[j] = queue[j]
    BY <1>1, <1>3, <1>5, EnqueueEffect
  <2> DEFINE cleared == Supersede(queue, waiting)
  <2>3. /\ \A j \in DOMAIN queue : queue'[j] = cleared[j]
        /\ n \in DOMAIN queue' \ DOMAIN queue => queue'[n].state = "pending"
    BY <1>1, <1>3, <1>5, EnqueueRow
  <2>4. /\ DOMAIN cleared = DOMAIN queue
        /\ \A j \in DOMAIN queue : /\ cleared[j].dest = queue[j].dest
                                   /\ queue[j].dest = "group" => cleared[j] = queue[j]
    BY <1>3, SupersedeType DEF PendingAdminNotices, Rows
  <2>5. n \notin DOMAIN queue =>
          ((n \in DOMAIN queue' /\ queue'[n].dest = "group") <=>
             (n.to = "unavailable" /\ ~GroupAlerted(cleared, s))
             \/ (n.to = "operational" /\ GroupAlerted(cleared, s)))
    BY <1>1, <1>3, <1>5, EnqueueGroup
  <2> HIDE DEF cleared, waiting
  <2>6. DOMAIN queue' \subseteq DOMAIN trans'
    BY <2>1, <2>2
  <2>7. \A j \in DOMAIN queue : GroupRow(j) /\ j.scope = s => queue[j].state # "pending"
    BY DEF GroupPending, FreshNews
  <2>8. GroupAlerted(cleared, s) <=> told[s]["group"] = "bot.unavailable"
    <3>1. Rows(cleared, s, "group", {"pending", "sent"}) = Reached(s)
      BY <1>2, <2>4, <2>7 DEF Rows, Reached, GroupRow
    <3>2. \A k \in Reached(s) : cleared[k] = queue[k]
      BY <2>4 DEF Reached
    <3>3. GroupAlerted(cleared, s) <=> LastIsOutage(s)
      BY <3>1, <3>2 DEF GroupAlerted, LastIsOutage
    <3>4. QED
      BY <1>1, <3>3 DEF GroupTold
  <2>9. ASSUME NEW k \in DOMAIN trans', trans'[k] = "open" PROVE Agrees(k)'
    <3>1. CASE k.scope # s
      <4>1. Unsent(k.scope)' = Unsent(k.scope)
        BY <1>1, <1>2, <2>2, <2>3, <2>4, <3>1 DEF Unsent, GroupRow
      <4>2. k \in DOMAIN trans /\ trans[k] = "open"
        BY <1>1, <2>1, <2>9, <3>1
      <4>3. QED
        BY <1>2, <4>1, <4>2 DEF Agrees, WillBelieve
    <3>2. CASE k.scope = s
      <4>1. k = n
        BY <2>1, <2>9, <3>2
      <4>2. n \notin DOMAIN trans
        BY <1>1, <1>5, <2>1, <2>9, <4>1 DEF OpenTransitionIsCurrent
      <4>3. n \notin DOMAIN queue
        BY <4>2
      <4>4. Unsent(s)' # {} <=> n \in DOMAIN queue' /\ queue'[n].dest = "group"
        <5>1. \A j \in DOMAIN queue : j \notin Unsent(s)'
          BY <2>3, <2>4, <2>7 DEF Unsent, GroupRow
        <5>2. n \in Unsent(s)' <=> n \in DOMAIN queue' /\ queue'[n].dest = "group"
          BY <1>1, <1>2, <2>3, <4>3 DEF Unsent, GroupRow
        <5>3. Unsent(s)' \subseteq DOMAIN queue'
          BY DEF Unsent
        <5>4. QED
          BY <2>2, <5>1, <5>2, <5>3
      <4>5. WillBelieve(s)' <=> ((told[s]["group"] = "bot.unavailable") # (Unsent(s)' # {}))
        BY <1>2 DEF WillBelieve
      <4>6. n.to = "unavailable" => WillBelieve(s)'
        BY <2>5, <2>8, <4>3, <4>4, <4>5
      <4>7. n.to = "operational" => ~WillBelieve(s)'
        BY <2>5, <2>8, <4>3, <4>4, <4>5
      <4>8. QED
        BY <1>1, <4>1, <4>6, <4>7 DEF Agrees
    <3>3. QED
      BY <3>1, <3>2
  <2>10. QED
    BY <2>6, <2>9
<1>6. QED
  BY <1>1, <1>4, <1>5

\* An answered send turns the waiting message into what the group believes.
LEMMA BeliefSend ==
    ASSUME TypeInv, GroupPending, NEW n \in newest, Send(n, "ok"), NEW s \in Scopes
    PROVE  WillBelieve(s)' <=> WillBelieve(s)
<1>1. /\ pc = "deliver" /\ pc' = "record" /\ current' = {n} /\ UNCHANGED <<now, queue>>
      /\ told' = [told EXCEPT ![n.scope][queue[n].dest] = queue[n].template]
  BY DEF Send, dbVars
<1>2. /\ told \in [Scopes -> [Destination -> Template \cup {"nothing"}]]
      /\ n \in DOMAIN queue /\ queue[n].state = "pending" /\ n.scope \in Scopes
      /\ queue[n].dest \in Destination /\ now \in Nat
  BY <1>1 DEF TypeInv, TypeOK, BatchIsPending, Due, Key, Row
<1>3. CASE s # n.scope \/ queue[n].dest # "group"
  <2>1. told'[s]["group"] = told[s]["group"]
    BY <1>1, <1>2, <1>3 DEF Destination
  <2>2. Unsent(s)' = Unsent(s)
    BY <1>1, <1>3 DEF Unsent, GroupRow
  <2>3. QED
    BY <2>1, <2>2 DEF WillBelieve
<1>4. CASE s = n.scope /\ queue[n].dest = "group"
  <2>1. told'[s]["group"] = queue[n].template
    BY <1>1, <1>2, <1>4 DEF Destination
  <2>2. FreshNews(n)
    BY <1>2, <1>4 DEF GroupPending, GroupRow
  <2>3. queue[n].template = "bot.unavailable" <=> told[s]["group"] # "bot.unavailable"
    BY <1>1, <1>4, <2>2 DEF FreshNews, IsNews
  <2>4. n \in Unsent(s)
    BY <1>1, <1>2, <1>4 DEF Unsent, GroupRow
  <2>5. \A k \in Unsent(s)' : FALSE
    <3> SUFFICES ASSUME NEW k \in Unsent(s)' PROVE FALSE
      OBVIOUS
    <3>1. k \in DOMAIN queue /\ GroupRow(k) /\ k.scope = s /\ queue[k].state = "pending" /\ k # n
      BY <1>1 DEF Unsent, GroupRow
    <3>2. queue[k].created = now
      BY <3>1 DEF GroupPending, FreshNews
    <3>3. queue[k].created < now
      BY <1>4, <2>2, <3>1 DEF FreshNews, NewestOfItsScope
    <3>4. QED
      BY <1>2, <3>2, <3>3
  <2>6. QED
    BY <2>1, <2>3, <2>4, <2>5 DEF WillBelieve
<1>5. QED
  BY <1>3, <1>4

\* Every step keeps the open transitions and the group's belief in agreement.
LEMMA BeliefStep ==
    TypeInv /\ GroupInv /\ OpenTransitionIsCurrent /\ BeliefInv /\ [Next]_vars => BeliefInv'
<1> SUFFICES ASSUME TypeInv, GroupInv, OpenTransitionIsCurrent, BeliefInv, [Next]_vars
             PROVE  BeliefInv'
  OBVIOUS
<1>1. DOMAIN queue' \subseteq DOMAIN trans'
  <2>1. ASSUME NEW s \in todo, NEW ev \in Evaluations, SaveEvaluation(s, ev)
        PROVE  DOMAIN queue' \subseteq DOMAIN trans'
    <3> DEFINE n == [scope |-> s, from |-> snapshot[s], to |-> ev.state, observed |-> ev.observed]
    <3>1. /\ n \in Key
          /\ \/ UNCHANGED <<trans, queue>>
             \/ trans' = Closed(InsertOrIgnore(trans, n, "open"), s, n) /\ queue' = Enqueue(queue, n)
      BY <2>1, TransitionStep
    <3> HIDE DEF n
    <3>2. CASE trans' = Closed(InsertOrIgnore(trans, n, "open"), s, n) /\ queue' = Enqueue(queue, n)
      <4>1. DOMAIN queue' \subseteq DOMAIN queue \cup {n}
        BY <3>1, <3>2, EnqueueEffect DEF TypeInv, TypeOK
      <4>2. DOMAIN trans' = DOMAIN trans \cup {n}
        BY <3>2 DEF Closed, InsertOrIgnore
      <4>3. QED
        BY <4>1, <4>2 DEF BeliefInv
    <3>3. QED
      BY <3>1, <3>2 DEF BeliefInv
  <2>2. QED
    BY <2>1, OtherSteps DEF QueueOnlySettles, SnapshotsStay, BeliefInv
<1>2. ASSUME Answered' PROVE \A k \in DOMAIN trans' : trans'[k] = "open" => Agrees(k)'
  <2>1. /\ Answered /\ GroupTold /\ GroupPending /\ pc # "cancel"
        /\ \A k \in DOMAIN trans : trans[k] = "open" => Agrees(k)
    BY <1>2, AnsweredBefore DEF GroupInv, BeliefInv
  <2>2. ASSUME NEW s \in todo, NEW ev \in Evaluations, SaveEvaluation(s, ev)
        PROVE  \A k \in DOMAIN trans' : trans'[k] = "open" => Agrees(k)'
    BY <2>1, <2>2, BeliefEvaluate DEF BeliefInv
  <2>3. ASSUME trans' = trans, \A s \in Scopes : WillBelieve(s)' <=> WillBelieve(s)
        PROVE  \A k \in DOMAIN trans' : trans'[k] = "open" => Agrees(k)'
    <3>1. \A k \in DOMAIN trans : k.scope \in Scopes
      BY DEF TypeInv, TypeOK, Key
    <3>2. QED
      BY <2>1, <2>3, <3>1 DEF Agrees
  <2>4. ASSUME NEW n \in batch, Collapse(n)
        PROVE  \A k \in DOMAIN trans' : trans'[k] = "open" => Agrees(k)'
    <3>1. /\ trans' = trans /\ told' = told /\ pc = "deliver" /\ pc' = "deliver"
      BY <2>1, <2>4, GroupCollapse DEF Collapse
    <3>2. /\ DOMAIN queue' = DOMAIN queue
          /\ \A k \in DOMAIN queue : /\ queue'[k].dest = queue[k].dest
                                     /\ queue[k].dest = "group" => queue'[k] = queue[k]
      BY <2>1, <2>4, CollapseKeepsGroup
    <3>3. QED
      BY <2>1, <3>1, <3>2, BeliefStays
  <2>5. ASSUME NEW n \in newest, NEW outcome \in Outcomes, Send(n, outcome)
        PROVE  \A k \in DOMAIN trans' : trans'[k] = "open" => Agrees(k)'
    <3>1. pc' = "record" /\ ok' = (outcome = "ok") /\ trans' = trans
      BY <2>5 DEF Send, Notifier, dbVars
    <3>2. outcome = "ok"
      BY <1>2, <3>1 DEF Answered
    <3>3. QED
      BY <2>1, <2>3, <2>5, <3>1, <3>2, BeliefSend
  <2>6. CASE Record
    <3>1. /\ pc = "record" /\ pc' = "deliver" /\ ok /\ trans' = trans /\ told' = told
          /\ DOMAIN queue' = DOMAIN queue
      BY <2>1, <2>6 DEF Answered, Record
    <3>2. \A k \in DOMAIN queue :
            /\ k \notin current => queue'[k] = queue[k]
            /\ k \in current => queue'[k].state = "sent"
      <4> TAKE k \in DOMAIN queue
      <4>1. queue[k] \in Row
        BY DEF TypeInv, TypeOK
      <4>2. queue'[k] = IF k \in current THEN Delivered(queue[k]) ELSE queue[k]
        BY <2>6, <3>1 DEF Record
      <4>3. QED
        BY <4>1, <4>2 DEF Delivered, Row
    <3>3. \A s \in Scopes : Unsent(s)' = Unsent(s)
      BY <3>1, <3>2 DEF Unsent, GroupRow
    <3>4. QED
      BY <2>3, <3>1, <3>3 DEF WillBelieve
  <2>7. CASE StartRun \/ WriteEvent \/ SelectDue \/ FinishRun
    <3>1. UNCHANGED <<queue, told, trans>> /\ pc # "record" /\ pc' # "record"
      BY <2>7 DEF StartRun, WriteEvent, SelectDue, FinishRun, dbVars
    <3>2. QED
      BY <2>1, <3>1, BeliefStays
  <2>8. CASE UNCHANGED vars
    <3>1. UNCHANGED <<pc, current, trans, queue, told>>
      BY <2>8 DEF vars, runVars, dbVars
    <3>2. \A s \in Scopes : Unsent(s)' = Unsent(s)
      BY <3>1 DEF Unsent, GroupRow
    <3>3. QED
      BY <2>3, <3>1, <3>2 DEF WillBelieve
  <2>9. ~Crash
    <3>1. crashes \in Nat /\ crashes' = 0
      BY <1>2 DEF TypeInv, TypeOK, Answered, Reliable
    <3>2. QED
      BY <3>1 DEF Crash
  <2>10. CASE CancelRecovery
    BY <2>1, <2>10 DEF CancelRecovery
  <2>11. QED
    BY <2>2, <2>4, <2>5, <2>6, <2>7, <2>8, <2>9, <2>10 DEF Next, Step, Deliver, Horizon
<1>3. QED
  BY <1>1, <1>2 DEF BeliefInv

\* Between two undisturbed runs the group believes what the open transition of each
\* server says, for every sequence of evaluations, repeated ones included.
THEOREM GroupBelieves == Spec => []GroupBelievesTheState
<1>1. Init => BeliefInv
  BY DEF Init, EmptyTable, BeliefInv
<1>2. TypeInv /\ GroupInv /\ BeliefInv => GroupBelievesTheState
  <2> SUFFICES ASSUME TypeInv, GroupInv, BeliefInv, pc = "idle", Reliable,
                      NEW k \in DOMAIN trans, trans[k] = "open"
               PROVE  /\ k.to = "unavailable" => told[k.scope]["group"] = "bot.unavailable"
                      /\ k.to = "operational" => told[k.scope]["group"] # "bot.unavailable"
    BY DEF GroupBelievesTheState
  <2>1. Answered /\ GroupPending /\ Agrees(k)
    BY DEF Answered, GroupInv, BeliefInv
  <2>2. Unsent(k.scope) = {}
    BY <2>1 DEF Unsent, GroupPending, FreshNews
  <2>3. QED
    BY <2>1, <2>2 DEF Agrees, WillBelieve
<1>3. QED
  BY <1>1, <1>2, BeliefStep, GroupInvariant, OpenTransition, PTL DEF Spec

-----------------------------------------------------------------------------
(* Monitor *)

\* A non-empty set of naturals with a bound has a largest element.
LEMMA LargestExists ==
    ASSUME NEW n \in Nat, NEW S \in SUBSET (0..n), S # {}
    PROVE  Largest(S) \in S /\ \A y \in S : y <= Largest(S)
<1> DEFINE T == {n - x : x \in S}
<1>1. T \subseteq Nat /\ T # {}
  <2>1. PICK x : x \in S
    OBVIOUS
  <2>2. n - x \in T
    BY <2>1
  <2>3. \A y \in S : n - y \in Nat
    OBVIOUS
  <2>4. QED
    BY <2>2, <2>3
<1>2. \E t \in T : \A u \in T : ~(<<u, t>> \in OpToRel(<, Nat))
  <2>1. IsWellFoundedOn(OpToRel(<, Nat), Nat)
    BY NatLessThanWellFounded
  <2> HIDE DEF T
  <2>2. QED
    BY <1>1, <2>1, WFMin
<1>3. PICK t \in T : \A u \in T : ~(<<u, t>> \in OpToRel(<, Nat))
  BY <1>2
<1>4. \A u \in T : ~(u < t)
  BY <1>1, <1>3 DEF OpToRel
<1>5. PICK x \in S : t = n - x
  OBVIOUS
<1>6. \A y \in S : y <= x
  BY <1>4, <1>5
<1>7. QED
  BY <1>6 DEF Largest

\* The ladder of evaluate_scope ends in one of the four states.
LEMMA VerdictType == ASSUME NEW fresh, NEW n PROVE Verdict(fresh, n)[1] \in State
BY DEF Verdict, State

\* The bounds of the evidence table are naturals.
LEMMA MonitorConstants ==
    /\ Freshness \in Nat /\ Delay \in Nat /\ Skew \in Nat
    /\ Freshness <= Lag /\ Skew <= Ahead
BY MonitorAssumption

\* Whatever rows are stored, the evaluation is one Pipeline allows: unknown
\* without a time, or a state dated by evidence at most Lag old and Ahead early.
\* A dated one carries the time of a fresh row that no fresh row is younger than.
LEMMA EvaluationAllowed ==
    ASSUME now \in Nat, MonitorTypeOK, NEW s \in Scopes, NEW e
    PROVE  LET ev == EvaluateScope(obs[s], now, e, Confirmations)
           IN  /\ [state |-> ev.state, observed |-> ev.observed] \in Evaluations
               /\ ev.observed # NoTime =>
                    /\ \E o \in Fresh(obs[s], now) : o.at = ev.observed
                    /\ \A o \in Fresh(obs[s], now) : o.at <= ev.observed
<1> DEFINE fresh == Fresh(obs[s], now)
           times == {o.at : o \in fresh}
           ev == EvaluateScope(obs[s], now, e, Confirmations)
<1>1. \A o \in fresh : o.at \in 0..(now + Ahead) /\ now - o.at <= Lag
  BY MonitorConstants, ConstantTypes DEF Fresh, MonitorTypeOK
<1>2. CASE fresh = {}
  <2>1. times = {}
    BY <1>2
  <2>2. ev.state = "unknown" /\ ev.observed = LatestOf(times)
    BY <1>2 DEF EvaluateScope
  <2>3. ev.observed = NoTime
    BY <2>1, <2>2 DEF LatestOf
  <2> HIDE DEF ev
  <2>4. [state |-> ev.state, observed |-> ev.observed] \in Evaluations
    BY <2>2, <2>3 DEF Evaluations
  <2>5. QED
    BY <2>3, <2>4 DEF ev
<1>3. CASE fresh # {}
  <2>1. times # {} /\ times \in SUBSET (0..(now + Ahead)) /\ now + Ahead \in Nat
    BY <1>1, <1>3, ConstantTypes
  <2>2. Largest(times) \in times /\ \A t \in times : t <= Largest(times)
    <3> HIDE DEF times
    <3> QED BY <2>1, LargestExists
  <2>3. ev.state \in State
    BY <1>3, VerdictType DEF EvaluateScope
  <2>4. ev.observed = Largest(times)
    <3>1. ev.observed = LatestOf(times)
      BY DEF EvaluateScope
    <3>2. QED
      BY <2>1, <3>1 DEF LatestOf
  <2>5. Largest(times) \in {t \in 0..(now + Ahead) : now - t <= Lag}
    BY <1>1, <2>2
  <2>6. (\E o \in fresh : o.at = Largest(times)) /\ \A o \in fresh : o.at <= Largest(times)
    BY <2>2
  <2> HIDE DEF times, ev, fresh
  <2>7. [state |-> ev.state, observed |-> ev.observed] \in Evaluations
    BY <2>3, <2>4, <2>5 DEF Evaluations
  <2>8. QED
    BY <2>4, <2>6, <2>7 DEF fresh, ev
<1>4. QED
  BY <1>2, <1>3

\* Every step of Monitor is a step of Pipeline or leaves its state alone.
LEMMA StepImplements ==
    ASSUME TypeInv, MonitorTypeOK, [MonitorNext]_monitorVars
    PROVE  [Next]_vars
<1>1. ASSUME NEW s \in todo, NEW e, EvaluateServer(s, e) PROVE Next
  <2> DEFINE ev == EvaluateScope(obs[s], now, e, Confirmations)
             shown == [state |-> ev.state, observed |-> ev.observed]
  <2>1. shown \in Evaluations
    BY EvaluationAllowed DEF TypeInv, TypeOK
  <2>2. SaveEvaluation(s, ev)
    BY <1>1 DEF EvaluateServer
  <2>3. SaveEvaluation(s, shown)
    <3> HIDE DEF ev
    <3> QED BY <2>2 DEF SaveEvaluation
  <2> HIDE DEF ev, shown
  <2>4. QED
    BY <2>1, <2>3 DEF Next, Step
<1>2. CASE \E items \in [Scopes -> Collections] : CollectAndStart(items)
  BY <1>2 DEF CollectAndStart, Next
<1>3. CASE Rest
  BY <1>3 DEF Rest, Next, Step
<1>4. CASE UNCHANGED vars
  BY <1>4
<1>5. QED
  BY <1>1, <1>2, <1>3, <1>4 DEF MonitorNext, AcceptReport, monitorVars

\* The evidence table keeps its types while the clock moves on.
LEMMA EvidenceStep ==
    ASSUME TypeInv, MonitorTypeOK, [MonitorNext]_monitorVars
    PROVE  MonitorTypeOK'
<1>1. now \in Nat /\ Freshness \in Nat /\ Skew \in Nat
  BY MonitorConstants DEF TypeInv, TypeOK
<1>2. ASSUME NEW s \in Scopes, NEW report \in Reports, NEW at \in 0..(now + Skew),
             AcceptReport(s, report, at)
      PROVE  MonitorTypeOK'
  <2>1. now' = now /\ obs' = [obs EXCEPT ![s] = @ \cup {Observed(report, at)}]
    BY <1>2 DEF AcceptReport, vars
  <2>2. /\ Observed(report, at).at \in 0..(now + Skew) /\ Observed(report, at).until = Observed(report, at).at + Freshness
        /\ Observed(report, at).result \in ObservationResult
        /\ Observed(report, at).control \in Flag /\ Observed(report, at).route \in Flag
    BY <1>1, MonitorAssumption DEF Observed
  <2> HIDE DEF Observed
  <2>3. QED
    BY <2>1, <2>2 DEF MonitorTypeOK
<1>3. ASSUME NEW items \in [Scopes -> Collections], CollectAndStart(items)
      PROVE  MonitorTypeOK'
  <2>1. /\ now' = now + 1
        /\ obs' = [s \in Scopes |-> StillFresh(obs[s], now') \cup {Observed(item, now') : item \in items[s]}]
    BY <1>3 DEF CollectAndStart, StartRun
  <2>2. \A s \in Scopes : \A item \in items[s] :
          /\ Observed(item, now').at \in 0..(now' + Skew) /\ Observed(item, now').until = Observed(item, now').at + Freshness
          /\ Observed(item, now').result \in ObservationResult
          /\ Observed(item, now').control \in Flag /\ Observed(item, now').route \in Flag
    BY <1>1, <2>1 DEF Observed, Collections, CollectorReport, HumanActivity, ObservationResult, Flag
  <2>3. \A s \in Scopes : \A o \in StillFresh(obs[s], now') : o \in obs[s]
    BY DEF StillFresh
  <2>4. \A s \in Scopes : \A o \in obs[s] : o.at \in 0..(now' + Skew)
    BY <1>1, <2>1 DEF MonitorTypeOK
  <2> HIDE DEF Observed
  <2>5. QED
    BY <2>1, <2>2, <2>3, <2>4 DEF MonitorTypeOK
<1>4. CASE UNCHANGED <<now, obs>>
  BY <1>4 DEF MonitorTypeOK
<1>5. QED
  BY <1>2, <1>3, <1>4 DEF MonitorNext, EvaluateServer, SaveEvaluation, Rest, WriteEvent, Deliver,
     SelectDue, Collapse, CancelRecovery, Send, Record, FinishRun, Crash, Horizon, monitorVars, vars

\* The evidence table keeps its types, and the monitor implements the pipeline.
LEMMA MonitorInvariant == MonitorSpec => [](TypeInv /\ MonitorTypeOK)
<1>1. MonitorInit => TypeInv /\ MonitorTypeOK
  BY TypeInit DEF MonitorInit, MonitorTypeOK
<1>2. TypeInv /\ MonitorTypeOK /\ [MonitorNext]_monitorVars => (TypeInv /\ MonitorTypeOK)'
  BY StepImplements, EvidenceStep, TypeStep
<1>3. QED
  BY <1>1, <1>2, PTL DEF MonitorSpec

\* What the loop does to Pipeline's tables is what Pipeline allows.
LEMMA MonitorImplementsPipeline == MonitorSpec => Spec
<1>1. MonitorInit => Init
  BY DEF MonitorInit
<1>2. TypeInv /\ MonitorTypeOK /\ [MonitorNext]_monitorVars => [Next]_vars
  BY StepImplements
<1>3. QED
  BY <1>1, <1>2, MonitorInvariant, PTL DEF MonitorSpec, Spec

\* Over real evidence, late and early rows included, what is proved of the pipeline
\* for every evaluation holds: the administrator hears the truth, held and once, the
\* group hears in pairs and believes what the timeline shows, and only a crash loses
\* an event.
THEOREM MonitorSafety ==
    MonitorSpec => /\ []WaitingNoticeIsCurrent /\ []OpenTransitionIsCurrent
                   /\ []GroupBelievesTheState /\ []EventsLostOnlyByCrashes
                   /\ AdminHearsTheTruth /\ HoldIsKept
                   /\ GroupHearsInPairs /\ ResendsOnlyUnrecorded
BY MonitorImplementsPipeline, WaitingNotice, OpenTransition, GroupBelieves, EventsAreKept,
   AdminTruth, HoldKept, GroupHearsPairs, NoNeedlessResend, PTL

-----------------------------------------------------------------------------
(* The timeline follows the evidence.  A row leaves the table only when it  *)
(* has expired, and rows expire in the order of their times; so the row a   *)
(* recorded change was dated by is still there, or everything fresh is      *)
(* younger than it.                                                         *)

Vouched(k) ==
    \/ k.observed = NoTime
    \/ k.observed + Freshness < now
    \/ \E o \in obs[k.scope] : o.at = k.observed /\ o.route # "no"

VouchedInv == \A k \in DOMAIN trans : Vouched(k)

\* Rows that are added keep a change vouched for.
LEMMA AcceptVouches ==
    ASSUME TypeInv, MonitorTypeOK, VouchedInv,
           NEW s \in Scopes, NEW report \in Reports, NEW at \in 0..(now + Skew), AcceptReport(s, report, at)
    PROVE  VouchedInv'
<1>1. now' = now /\ trans' = trans /\ obs' = [obs EXCEPT ![s] = @ \cup {Observed(report, at)}]
  BY DEF AcceptReport, vars, dbVars
<1>2. \A k \in DOMAIN trans : obs[k.scope] \subseteq obs'[k.scope]
  BY <1>1 DEF MonitorTypeOK, TypeInv, TypeOK, Key
<1>3. QED
  BY <1>1, <1>2 DEF VouchedInv, Vouched

\* The start of a run forgets only rows that have expired.
LEMMA CollectVouches ==
    ASSUME TypeInv, MonitorTypeOK, VouchedInv, NEW items \in [Scopes -> Collections], CollectAndStart(items)
    PROVE  VouchedInv'
<1>1. /\ now' = now + 1 /\ trans' = trans /\ now \in Nat /\ Freshness \in Nat
      /\ obs' = [s \in Scopes |-> StillFresh(obs[s], now') \cup {Observed(item, now') : item \in items[s]}]
  BY MonitorConstants DEF CollectAndStart, StartRun, dbVars, TypeInv, TypeOK
<1> SUFFICES ASSUME NEW k \in DOMAIN trans PROVE Vouched(k)'
  BY <1>1 DEF VouchedInv
<1>2. k.scope \in Scopes /\ k.observed \in Int /\ Vouched(k)
  BY DEF TypeInv, TypeOK, Key, VouchedInv
<1>3. CASE k.observed = NoTime
  BY <1>3 DEF Vouched
<1>4. CASE k.observed + Freshness < now
  BY <1>1, <1>2, <1>4 DEF Vouched
<1>5. CASE \E o \in obs[k.scope] : o.at = k.observed /\ o.route # "no"
  <2>1. PICK o \in obs[k.scope] : o.at = k.observed /\ o.route # "no"
    BY <1>5
  <2>2. o.until = k.observed + Freshness
    BY <1>2, <2>1 DEF MonitorTypeOK
  <2>3. CASE o.until >= now'
    <3>1. o \in obs'[k.scope]
      BY <1>1, <1>2, <2>3 DEF StillFresh
    <3>2. QED
      BY <2>1, <3>1 DEF Vouched
  <2>4. CASE ~(o.until >= now')
    <3>1. k.observed + Freshness < now'
      BY <1>1, <1>2, <2>2, <2>4
    <3>2. QED
      BY <3>1 DEF Vouched
  <2>5. QED
    BY <2>3, <2>4
<1>6. QED
  BY <1>2, <1>3, <1>4, <1>5 DEF Vouched

\* A change that is saved carries the newest fresh time, which no recorded change
\* of the server exceeds, and the row it was taken from vouches for it.
LEMMA EvaluateVouches ==
    ASSUME TypeInv, MonitorTypeOK, VouchedInv, NEW s \in todo, NEW e, EvaluateServer(s, e)
    PROVE  VouchedInv' /\ NeverGoesBack
<1> DEFINE ev == EvaluateScope(obs[s], now, e, Confirmations)
           n == [scope |-> s, from |-> snapshot[s], to |-> ev.state, observed |-> ev.observed]
<1>1. /\ [state |-> ev.state, observed |-> ev.observed] \in Evaluations
      /\ ev.observed # NoTime => /\ \E o \in Fresh(obs[s], now) : o.at = ev.observed
                                 /\ \A o \in Fresh(obs[s], now) : o.at <= ev.observed
  BY EvaluationAllowed DEF TypeInv, TypeOK
<1>2. SaveEvaluation(s, ev) /\ obs' = obs
  BY DEF EvaluateServer
<1>3. s \in Scopes /\ now \in Nat /\ Freshness \in Nat
  BY MonitorConstants DEF TypeInv, TypeOK
<1> HIDE DEF ev
<1>4. /\ now' = now
      /\ \/ trans' = trans /\ pc' = pc
         \/ /\ DOMAIN trans' = DOMAIN trans \cup {n}
            /\ current' = {n}
  BY <1>2 DEF SaveEvaluation, Closed, InsertOrIgnore
<1>5. n.observed = ev.observed /\ n.scope = s
  OBVIOUS
<1> HIDE DEF n
<1>6. Vouched(n)
  BY <1>1, <1>5 DEF Vouched, Fresh
<1>7. VouchedInv'
  BY <1>2, <1>4, <1>6 DEF VouchedInv, Vouched
<1>8. ASSUME n.observed # NoTime, NEW j \in DOMAIN trans, j.scope = s
      PROVE  j.observed <= n.observed
  <2>1. PICK o \in Fresh(obs[s], now) : o.at = n.observed
    BY <1>1, <1>5, <1>8
  <2>2. o.at \in 0..(now + Skew) /\ o.until = o.at + Freshness /\ o.until >= now
    BY <1>3, <2>1 DEF Fresh, MonitorTypeOK
  <2>3. o.at \in Nat
    BY <1>3, <2>2, MonitorConstants
  <2>4. j.observed \in Int /\ Vouched(j)
    BY DEF TypeInv, TypeOK, Key, VouchedInv
  <2>5. CASE j.observed = NoTime
    BY <2>1, <2>3, <2>5 DEF NoTime
  <2>6. CASE j.observed + Freshness < now
    BY <1>3, <2>1, <2>2, <2>3, <2>4, <2>6
  <2>7. CASE ~(j.observed + Freshness < now) /\ \E p \in obs[s] : p.at = j.observed /\ p.route # "no"
    <3>1. PICK p \in obs[s] : p.at = j.observed /\ p.route # "no"
      BY <2>7
    <3>2. p.until = j.observed + Freshness
      BY <1>3, <3>1 DEF MonitorTypeOK
    <3>3. p.until >= now
      BY <1>3, <2>4, <2>7, <3>2
    <3>4. p \in Fresh(obs[s], now)
      BY <3>1, <3>3 DEF Fresh
    <3>5. QED
      BY <1>1, <1>5, <1>8, <3>1, <3>4
  <2>8. QED
    BY <1>8, <2>4, <2>5, <2>6, <2>7 DEF Vouched
<1>9. pc = "evaluate" /\ pc' = "event" => current' = {n}
  BY <1>4
<1>10. NeverGoesBack
  BY <1>5, <1>8, <1>9 DEF NeverGoesBack
<1>11. QED
  BY <1>7, <1>10

\* No other step saves a change or touches the rows.
LEMMA RestVouches ==
    ASSUME TypeInv, VouchedInv, Rest \/ UNCHANGED monitorVars
    PROVE  VouchedInv' /\ NeverGoesBack
<1>1. UNCHANGED <<now, trans, obs>> /\ ~(pc = "evaluate" /\ pc' = "event")
  BY DEF Rest, WriteEvent, Deliver, SelectDue, Collapse, CancelRecovery, Send, Record, FinishRun, Crash,
     Horizon, monitorVars, vars, dbVars, runVars
<1>2. QED
  BY <1>1 DEF VouchedInv, Vouched, NeverGoesBack

\* A change of a server is never dated before an earlier one, for any reports, delay,
\* skew and freshness: the key of a change repeats only while nothing newer was seen.
THEOREM TimelineFollowsEvidence == MonitorSpec => EvidenceNeverGoesBack
<1>1. MonitorInit => VouchedInv
  BY DEF MonitorInit, Init, EmptyTable, VouchedInv
<1>2. ASSUME TypeInv, MonitorTypeOK, VouchedInv, [MonitorNext]_monitorVars
      PROVE  VouchedInv' /\ NeverGoesBack
  <2>1. ASSUME NEW s \in Scopes, NEW report \in Reports, NEW at \in 0..(now + Skew),
               AcceptReport(s, report, at)
        PROVE  VouchedInv' /\ NeverGoesBack
    <3>1. pc' = pc
      BY <2>1 DEF AcceptReport, vars, runVars
    <3>2. QED
      BY <1>2, <2>1, <3>1, AcceptVouches DEF NeverGoesBack
  <2>2. ASSUME NEW items \in [Scopes -> Collections], CollectAndStart(items)
        PROVE  VouchedInv' /\ NeverGoesBack
    <3>1. pc' = "evaluate"
      BY <2>2 DEF CollectAndStart, StartRun
    <3>2. QED
      BY <1>2, <2>2, <3>1, CollectVouches DEF NeverGoesBack
  <2>3. ASSUME NEW s \in todo, NEW e, EvaluateServer(s, e)
        PROVE  VouchedInv' /\ NeverGoesBack
    BY <1>2, <2>3, EvaluateVouches
  <2>4. CASE Rest \/ UNCHANGED monitorVars
    BY <1>2, <2>4, RestVouches
  <2>5. QED
    BY <1>2, <2>1, <2>2, <2>3, <2>4 DEF MonitorNext
<1>3. QED
  BY <1>1, <1>2, MonitorInvariant, PTL DEF MonitorSpec, EvidenceNeverGoesBack
=============================================================================
