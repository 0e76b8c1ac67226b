---------------------------- MODULE ReportProofs -----------------------------
(***************************************************************************)
(* The way of a report.  Theorems of ProbeApi: reports are idempotent, for *)
(* any number of worker threads, report ids and bodies, and whenever the   *)
(* sweep runs.  Theorems of ProbeAbroad: its queue delivers in order and   *)
(* loses nothing, whatever request is lost and wherever the process is     *)
(* killed.                                                                 *)
(***************************************************************************)
EXTENDS ProbeApi, ProbeAbroad, SequenceTheorems, WellFoundedInduction, TLAPS

Observations == [report : Reports, body : Bodies, at : Nat]

\* A report that is about to be stored is one a probe may send.
TasksOK ==
    /\ DOMAIN thread = Threads
    /\ \A t \in Threads : thread[t].pc = "accept" =>
          thread[t].report \in Reports /\ thread[t].body \in Bodies /\ thread[t].at \in Nat

ReportTypeOK == now \in Nat /\ obs \subseteq Observations /\ ever \subseteq Observations /\ TasksOK

\* What was ever written is still there, or was old enough to be swept.
SweptIsOld == \A o \in ever : o \in obs \/ o.at < now - Retention

ReportInv == ReportTypeOK /\ OneObservationPerReport /\ SweptIsOld

-----------------------------------------------------------------------------

\* What the assumption says, in the form the provers use.
LEMMA ApiConstants ==
  Freshness \in Nat /\ Retention \in Nat /\ Skew \in Nat /\ MaxTime \in Nat /\ Freshness < Retention
  BY ApiAssumption

\* The invariant holds at first.
LEMMA InitReports == Init => ReportInv
<1> SUFFICES ASSUME Init PROVE ReportInv
  OBVIOUS
<1>1. TasksOK
  BY DEF Init, TasksOK, Idle
<1> QED BY <1>1 DEF Init, ReportInv, ReportTypeOK, OneObservationPerReport, SweptIsOld

\* A step that leaves clock and evidence alone, and gives a thread nothing to store.
LEMMA OtherStepKeeps ==
  ASSUME ReportInv, UNCHANGED <<now, reports, obs, ever>>, TasksOK'
  PROVE  ReportInv'
  BY DEF ReportInv, ReportTypeOK, OneObservationPerReport, SweptIsOld

\* A handler that goes on keeps the tasks of the others.
LEMMA BecomeKeeps ==
  ASSUME TasksOK, NEW t \in Threads, NEW task, Become(t, task),
         task.pc = "accept" => task.report \in Reports /\ task.body \in Bodies /\ task.at \in Nat
  PROVE  TasksOK'
  BY DEF TasksOK, Become

\* Enrollments leave the reports alone.
LEMMA EnrollingKeeps == ReportInv /\ Enrolling => ReportInv'
<1> SUFFICES ASSUME ReportInv, NEW t \in Threads,
                    \/ ConsumeCode(t) \/ RegisterProbe(t) \/ RefuseProbe(t)
                    \/ \E c \in Codes : ReadCode(t, c)
             PROVE  ReportInv'
  BY DEF Enrolling
<1>1. UNCHANGED <<now, reports, obs, ever>>
  BY DEF ConsumeCode, RegisterProbe, RefuseProbe, ReadCode
<1>2. TasksOK'
  <2>1. CASE ConsumeCode(t)
    <3>1. Become(t, [thread[t] EXCEPT !.pc = "register"]) /\ thread[t].pc = "consume"
      BY <2>1 DEF ConsumeCode
    <3>2. [thread[t] EXCEPT !.pc = "register"].pc # "accept"
      OBVIOUS
    <3> QED BY <3>1, <3>2, BecomeKeeps DEF ReportInv, ReportTypeOK
  <2>2. CASE RegisterProbe(t) \/ RefuseProbe(t)
    BY <2>2, BecomeKeeps DEF RegisterProbe, RefuseProbe, Idle, ReportInv, ReportTypeOK
  <2>3. ASSUME NEW c \in Codes, ReadCode(t, c) PROVE TasksOK'
    BY <2>3, BecomeKeeps DEF ReadCode, ReportInv, ReportTypeOK
  <2> QED BY <2>1, <2>2, <2>3
<1> QED BY <1>1, <1>2, OtherStepKeeps

\* A token is checked; the report waits for its transaction.
LEMMA RequireKeeps ==
  ASSUME ReportInv, NEW t \in Threads, NEW i \in DOMAIN probes, NEW r \in Reports, NEW body \in Bodies,
         NEW at \in 0..(now + Skew), RequireProbe(t, i, r, body, at)
  PROVE  ReportInv'
<1>1. at \in Nat
  BY ApiConstants DEF ReportInv, ReportTypeOK
<1>2. TasksOK'
  BY <1>1, BecomeKeeps DEF RequireProbe, ReportInv, ReportTypeOK
<1> QED BY <1>2, OtherStepKeeps DEF RequireProbe

\* What accept_report does to the tables: nothing, or one row in each of them.
LEMMA AcceptEffect ==
  ASSUME ReportInv, NEW t \in Threads, AcceptReport(t)
  PROVE  LET o == [report |-> thread[t].report, body |-> thread[t].body, at |-> thread[t].at]
         IN  /\ o \in Observations /\ TasksOK' /\ now' = now /\ ever' = ever \cup obs'
             /\ \/ UNCHANGED <<reports, obs>>
                \/ /\ o.report \notin DOMAIN reports /\ obs' = obs \cup {o}
                   /\ reports' = [r \in DOMAIN reports \cup {o.report} |->
                                    IF r = o.report THEN [body |-> o.body, at |-> o.at] ELSE reports[r]]
<1>1. thread[t].report \in Reports /\ thread[t].body \in Bodies /\ thread[t].at \in Nat
  BY DEF AcceptReport, ReportInv, ReportTypeOK, TasksOK
<1>2. TasksOK'
  BY BecomeKeeps DEF AcceptReport, Idle, ReportInv, ReportTypeOK
<1> QED BY <1>1, <1>2 DEF AcceptReport, Observations

\* accept_report: a known id is answered, a new one stored with its observation.
LEMMA AcceptKeeps == ASSUME ReportInv, NEW t \in Threads, AcceptReport(t) PROVE ReportInv'
<1> DEFINE o == [report |-> thread[t].report, body |-> thread[t].body, at |-> thread[t].at]
<1>1. /\ o \in Observations /\ TasksOK' /\ now' = now /\ ever' = ever \cup obs'
      /\ \/ UNCHANGED <<reports, obs>>
         \/ /\ o.report \notin DOMAIN reports /\ obs' = obs \cup {o}
            /\ reports' = [r \in DOMAIN reports \cup {o.report} |->
                             IF r = o.report THEN [body |-> o.body, at |-> o.at] ELSE reports[r]]
  BY AcceptEffect
<1> HIDE DEF o
<1>2. ReportTypeOK'
  BY <1>1 DEF ReportInv, ReportTypeOK
<1>3. OneObservationPerReport'
  <2>1. CASE UNCHANGED <<reports, obs>>
    BY <2>1 DEF ReportInv, OneObservationPerReport
  <2>2. CASE /\ o.report \notin DOMAIN reports /\ obs' = obs \cup {o}
             /\ reports' = [r \in DOMAIN reports \cup {o.report} |->
                              IF r = o.report THEN [body |-> o.body, at |-> o.at] ELSE reports[r]]
    <3> SUFFICES ASSUME NEW p \in obs'
                 PROVE  p.report \in DOMAIN reports' /\ reports'[p.report] = [body |-> p.body, at |-> p.at]
      BY DEF OneObservationPerReport
    <3>1. CASE p \in obs
      <4>1. p.report \in DOMAIN reports /\ reports[p.report] = [body |-> p.body, at |-> p.at]
        BY <3>1 DEF ReportInv, OneObservationPerReport
      <4> QED BY <2>2, <4>1
    <3>2. CASE p = o
      BY <2>2, <3>2
    <3> QED BY <2>2, <3>1, <3>2
  <2> QED BY <1>1, <2>1, <2>2
<1>4. SweptIsOld'
  BY <1>1 DEF ReportInv, SweptIsOld
<1> QED BY <1>2, <1>3, <1>4 DEF ReportInv

\* The sweep keeps a report for as long as it keeps an observation of it.
LEMMA SweepKeeps == ReportInv /\ Sweep => ReportInv'
<1> SUFFICES ASSUME ReportInv, Sweep PROVE ReportInv'
  OBVIOUS
<1>1. /\ obs' = {o \in obs : o.at >= now - Retention} /\ UNCHANGED <<now, thread, ever>>
      /\ reports' = [r \in {q \in DOMAIN reports : \/ reports[q].at >= now - Retention
                                                   \/ \E o \in obs' : o.report = q} |-> reports[r]]
  BY DEF Sweep
<1>2. ReportTypeOK'
  BY <1>1 DEF ReportInv, ReportTypeOK, TasksOK
<1>3. OneObservationPerReport'
  BY <1>1 DEF ReportInv, OneObservationPerReport
<1>4. SweptIsOld'
  BY <1>1, ApiConstants DEF ReportInv, ReportTypeOK, Observations, SweptIsOld
<1> QED BY <1>2, <1>3, <1>4 DEF ReportInv

\* As time passes nothing becomes fresh again.
LEMMA TickKeeps == ReportInv /\ Tick => ReportInv'
<1> SUFFICES ASSUME ReportInv, Tick PROVE ReportInv'
  OBVIOUS
<1>1. now' = now + 1 /\ UNCHANGED <<reports, obs, thread, ever>>
  BY DEF Tick
<1>2. ReportTypeOK'
  BY <1>1 DEF ReportInv, ReportTypeOK, TasksOK
<1>3. OneObservationPerReport'
  BY <1>1 DEF ReportInv, OneObservationPerReport
<1>4. SweptIsOld'
  BY <1>1, ApiConstants DEF ReportInv, ReportTypeOK, Observations, SweptIsOld
<1> QED BY <1>2, <1>3, <1>4 DEF ReportInv

\* The administrator's routes and commands leave the reports alone.
LEMMA AdministratorKeeps ==
  ASSUME ReportInv, \/ \E c \in Codes, kind \in Kinds : PostEnrollment(c, kind) \/ EnrollCommand(c, kind)
                    \/ \E i \in DOMAIN probes : PostRevoke(i) \/ RevokeCommand(i)
  PROVE  ReportInv'
<1>1. UNCHANGED <<now, reports, obs, thread, ever>>
  BY DEF PostEnrollment, EnrollCommand, CreateEnrollment, PostRevoke, RevokeCommand, RevokeProbe
<1>2. TasksOK'
  BY <1>1 DEF ReportInv, ReportTypeOK, TasksOK
<1> QED BY <1>1, <1>2, OtherStepKeeps

\* The inductive invariant of the report tables.
THEOREM ReportsSafe == Spec => []ReportInv
<1>1. ASSUME ReportInv, [Next]_vars PROVE ReportInv'
  <2>1. CASE UNCHANGED vars
    <3>1. TasksOK'
      BY <1>1, <2>1 DEF vars, ReportInv, ReportTypeOK, TasksOK
    <3> QED BY <1>1, <2>1, <3>1, OtherStepKeeps DEF vars
  <2>2. CASE Next
    BY <1>1, <2>2, EnrollingKeeps, RequireKeeps, AcceptKeeps, SweepKeeps, TickKeeps, AdministratorKeeps
       DEF Next, Reporting
  <2> QED BY <1>1, <2>1, <2>2
<1> QED BY <1>1, InitReports, PTL DEF Spec

\* accept_report is idempotent by report_id, whichever threads bring a report.
THEOREM Idempotent == Spec => []OneObservationPerReport
<1>1. ReportInv => OneObservationPerReport
  BY DEF ReportInv
<1> QED BY <1>1, ReportsSafe, PTL

\* A report that is stored again after the sweep forgot it does not count any more.
THEOREM ResentIsStale == Spec => ResentIsNotFresh
<1> DEFINE A == \A o \in obs' : o \notin obs /\ o \in ever => o.at + Freshness < now
<1>1. ReportInv /\ [Next]_vars => [A]_vars
  <2> SUFFICES ASSUME ReportInv, Next, NEW o \in obs', o \notin obs, o \in ever
               PROVE  o.at + Freshness < now
    OBVIOUS
  <2>1. o \in Observations /\ o.at < now - Retention /\ now \in Nat
    BY DEF ReportInv, ReportTypeOK, SweptIsOld
  <2>2. o.at \in Nat
    BY <2>1 DEF Observations
  <2> QED BY <2>1, <2>2, ApiConstants
<1> QED BY <1>1, ReportsSafe, PTL DEF Spec, ResentIsNotFresh

-----------------------------------------------------------------------------
(* The cross-server probe *)

\* The limits of the queue.
LEMMA QueueConstants ==
  QUEUE_MAX_ENTRIES \in Nat \ {0} /\ QUEUE_MAX_AGE \in Nat /\ MaxRounds \in Nat /\ MaxCrashes \in Nat
BY ProbeAssumption

Rows == [id : Nat, queued : Nat]

\* Older reports first.
Ascending(rows) == \A i, j \in DOMAIN rows : i < j => rows[i].id < rows[j].id

In(row, rows) == \E j \in DOMAIN rows : rows[j] = row

\* The API has the report, or nothing younger.
Due(row) == row.id \in Stored \/ \A old \in Stored : old < row.id

Expired(row) == row.queued < time - QUEUE_MAX_AGE

QueueTypeOK ==
    /\ time \in 0..MaxRounds /\ made \in 0..time /\ crashes \in Nat /\ copies \in [1..MaxRounds -> Nat]
    /\ file \in Seq(Rows) /\ pending \in Seq(Rows) /\ Len(file) <= QUEUE_MAX_ENTRIES
    /\ pc \in {"idle", "send", "save", "write"}
    /\ pc = "send" => pending # <<>>
    /\ pc = "idle" => pending = <<>>
    /\ pc = "write" => file = <<>>

\* Ids are those of reports made.
MadeInv ==
    /\ \A i \in DOMAIN file : file[i].id \in 1..made
    /\ \A i \in DOMAIN pending : pending[i].id \in 1..made
    /\ Stored \subseteq 1..made

\* What may still be sent comes after all the API has.
OrderInv ==
    /\ Ascending(file) /\ Ascending(pending)
    /\ \A i \in DOMAIN pending : Due(pending[i])
    /\ \A i \in DOMAIN file : Due(file[i]) \/ Expired(file[i])

\* Until the file is written again, what it has is in memory, with the API, or too old.
MemoryInv ==
    pc \in {"send", "save"} =>
        \A i \in DOMAIN file : \/ In(file[i], pending) \/ file[i].id \in Stored \/ Expired(file[i])

QueueInv == QueueTypeOK /\ MadeInv /\ OrderInv /\ MemoryInv

\* A set of naturals with 0 and with the successors of its elements has them all.
LEMMA AllNaturals ==
  ASSUME NEW T \in SUBSET Nat, 0 \in T, \A n \in T : n + 1 \in T
  PROVE  T = Nat
<1> SUFFICES ASSUME Nat \ T # {} PROVE FALSE
  OBVIOUS
<1> DEFINE U == Nat \ T
<1>1. U \subseteq Nat /\ U # {}
  OBVIOUS
<1>2. \E n \in U : \A m \in U : ~(<<m, n>> \in OpToRel(<, Nat))
  <2> HIDE DEF U
  <2> QED BY <1>1, NatLessThanWellFounded, WFMin
<1>3. PICK n \in U : \A m \in U : ~(m < n)
  BY <1>2 DEF OpToRel
<1>4. n - 1 \in U /\ n - 1 < n
  BY <1>3
<1> QED BY <1>3, <1>4

\* r[n] is what load_queue keeps of the first n lines, with the cutoff c.
Loads(r, lines, c) ==
    r = [n \in 0..Len(lines) |->
           IF n = 0 THEN <<>> ELSE IF lines[n].queued >= c THEN Append(r[n - 1], lines[n]) ELSE r[n - 1]]

\* The loop of load_queue is defined for every file.
LEMMA LoadsExists ==
  ASSUME NEW lines, Len(lines) \in Nat, NEW c
  PROVE  \E r : Loads(r, lines, c)
<1> DEFINE Step(r, n) == IF n = 0 THEN <<>>
                         ELSE IF lines[n].queued >= c THEN Append(r[n - 1], lines[n]) ELSE r[n - 1]
           T == {m \in Nat : \E r : r = [n \in 0..m |-> Step(r, n)]}
<1>1. 0 \in T
  <2> DEFINE r == [n \in 0..0 |-> <<>>]
  <2>1. \A n \in 0..0 : n = 0
    OBVIOUS
  <2>2. r = [n \in 0..0 |-> Step(r, n)]
    BY <2>1
  <2> QED BY <2>2
<1>2. ASSUME NEW m \in T PROVE m + 1 \in T
  <2>0. m \in Nat /\ m + 1 \in Nat
    BY <1>2
  <2>1. PICK r : r = [n \in 0..m |-> Step(r, n)]
    BY <1>2
  <2> DEFINE q == [n \in 0..(m + 1) |-> Step(r, n)]
  <2>2. \A n \in 0..m : q[n] = r[n]
    <3>1. \A n \in 0..m : n \in 0..(m + 1)
      BY <2>0
    <3> HIDE DEF Step
    <3>3. \A n \in 0..m : r[n] = Step(r, n)
      BY <2>1
    <3>2. \A n \in 0..(m + 1) : q[n] = Step(r, n)
      OBVIOUS
    <3> HIDE DEF q
    <3> QED BY <3>1, <3>2, <3>3
  <2>3. \A n \in 0..(m + 1) : n # 0 => n - 1 \in 0..m
    BY <2>0
  <2> HIDE DEF q
  <2>4. \A n \in 0..(m + 1) : Step(r, n) = Step(q, n)
    BY <2>2, <2>3
  <2>5. q = [n \in 0..(m + 1) |-> Step(q, n)]
    <3> HIDE DEF Step
    <3> QED BY <2>4 DEF q
  <2> HIDE DEF Step
  <2> QED BY <2>0, <2>5
<1>3. Len(lines) \in T
  <2>1. T \subseteq Nat
    OBVIOUS
  <2> HIDE DEF T
  <2> QED BY <1>1, <1>2, <2>1, AllNaturals
<1>4. \E r : r = [n \in 0..Len(lines) |-> Step(r, n)]
  <2> HIDE DEF Step
  <2> QED BY <1>3
<1> QED BY <1>4 DEF Loads

\* What load_queue keeps: lines of the file in their order, all the young ones.
LEMMA LoadsKeeps ==
  ASSUME NEW lines \in Seq(Rows), NEW c \in Int, NEW r, Loads(r, lines, c), Ascending(lines)
  PROVE  /\ r[Len(lines)] \in Seq(Rows) /\ Ascending(r[Len(lines)])
         /\ \A i \in DOMAIN r[Len(lines)] : In(r[Len(lines)][i], lines) /\ r[Len(lines)][i].queued >= c
         /\ \A k \in DOMAIN lines : lines[k].queued >= c => In(lines[k], r[Len(lines)])
<1> DEFINE Good(n, q) ==
             /\ q \in Seq(Rows) /\ Ascending(q)
             /\ \A i \in DOMAIN q : q[i].queued >= c /\ \E k \in 1..n : q[i] = lines[k]
             /\ \A k \in 1..n : lines[k].queued >= c => In(lines[k], q)
           T == {n \in Nat : n <= Len(lines) => Good(n, r[n])}
<1>0. Len(lines) \in Nat /\ DOMAIN lines = 1..Len(lines) /\ \A k \in 1..Len(lines) : lines[k] \in Rows
  BY LenProperties
<1>1. \A n \in 0..Len(lines) :
         r[n] = IF n = 0 THEN <<>> ELSE IF lines[n].queued >= c THEN Append(r[n - 1], lines[n]) ELSE r[n - 1]
  BY DEF Loads
<1>2. Good(0, <<>>)
  BY DEF Ascending
<1>3. ASSUME NEW n \in Nat, n + 1 <= Len(lines), NEW q, Good(n, q)
      PROVE  /\ lines[n + 1].queued >= c => Good(n + 1, Append(q, lines[n + 1]))
             /\ ~(lines[n + 1].queued >= c) => Good(n + 1, q)
  <2> DEFINE row == lines[n + 1]
             p == Append(q, row)
  <2>1. row \in Rows /\ q \in Seq(Rows) /\ Ascending(q) /\ n + 1 \in 1..Len(lines)
    BY <1>0, <1>3
  <2>2. \A i \in DOMAIN q : q[i].queued >= c /\ \E k \in 1..n : q[i] = lines[k]
    BY <1>3
  <2>3. \A k \in 1..n : lines[k].queued >= c => In(lines[k], q)
    BY <1>3
  <2>4. \A k \in 1..(n + 1) : k \in 1..n \/ k = n + 1
    OBVIOUS
  <2>5. \A k \in 1..n : k \in 1..(n + 1) /\ k \in DOMAIN lines /\ n + 1 \in DOMAIN lines /\ k < n + 1
    BY <1>0, <1>3
  <2>6. \A k \in 1..n : lines[k].id < row.id
    BY <2>5 DEF Ascending
  <2>7. ASSUME ~(row.queued >= c) PROVE Good(n + 1, q)
    <3>1. \A i \in DOMAIN q : q[i].queued >= c /\ \E k \in 1..(n + 1) : q[i] = lines[k]
      BY <2>2, <2>5
    <3>2. \A k \in 1..(n + 1) : lines[k].queued >= c => In(lines[k], q)
      BY <2>3, <2>4, <2>7
    <3> QED BY <2>1, <3>1, <3>2
  <2>8. ASSUME row.queued >= c PROVE Good(n + 1, p)
    <3> HIDE DEF row
    <3>1. /\ p \in Seq(Rows) /\ Len(q) \in Nat /\ Len(p) = Len(q) + 1 /\ DOMAIN q = 1..Len(q) /\ DOMAIN p = 1..Len(p)
          /\ (\A i \in 1..Len(q) : p[i] = q[i]) /\ p[Len(q) + 1] = row
      BY <2>1, AppendProperties, LenProperties
    <3> HIDE DEF p
    <3>2. \A i \in DOMAIN p : (i \in DOMAIN q /\ p[i] = q[i]) \/ (i = Len(q) + 1 /\ p[i] = row)
      <4>1. \A i \in 1..(Len(q) + 1) : i \in 1..Len(q) \/ i = Len(q) + 1
        BY <3>1
      <4> QED BY <3>1, <4>1
    <3>3. \A i \in DOMAIN q : i \in DOMAIN p /\ p[i] = q[i] /\ Len(q) + 1 \in DOMAIN p
      BY <3>1
    <3>4. Ascending(p)
      <4> SUFFICES ASSUME NEW i \in DOMAIN p, NEW j \in DOMAIN p, i < j PROVE p[i].id < p[j].id
        BY DEF Ascending
      <4>1. i \in DOMAIN q /\ p[i] = q[i]
        BY <3>1, <3>2
      <4>2. CASE j \in DOMAIN q /\ p[j] = q[j]
        BY <2>1, <4>1, <4>2 DEF Ascending
      <4>3. CASE p[j] = row
        BY <2>2, <2>6, <4>1, <4>3
      <4> QED BY <3>2, <4>2, <4>3
    <3>5. \A i \in DOMAIN p : p[i].queued >= c /\ \E k \in 1..(n + 1) : p[i] = lines[k]
      <4>1. n + 1 \in 1..(n + 1) /\ row = lines[n + 1]
        BY DEF row
      <4> QED BY <2>2, <2>5, <2>8, <3>2, <4>1
    <3>6. \A k \in 1..(n + 1) : lines[k].queued >= c => In(lines[k], p)
      <4>1. In(row, p)
        BY <3>1 DEF In
      <4>2. \A x : In(x, q) => In(x, p)
        BY <3>3 DEF In
      <4> QED BY <2>3, <2>4, <4>1, <4>2 DEF row
    <3> QED BY <3>1, <3>4, <3>5, <3>6
  <2> QED BY <2>7, <2>8
<1> HIDE DEF Good
<1>4. 0 \in T
  BY <1>0, <1>1, <1>2
<1>5. ASSUME NEW n \in T PROVE n + 1 \in T
  <2> SUFFICES ASSUME n \in Nat, n + 1 <= Len(lines) PROVE Good(n + 1, r[n + 1])
    BY <1>5
  <2>1. Good(n, r[n])
    BY <1>0, <1>5
  <2>2. r[n + 1] = IF lines[n + 1].queued >= c THEN Append(r[n], lines[n + 1]) ELSE r[n]
    <3>1. n + 1 \in 0..Len(lines) /\ n + 1 # 0 /\ (n + 1) - 1 = n
      BY <1>0
    <3> QED BY <1>1, <3>1
  <2> QED BY <1>3, <2>1, <2>2
<1>6. Len(lines) \in T
  <2>1. T \subseteq Nat
    OBVIOUS
  <2> HIDE DEF T
  <2> QED BY <1>0, <1>4, <1>5, <2>1, AllNaturals
<1>7. Good(Len(lines), r[Len(lines)])
  BY <1>0, <1>6
<1> QED BY <1>0, <1>7 DEF Good, In

\* The last n rows of a queue.
LEMMA LastNIs ==
  ASSUME NEW rows \in Seq(Rows), NEW n \in Nat \ {0}
  PROVE  /\ LastN(rows, n) \in Seq(Rows)
         /\ Len(rows) <= n => LastN(rows, n) = rows
         /\ ~(Len(rows) <= n) => Len(LastN(rows, n)) = n
         /\ Len(LastN(rows, n)) <= n
         /\ \A i \in DOMAIN LastN(rows, n) : In(LastN(rows, n)[i], rows)
         /\ Ascending(rows) => Ascending(LastN(rows, n))
         /\ Ascending(rows) =>
              \A k \in DOMAIN rows : \/ In(rows[k], LastN(rows, n))
                                     \/ \A i \in DOMAIN LastN(rows, n) : LastN(rows, n)[i].id > rows[k].id
<1> DEFINE last == LastN(rows, n)
           m == IF Len(rows) > n THEN Len(rows) - n + 1 ELSE 1
<1>1. Len(rows) \in Nat /\ DOMAIN rows = 1..Len(rows) /\ m \in Int /\ m >= 1 /\ \A i \in m..Len(rows) : rows[i] \in Rows
  <2>1. Len(rows) \in Nat /\ DOMAIN rows = 1..Len(rows) /\ \A i \in 1..Len(rows) : rows[i] \in Rows
    BY LenProperties
  <2>2. m \in Int /\ m >= 1
    BY <2>1
  <2> HIDE DEF m
  <2> QED BY <2>1, <2>2
<1>2. last = SubSeq(rows, m, Len(rows))
  BY DEF LastN
<1>3. /\ (Len(rows) <= n => m = 1) /\ (~(Len(rows) <= n) => Len(rows) - m + 1 = n /\ m <= Len(rows))
      /\ Len(rows) - m + 1 <= n
  BY <1>1
<1> HIDE DEF last, m
<1>4. /\ last \in Seq(Rows) /\ Len(last) = (IF m <= Len(rows) THEN Len(rows) - m + 1 ELSE 0)
      /\ \A i \in 1..(Len(rows) - m + 1) : last[i] = rows[m + i - 1]
  <2>1. Len(rows) \in Int
    BY <1>1
  <2> QED BY <1>1, <1>2, <2>1, SubSeqProperties
<1>5. Len(rows) <= n => last = rows
  BY <1>2, <1>3, SubSeqFull
<1>6. (~(Len(rows) <= n) => Len(last) = n) /\ Len(last) <= n
  BY <1>1, <1>3, <1>4
<1>7. DOMAIN last = 1..Len(last)
  BY <1>4, LenProperties
<1>8. \A i \in DOMAIN last : last[i] = rows[m + i - 1] /\ m + i - 1 \in DOMAIN rows /\ i \in Int
  <2> SUFFICES ASSUME NEW i \in DOMAIN last
               PROVE  last[i] = rows[m + i - 1] /\ m + i - 1 \in DOMAIN rows /\ i \in Int
    OBVIOUS
  <2>1. i \in 1..(Len(rows) - m + 1)
    BY <1>1, <1>4, <1>7
  <2>2. m + i - 1 \in 1..Len(rows) /\ i \in Int
    BY <1>1, <2>1
  <2> QED BY <1>1, <1>4, <2>1, <2>2
<1>9. \A i \in DOMAIN last : In(last[i], rows)
  BY <1>8 DEF In
<1>10. ASSUME Ascending(rows) PROVE Ascending(last)
  <2> SUFFICES ASSUME NEW i \in DOMAIN last, NEW j \in DOMAIN last, i < j PROVE last[i].id < last[j].id
    BY DEF Ascending
  <2> DEFINE a == m + i - 1
             b == m + j - 1
  <2>1. a \in DOMAIN rows /\ b \in DOMAIN rows /\ a < b /\ last[i] = rows[a] /\ last[j] = rows[b]
    BY <1>1, <1>8
  <2> HIDE DEF a, b
  <2> QED BY <1>10, <2>1 DEF Ascending
<1>11. ASSUME Ascending(rows), NEW k \in DOMAIN rows
       PROVE  In(rows[k], last) \/ \A i \in DOMAIN last : last[i].id > rows[k].id
  <2>1. k \in Int /\ k >= 1 /\ k <= Len(rows)
    BY <1>1, <1>11
  <2>2. CASE k < m
    <3> SUFFICES ASSUME NEW i \in DOMAIN last PROVE last[i].id > rows[k].id
      OBVIOUS
    <3> DEFINE a == m + i - 1
    <3>1. a \in DOMAIN rows /\ last[i] = rows[a]
      BY <1>8
    <3>2. i >= 1 /\ i \in Int
      BY <1>4, <1>7
    <3>3. k < a
      BY <1>1, <2>1, <2>2, <3>2
    <3> HIDE DEF a
    <3>4. rows[k].id < rows[a].id /\ rows[k] \in Rows /\ rows[a] \in Rows
      BY <1>1, <1>11, <2>1, <3>1, <3>3, LenProperties DEF Ascending
    <3> QED BY <3>1, <3>4 DEF Rows
  <2>3. CASE ~(k < m)
    <3> DEFINE i == k - m + 1
    <3>1. i \in 1..(Len(rows) - m + 1) /\ m + i - 1 = k
      BY <1>1, <2>1, <2>3
    <3>2. i \in DOMAIN last
      BY <1>1, <1>4, <1>7, <3>1
    <3>3. last[i] = rows[k]
      BY <1>4, <3>1
    <3> HIDE DEF i
    <3> QED BY <3>2, <3>3 DEF In
  <2> QED BY <2>2, <2>3
<1> QED BY <1>4, <1>5, <1>6, <1>9, <1>10, <1>11 DEF last

\* load_queue as a whole.
LEMMA LoadQueueIs ==
  ASSUME QueueTypeOK, Ascending(file), NEW t \in Nat
  PROVE  /\ LoadQueue(t) \in Seq(Rows) /\ Ascending(LoadQueue(t))
         /\ \A i \in DOMAIN LoadQueue(t) : /\ In(LoadQueue(t)[i], file)
                                           /\ LoadQueue(t)[i].queued >= t - QUEUE_MAX_AGE
         /\ \A k \in DOMAIN file : file[k].queued >= t - QUEUE_MAX_AGE => In(file[k], LoadQueue(t))
<1> DEFINE lines == LastN(file, QUEUE_MAX_ENTRIES)
           c == t - QUEUE_MAX_AGE
           F(r) == [n \in 0..Len(lines) |->
                      IF n = 0 THEN <<>>
                      ELSE IF lines[n].queued >= t - QUEUE_MAX_AGE THEN Append(r[n - 1], lines[n])
                      ELSE r[n - 1]]
           rows == CHOOSE r : r = F(r)
<1>1. LoadQueue(t) = rows[Len(lines)]
  BY Zenon DEF LoadQueue
<1>2. file \in Seq(Rows) /\ Len(file) <= QUEUE_MAX_ENTRIES /\ QUEUE_MAX_ENTRIES \in Nat \ {0} /\ QUEUE_MAX_AGE \in Nat
  BY QueueConstants DEF QueueTypeOK
<1>3. lines = file
  BY <1>2, LastNIs
<1>4. \A r : Loads(r, lines, c) <=> r = F(r)
  <2> HIDE DEF lines
  <2> QED BY Zenon DEF Loads
<1>5. c \in Int /\ Len(lines) \in Nat
  BY <1>2, <1>3, LenProperties
<1> HIDE DEF lines, c, F
<1>6. \E r : Loads(r, lines, c)
  BY <1>5, LoadsExists
<1>7. rows = F(rows)
  BY <1>4, <1>6
<1> HIDE DEF rows
<1>8. Loads(rows, lines, c)
  BY <1>4, <1>7
<1>9. Loads(rows, file, c) /\ LoadQueue(t) = rows[Len(file)]
  BY <1>1, <1>3, <1>8
<1>10. /\ rows[Len(file)] \in Seq(Rows) /\ Ascending(rows[Len(file)])
       /\ \A i \in DOMAIN rows[Len(file)] : In(rows[Len(file)][i], file) /\ rows[Len(file)][i].queued >= c
       /\ \A k \in DOMAIN file : file[k].queued >= c => In(file[k], rows[Len(file)])
  BY <1>2, <1>5, <1>9, LoadsKeeps
<1> QED BY <1>9, <1>10 DEF c

-----------------------------------------------------------------------------
(* The steps of the probe *)

\* At first there is nothing to send.
LEMMA InitQueue == ProbeInit => QueueInv
<1> SUFFICES ASSUME ProbeInit PROVE QueueInv
  OBVIOUS
<1>1. QueueTypeOK
  BY QueueConstants DEF ProbeInit, QueueTypeOK
<1>2. Stored = {} /\ DOMAIN file = {} /\ DOMAIN pending = {} /\ pc = "idle"
  BY DEF ProbeInit, Stored
<1> QED BY <1>1, <1>2 DEF QueueInv, MadeInv, OrderInv, MemoryInv, Ascending, Due

\* What the API has changes only with its table.
LEMMA SameStored == ASSUME UNCHANGED copies PROVE Stored' = Stored
  BY DEF Stored

\* The API cannot be reached: only time passes.
LEMMA ConfigFailsKeeps == ASSUME QueueInv, ConfigFails PROVE QueueInv'
<1>1. /\ pc = "idle" /\ time < MaxRounds /\ time' = time + 1
      /\ UNCHANGED <<made, file, pending, pc, copies, crashes>>
  BY DEF ConfigFails
<1>2. Stored' = Stored
  BY <1>1, SameStored
<1>3. QueueTypeOK'
  BY <1>1, QueueConstants DEF QueueInv, QueueTypeOK
<1>4. MadeInv'
  BY <1>1, <1>2 DEF QueueInv, MadeInv
<1>5. OrderInv'
  <2>1. \A i \in DOMAIN file : file[i] \in Rows
    BY DEF QueueInv, QueueTypeOK
  <2>2. time \in Nat /\ time' \in Nat /\ time <= time' /\ QUEUE_MAX_AGE \in Nat
    BY <1>1, QueueConstants DEF QueueInv, QueueTypeOK
  <2>3. \A i \in DOMAIN file : file[i].queued < time - QUEUE_MAX_AGE => file[i].queued < time' - QUEUE_MAX_AGE
    BY <1>1, <2>1, <2>2 DEF Rows
  <2> QED BY <1>1, <1>2, <2>3 DEF QueueInv, OrderInv, Ascending, Due, Expired
<1>6. MemoryInv'
  BY <1>1 DEF MemoryInv
<1> QED BY <1>3, <1>4, <1>5, <1>6 DEF QueueInv

\* A killed process leaves the file, whose rows the API has, or which come after all
\* it has, or which are too old to be sent.
LEMMA CrashKeeps == ASSUME QueueInv, Crash PROVE QueueInv'
<1>1. /\ pending' = <<>> /\ pc' = "idle" /\ crashes' = crashes + 1
      /\ UNCHANGED <<time, made, file, copies>>
  BY DEF Crash
<1>2. Stored' = Stored
  BY <1>1, SameStored
<1>3. QueueTypeOK'
  BY <1>1 DEF QueueInv, QueueTypeOK
<1>4. DOMAIN pending' = {}
  BY <1>1
<1>5. MadeInv'
  BY <1>1, <1>2, <1>4 DEF QueueInv, MadeInv
<1>6. OrderInv'
  BY <1>1, <1>2, <1>4 DEF QueueInv, OrderInv, Ascending, Due, Expired
<1>7. MemoryInv'
  BY <1>1 DEF MemoryInv
<1> QED BY <1>3, <1>5, <1>6, <1>7 DEF QueueInv

\* save_queue empties the file.
LEMMA TruncateKeeps == ASSUME QueueInv, TruncateQueue PROVE QueueInv'
<1>1. pc = "save" /\ file' = <<>> /\ pc' = "write" /\ UNCHANGED <<time, made, pending, copies, crashes>>
  BY DEF TruncateQueue
<1>2. Stored' = Stored
  BY <1>1, SameStored
<1>3. QueueTypeOK'
  BY <1>1, QueueConstants DEF QueueInv, QueueTypeOK
<1>4. DOMAIN file' = {}
  BY <1>1
<1>5. MadeInv'
  BY <1>1, <1>2, <1>4 DEF QueueInv, MadeInv
<1>6. OrderInv'
  BY <1>1, <1>2, <1>4 DEF QueueInv, OrderInv, Ascending, Due
<1>7. MemoryInv'
  BY <1>1 DEF MemoryInv
<1> QED BY <1>3, <1>5, <1>6, <1>7 DEF QueueInv

\* save_queue writes the newest rows.
LEMMA SaveKeeps == ASSUME QueueInv, SaveQueue PROVE QueueInv'
<1>1. /\ file' = LastN(pending, QUEUE_MAX_ENTRIES) /\ pending' = <<>> /\ pc' = "idle"
      /\ UNCHANGED <<time, made, copies, crashes>>
  BY DEF SaveQueue
<1>2. Stored' = Stored
  BY <1>1, SameStored
<1>3. pending \in Seq(Rows) /\ QUEUE_MAX_ENTRIES \in Nat \ {0} /\ Ascending(pending)
  BY QueueConstants DEF QueueInv, QueueTypeOK, OrderInv
<1>4. /\ file' \in Seq(Rows) /\ Len(file') <= QUEUE_MAX_ENTRIES /\ Ascending(file)'
      /\ \A i \in DOMAIN file' : \E j \in DOMAIN pending : pending[j] = file'[i]
  <2> DEFINE last == LastN(pending, QUEUE_MAX_ENTRIES)
  <2>1. /\ last \in Seq(Rows) /\ Len(last) <= QUEUE_MAX_ENTRIES /\ Ascending(last)
        /\ \A i \in DOMAIN last : In(last[i], pending)
    BY <1>3, LastNIs
  <2>2. file' = last
    BY <1>1
  <2> HIDE DEF last
  <2> QED BY <2>1, <2>2 DEF In, Ascending
<1>5. DOMAIN pending' = {}
  BY <1>1
<1>6. QueueTypeOK'
  BY <1>1, <1>4 DEF QueueInv, QueueTypeOK
<1>7. MadeInv'
  BY <1>1, <1>2, <1>4, <1>5 DEF QueueInv, MadeInv
<1>8. OrderInv'
  BY <1>1, <1>2, <1>4, <1>5 DEF QueueInv, OrderInv, Ascending, Due
<1>9. MemoryInv'
  BY <1>1 DEF MemoryInv
<1> QED BY <1>6, <1>7, <1>8, <1>9 DEF QueueInv

\* A new report comes after those of the file that are young enough.
LEMMA MakeReportKeeps == ASSUME QueueInv, MakeReport PROVE QueueInv'
<1> DEFINE new == [id |-> made + 1, queued |-> time + 1]
           old == LoadQueue(time + 1)
           all == Append(old, new)
<1>1. /\ pc = "idle" /\ time < MaxRounds /\ time' = time + 1 /\ made' = made + 1 /\ pc' = "send"
      /\ UNCHANGED <<file, copies, crashes>>
  BY DEF MakeReport
<1>2. pending' = all
  BY <1>1 DEF MakeReport
<1>3. time \in Nat /\ made \in Nat /\ made <= time /\ QUEUE_MAX_AGE \in Nat /\ MaxRounds \in Nat
  BY QueueConstants DEF QueueInv, QueueTypeOK
<1>4. Stored' = Stored
  BY <1>1, SameStored
<1>5. new \in Rows /\ new.id = made + 1
  BY <1>3 DEF Rows
<1>6. /\ old \in Seq(Rows) /\ Ascending(old)
      /\ \A i \in DOMAIN old : In(old[i], file) /\ old[i].queued >= (time + 1) - QUEUE_MAX_AGE
      /\ \A k \in DOMAIN file : file[k].queued >= (time + 1) - QUEUE_MAX_AGE => In(file[k], old)
  <2>1. time + 1 \in Nat
    BY <1>3
  <2> QED BY <2>1, LoadQueueIs DEF QueueInv, OrderInv
<1> HIDE DEF old, new
<1>7. /\ all \in Seq(Rows) /\ all # <<>> /\ DOMAIN old = 1..Len(old) /\ Len(old) \in Nat
      /\ DOMAIN all = 1..(Len(old) + 1) /\ (\A i \in 1..Len(old) : all[i] = old[i]) /\ all[Len(old) + 1] = new
  <2>1. /\ all \in Seq(Rows) /\ all # <<>> /\ Len(all) = Len(old) + 1
        /\ (\A i \in 1..Len(old) : all[i] = old[i]) /\ all[Len(old) + 1] = new
    BY <1>5, <1>6, AppendProperties
  <2>2. DOMAIN old = 1..Len(old) /\ Len(old) \in Nat /\ DOMAIN all = 1..Len(all)
    BY <1>6, <2>1, LenProperties
  <2> QED BY <2>1, <2>2
<1> HIDE DEF all
<1>8. \A i \in DOMAIN all : (i \in DOMAIN old /\ all[i] = old[i]) \/ (i = Len(old) + 1 /\ all[i] = new)
  <2>1. \A i \in 1..(Len(old) + 1) : i \in 1..Len(old) \/ i = Len(old) + 1
    BY <1>7
  <2> QED BY <1>7, <2>1
<1>9. \A k \in DOMAIN file : file[k] \in Rows /\ file[k].id \in 1..made /\ file[k].queued \in Nat
  <2>1. file \in Seq(Rows) /\ \A k \in DOMAIN file : file[k].id \in 1..made
    BY DEF QueueInv, QueueTypeOK, MadeInv
  <2>2. \A k \in DOMAIN file : file[k] \in Rows
    BY <2>1
  <2> QED BY <2>1, <2>2 DEF Rows
<1>10. \A i \in DOMAIN old : old[i].id \in 1..made /\ Due(old[i])
  <2> SUFFICES ASSUME NEW i \in DOMAIN old PROVE old[i].id \in 1..made /\ Due(old[i])
    OBVIOUS
  <2>1. PICK k \in DOMAIN file : file[k] = old[i]
    BY <1>6 DEF In
  <2>2. ~Expired(file[k])
    BY <1>3, <1>6, <1>9, <2>1 DEF Expired
  <2>3. Due(file[k])
    BY <2>2 DEF QueueInv, OrderInv
  <2> QED BY <1>9, <2>1, <2>3
<1>11. QueueTypeOK'
  BY <1>1, <1>2, <1>3, <1>7 DEF QueueInv, QueueTypeOK
<1>12. MadeInv'
  <2>1. \A i \in DOMAIN all : all[i].id \in 1..(made + 1)
    BY <1>3, <1>5, <1>8, <1>10
  <2>2. \A k \in 1..made : k \in 1..(made + 1)
    BY <1>3
  <2> QED BY <1>1, <1>2, <1>4, <1>9, <2>1, <2>2 DEF QueueInv, MadeInv
<1>13. OrderInv'
  <2>1. Ascending(all)
    <3> SUFFICES ASSUME NEW i \in DOMAIN all, NEW j \in DOMAIN all, i < j PROVE all[i].id < all[j].id
      BY DEF Ascending
    <3>1. i \in DOMAIN old /\ all[i] = old[i]
      BY <1>7, <1>8
    <3>2. CASE j \in DOMAIN old /\ all[j] = old[j]
      BY <1>6, <3>1, <3>2 DEF Ascending
    <3>3. CASE all[j] = new
      BY <1>3, <1>5, <1>10, <3>1, <3>3
    <3> QED BY <1>8, <3>2, <3>3
  <2>2. \A i \in DOMAIN all : all[i].id \in Stored \/ \A x \in Stored : x < all[i].id
    <3>0. Stored \subseteq 1..made
      BY DEF QueueInv, MadeInv
    <3>1. \A x \in Stored : x < made + 1
      BY <1>3, <3>0
    <3> QED BY <1>5, <1>8, <1>10, <3>1 DEF Due
  <2>3. \A k \in DOMAIN file : \/ file[k].id \in Stored \/ \A x \in Stored : x < file[k].id
                               \/ file[k].queued < (time + 1) - QUEUE_MAX_AGE
    BY <1>3, <1>9 DEF QueueInv, OrderInv, Due, Expired
  <2>4. Ascending(file)
    BY DEF QueueInv, OrderInv
  <2> QED BY <1>1, <1>2, <1>4, <2>1, <2>2, <2>3, <2>4 DEF OrderInv, Ascending, Due, Expired
<1>14. MemoryInv'
  <2>1. \A k \in DOMAIN file : In(file[k], all) \/ file[k].queued < (time + 1) - QUEUE_MAX_AGE
    <3> SUFFICES ASSUME NEW k \in DOMAIN file, ~(file[k].queued < (time + 1) - QUEUE_MAX_AGE)
                 PROVE  In(file[k], all)
      OBVIOUS
    <3>1. In(file[k], old)
      BY <1>3, <1>6, <1>9
    <3>2. \A j \in DOMAIN old : j \in DOMAIN all /\ all[j] = old[j]
      BY <1>7
    <3> QED BY <3>1, <3>2 DEF In
  <2> QED BY <1>1, <1>2, <2>1 DEF MemoryInv, In, Expired
<1> QED BY <1>11, <1>12, <1>13, <1>14 DEF QueueInv

\* What a POST changes at the API: the report at the head of the queue may become
\* known, and is when the answer came.
LEMMA PostStores ==
  ASSUME QueueInv, NEW outcome, Post(outcome)
  PROVE  /\ pending # <<>> /\ Head(pending) = pending[1] /\ 1 \in DOMAIN pending
         /\ copies' \in [1..MaxRounds -> Nat]
         /\ Stored \subseteq Stored' /\ Stored' \subseteq Stored \cup {pending[1].id}
         /\ outcome = "ok" => pending[1].id \in Stored'
<1> DEFINE id == pending[1].id
<1>1. pending \in Seq(Rows) /\ pending # <<>> /\ copies \in [1..MaxRounds -> Nat] /\ MaxRounds \in Nat
      /\ time \in 0..MaxRounds /\ made \in 0..time
  BY QueueConstants DEF Post, QueueInv, QueueTypeOK
<1>2. Head(pending) = pending[1] /\ 1 \in DOMAIN pending
  <2>1. Len(pending) \in Nat /\ DOMAIN pending = 1..Len(pending) /\ Len(pending) # 0
    BY <1>1, LenProperties, EmptySeq
  <2> QED BY <1>1, <2>1, HeadTailProperties
<1>3. id \in 1..made
  BY <1>2 DEF QueueInv, MadeInv
<1>4. id \in 1..MaxRounds
  <2> HIDE DEF id
  <2> QED BY <1>1, <1>3
<1>5. copies' = IF outcome = "lost" THEN copies
                ELSE [copies EXCEPT ![id] = IF copies[id] = 0 THEN 1 ELSE copies[id]]
  BY <1>2 DEF Post, StoreReport
<1> HIDE DEF id
<1>6. copies' \in [1..MaxRounds -> Nat]
  BY <1>1, <1>4, <1>5
<1>7. \A x \in 1..MaxRounds : x # id => copies'[x] = copies[x]
  BY <1>1, <1>4, <1>5
<1>8. outcome # "lost" => copies'[id] > 0
  BY <1>1, <1>4, <1>5
<1>9. copies[id] > 0 => copies'[id] > 0
  BY <1>1, <1>4, <1>5
<1>10. Stored \subseteq Stored' /\ Stored' \subseteq Stored \cup {id}
  BY <1>7, <1>9 DEF Stored
<1>11. outcome = "ok" => id \in Stored'
  BY <1>4, <1>8 DEF Stored
<1> QED BY <1>1, <1>2, <1>6, <1>10, <1>11 DEF id

\* What a POST leaves in memory: everything, or everything but the head.
LEMMA PostLeaves ==
  ASSUME QueueInv, NEW outcome, Post(outcome)
  PROVE  /\ pending' \in Seq(Rows) /\ Ascending(pending)'
         /\ \A i \in DOMAIN pending' : \E k \in DOMAIN pending : pending'[i] = pending[k]
         /\ \A k \in DOMAIN pending : (outcome = "ok" /\ k = 1) \/ \E i \in DOMAIN pending' : pending'[i] = pending[k]
         /\ pc' = "send" => pending' # <<>>
<1>1. pending \in Seq(Rows) /\ Ascending(pending)
  BY DEF QueueInv, QueueTypeOK, OrderInv
<1>2. pending # <<>>
  BY PostStores
<1>3. Len(pending) \in Nat /\ DOMAIN pending = 1..Len(pending)
  BY <1>1, LenProperties
<1>4. CASE outcome # "ok"
  <2>1. pending' = pending /\ pc' = "save"
    BY <1>4 DEF Post
  <2> QED BY <1>1, <1>4, <2>1 DEF Ascending
<1>5. CASE outcome = "ok"
  <2> DEFINE rest == Tail(pending)
  <2>1. pending' = rest /\ pc' = IF Len(pending) > 1 THEN "send" ELSE "save"
    BY <1>5 DEF Post
  <2>2. rest \in Seq(Rows) /\ Len(rest) = Len(pending) - 1 /\ \A i \in 1..Len(rest) : rest[i] = pending[i + 1]
    BY <1>1, <1>2, HeadTailProperties
  <2>3. DOMAIN rest = 1..Len(rest) /\ Len(rest) \in Nat
    BY <2>2, LenProperties
  <2> HIDE DEF rest
  <2>4. \A i \in DOMAIN rest : i \in Int /\ i + 1 \in DOMAIN pending /\ rest[i] = pending[i + 1]
    BY <1>3, <2>2, <2>3
  <2>5. \A k \in DOMAIN pending : k = 1 \/ (k - 1 \in DOMAIN rest /\ rest[k - 1] = pending[k])
    <3> SUFFICES ASSUME NEW k \in DOMAIN pending, k # 1 PROVE k - 1 \in DOMAIN rest /\ rest[k - 1] = pending[k]
      OBVIOUS
    <3>1. k - 1 \in 1..Len(rest) /\ (k - 1) + 1 = k
      BY <1>3, <2>2, <2>3
    <3> QED BY <2>2, <2>3, <3>1
  <2>6. Ascending(rest)
    <3> SUFFICES ASSUME NEW i \in DOMAIN rest, NEW j \in DOMAIN rest, i < j PROVE rest[i].id < rest[j].id
      BY DEF Ascending
    <3> DEFINE a == i + 1
               b == j + 1
    <3>1. a \in DOMAIN pending /\ b \in DOMAIN pending /\ a < b /\ rest[i] = pending[a] /\ rest[j] = pending[b]
      BY <2>4
    <3> HIDE DEF a, b
    <3> QED BY <1>1, <3>1 DEF Ascending
  <2>7. Ascending(pending)'
    BY <2>1, <2>6 DEF Ascending
  <2>8. pc' = "send" => rest # <<>>
    <3>1. Len(<<>>) = 0
      OBVIOUS
    <3>2. pc' = "send" => Len(pending) > 1
      BY <2>1
    <3> QED BY <1>3, <2>2, <3>1, <3>2
  <2>9. \A i \in DOMAIN rest : \E k \in DOMAIN pending : rest[i] = pending[k]
    BY <2>4
  <2>10. \A k \in DOMAIN pending : k = 1 \/ \E i \in DOMAIN rest : rest[i] = pending[k]
    BY <2>5
  <2> QED BY <1>5, <2>1, <2>2, <2>7, <2>8, <2>9, <2>10
<1> QED BY <1>4, <1>5

\* A POST makes the API know the oldest of the rows in memory: the others still come
\* after all it has, and so do those of the file, which are in memory too.
LEMMA PostKeeps ==
  ASSUME QueueInv, NEW outcome, Post(outcome)
  PROVE  QueueInv'
<1>1. pc = "send" /\ pc' \in {"send", "save"} /\ UNCHANGED <<time, made, file, crashes>>
  BY DEF Post
<1>2. /\ 1 \in DOMAIN pending /\ copies' \in [1..MaxRounds -> Nat]
      /\ Stored \subseteq Stored' /\ Stored' \subseteq Stored \cup {pending[1].id}
      /\ outcome = "ok" => pending[1].id \in Stored'
  BY PostStores
<1>3. /\ pending' \in Seq(Rows) /\ Ascending(pending)'
      /\ \A i \in DOMAIN pending' : \E k \in DOMAIN pending : pending'[i] = pending[k]
      /\ \A k \in DOMAIN pending : (outcome = "ok" /\ k = 1) \/ \E i \in DOMAIN pending' : pending'[i] = pending[k]
      /\ pc' = "send" => pending' # <<>>
  BY PostLeaves
<1>4. QueueTypeOK'
  BY <1>1, <1>2, <1>3 DEF QueueInv, QueueTypeOK
<1>5. MadeInv'
  <2>1. pending[1].id \in 1..made /\ Stored \subseteq 1..made
    BY <1>2 DEF QueueInv, MadeInv
  <2>2. Stored' \subseteq 1..made
    BY <1>2, <2>1
  <2> QED BY <1>1, <1>3, <2>2 DEF QueueInv, MadeInv
<1>6. \A k \in DOMAIN pending : \/ pending[k].id \in Stored'
                                \/ \A x \in Stored' : x < pending[k].id
  <2> SUFFICES ASSUME NEW k \in DOMAIN pending, pending[k].id \notin Stored', NEW x \in Stored'
               PROVE  x < pending[k].id
    OBVIOUS
  <2>1. CASE x \in Stored
    BY <1>2, <2>1 DEF QueueInv, OrderInv, Due
  <2>2. CASE x = pending[1].id
    <3>1. k # 1
      BY <2>2
    <3>2. pending \in Seq(Rows)
      BY DEF QueueInv, QueueTypeOK
    <3>3. 1 < k
      BY <3>1, <3>2, LenProperties
    <3> QED BY <1>2, <2>2, <3>3 DEF QueueInv, OrderInv, Ascending
  <2> QED BY <1>2, <2>1, <2>2
<1>7. \A i \in DOMAIN file : \/ \E k \in DOMAIN pending : pending[k] = file[i]
                             \/ file[i].id \in Stored \/ Expired(file[i])
  BY <1>1 DEF QueueInv, MemoryInv, In
<1>8. OrderInv'
  <2>1. \A i \in DOMAIN file : \/ file[i].id \in Stored' \/ \A x \in Stored' : x < file[i].id
                               \/ Expired(file[i])
    BY <1>2, <1>6, <1>7
  <2>2. \A i \in DOMAIN pending' : \/ pending'[i].id \in Stored'
                                   \/ \A x \in Stored' : x < pending'[i].id
    BY <1>3, <1>6
  <2>3. Ascending(file)
    BY DEF QueueInv, OrderInv
  <2> QED BY <1>1, <1>3, <2>1, <2>2, <2>3 DEF OrderInv, Ascending, Due, Expired
<1>9. MemoryInv'
  <2>1. \A i \in DOMAIN file : \/ \E j \in DOMAIN pending' : pending'[j] = file[i]
                               \/ file[i].id \in Stored' \/ Expired(file[i])
    BY <1>2, <1>3, <1>7
  <2> QED BY <1>1, <2>1 DEF MemoryInv, In, Expired
<1> QED BY <1>4, <1>5, <1>8, <1>9 DEF QueueInv

\* The ids at the API, in one step of the probe, seen as two sets.
InOrder(stored, before) == \A id \in stored, old \in before : id \in before \/ id > old

\* A step makes the API know at most the head of the queue, which comes after all it has.
LEMMA StepInOrder ==
  ASSUME QueueInv, [ProbeNext]_probeVars
  PROVE  InOrder(Stored', Stored)
<1>1. CASE UNCHANGED copies
  <2>1. Stored' = Stored
    BY <1>1, SameStored
  <2> QED BY <2>1 DEF InOrder
<1>2. ASSUME NEW outcome, Post(outcome) PROVE InOrder(Stored', Stored)
  <2>1. 1 \in DOMAIN pending /\ Stored' \subseteq Stored \cup {pending[1].id}
    BY <1>2, PostStores
  <2>2. \/ pending[1].id \in Stored
        \/ \A old \in Stored : old < pending[1].id
    BY <2>1 DEF QueueInv, OrderInv, Due
  <2>3. \A old \in Stored : old < pending[1].id => pending[1].id > old
    <3>1. pending[1].id \in 1..made /\ Stored \subseteq 1..made
      BY <2>1 DEF QueueInv, MadeInv
    <3> QED BY <3>1
  <2> QED BY <2>1, <2>2, <2>3 DEF InOrder
<1> QED BY <1>1, <1>2 DEF ProbeNext, probeVars, ConfigFails, MakeReport,
      TruncateQueue, SaveQueue, Crash

\* Every step of the probe keeps the invariant.
LEMMA QueueStep == ASSUME QueueInv, [ProbeNext]_probeVars PROVE QueueInv'
<1>1. CASE UNCHANGED probeVars
  <2>1. UNCHANGED <<time, made, file, pending, pc, copies, crashes>>
    BY <1>1 DEF probeVars
  <2>2. Stored' = Stored
    BY <2>1, SameStored
  <2> QED BY <2>1, <2>2 DEF QueueInv, QueueTypeOK, MadeInv, OrderInv, MemoryInv, Ascending, Due, In, Expired
<1>2. CASE ConfigFails
  BY <1>2, ConfigFailsKeeps
<1>3. CASE MakeReport
  BY <1>3, MakeReportKeeps
<1>4. CASE TruncateQueue
  BY <1>4, TruncateKeeps
<1>5. CASE SaveQueue
  BY <1>5, SaveKeeps
<1>6. CASE Crash
  BY <1>6, CrashKeeps
<1>7. ASSUME NEW outcome, Post(outcome) PROVE QueueInv'
  BY <1>7, PostKeeps
<1> QED BY <1>1, <1>2, <1>3, <1>4, <1>5, <1>6, <1>7 DEF ProbeNext

\* The invariant of the probe's queue, for every size and age limit.
THEOREM QueueSafe == ProbeSpec => []QueueInv
<1>1. ProbeInit => QueueInv
  BY InitQueue
<1>2. QueueInv /\ [ProbeNext]_probeVars => QueueInv'
  BY QueueStep
<1> QED BY <1>1, <1>2, PTL DEF ProbeSpec

\* "oldest first": for every queue size, every age limit and every number of killed
\* processes the API never learns of a report after a younger one.
THEOREM ReportsInOrder == ProbeSpec => ArrivesInOrder
<1>1. QueueInv /\ [ProbeNext]_probeVars
        => [\A id \in Stored', old \in Stored : id \in Stored \/ id > old]_probeVars
  BY StepInOrder DEF InOrder
<1>2. ProbeSpec => []QueueInv
  BY QueueSafe
<1> QED BY <1>1, <1>2, PTL DEF ProbeSpec, ArrivesInOrder

\* A row that is held is in the file or in memory.
LEMMA HeldIs ==
  ASSUME NEW row
  PROVE  /\ row \in Held <=> \/ \E i \in DOMAIN file : file[i] = row
                             \/ \E i \in DOMAIN pending : pending[i] = row
         /\ row \in Held' <=> \/ \E i \in DOMAIN file' : file'[i] = row
                              \/ \E i \in DOMAIN pending' : pending'[i] = row
  BY DEF Held, ToSet

\* What may become of a row in a step in which no process is killed.
Kept(row) ==
    \/ row \in Held' \/ row.id \in Stored'
    \/ row.queued < time - QUEUE_MAX_AGE \/ GaveWayToYounger(row)

\* A POST lets go of the row at the head only, and only when the API has it.
LEMMA PostLoses ==
  ASSUME QueueInv, NEW outcome, Post(outcome), NEW row \in Held
  PROVE  Kept(row)
<1>1. file' = file
  BY DEF Post
<1>2. CASE \E i \in DOMAIN file : file[i] = row
  BY <1>1, <1>2, HeldIs DEF Kept
<1>3. CASE \E i \in DOMAIN pending : pending[i] = row
  <2>1. PICK k \in DOMAIN pending : pending[k] = row
    BY <1>3
  <2>2. (outcome = "ok" /\ k = 1) \/ \E i \in DOMAIN pending' : pending'[i] = pending[k]
    BY PostLeaves
  <2>3. outcome = "ok" => pending[1].id \in Stored'
    BY PostStores
  <2> QED BY <2>1, <2>2, <2>3, HeldIs DEF Kept
<1> QED BY <1>2, <1>3, HeldIs

\* Truncating the file loses no row that is not in memory, with the API or too old.
LEMMA TruncateLoses ==
  ASSUME QueueInv, TruncateQueue, NEW row \in Held
  PROVE  Kept(row)
<1>1. pc = "save" /\ pending' = pending /\ Stored' = Stored
  BY SameStored DEF TruncateQueue
<1>2. CASE \E i \in DOMAIN pending : pending[i] = row
  BY <1>1, <1>2, HeldIs DEF Kept
<1>3. CASE \E i \in DOMAIN file : file[i] = row
  <2>1. (\E j \in DOMAIN pending : pending[j] = row) \/ row.id \in Stored \/ Expired(row)
    BY <1>1, <1>3 DEF QueueInv, MemoryInv, In
  <2> QED BY <1>1, <1>2, <2>1 DEF Kept, Expired
<1> QED BY <1>2, <1>3, HeldIs

\* Writing the file drops the oldest rows, when there are more than it takes.
LEMMA SaveLoses ==
  ASSUME QueueInv, SaveQueue, NEW row \in Held
  PROVE  Kept(row)
<1>1. file = <<>> /\ file' = LastN(pending, QUEUE_MAX_ENTRIES)
  BY DEF SaveQueue, QueueInv, QueueTypeOK
<1>2. \E i \in DOMAIN pending : pending[i] = row
  <2>1. DOMAIN file = {}
    BY <1>1
  <2> QED BY <2>1, HeldIs
<1>3. pending \in Seq(Rows) /\ QUEUE_MAX_ENTRIES \in Nat \ {0} /\ Ascending(pending)
  BY QueueConstants DEF QueueInv, QueueTypeOK, OrderInv
<1>4. CASE Len(pending) <= QUEUE_MAX_ENTRIES
  <2>1. file' = pending
    BY <1>1, <1>3, <1>4, LastNIs
  <2> QED BY <1>2, <2>1, HeldIs DEF Kept
<1>5. CASE ~(Len(pending) <= QUEUE_MAX_ENTRIES)
  <2>1. PICK k \in DOMAIN pending : pending[k] = row
    BY <1>2
  <2> DEFINE last == LastN(pending, QUEUE_MAX_ENTRIES)
  <2>2. /\ Len(last) = QUEUE_MAX_ENTRIES
        /\ In(row, last) \/ \A i \in DOMAIN last : last[i].id > row.id
    BY <1>3, <1>5, <2>1, LastNIs
  <2> HIDE DEF last
  <2>3. CASE In(row, last)
    <3>1. \E i \in DOMAIN file' : file'[i] = row
      BY <1>1, <2>3 DEF In, last
    <3> QED BY <3>1, HeldIs DEF Kept
  <2>4. CASE \A i \in DOMAIN last : last[i].id > row.id
    BY <1>1, <2>2, <2>4 DEF Kept, GaveWayToYounger, last
  <2> QED BY <2>2, <2>3, <2>4
<1> QED BY <1>4, <1>5

\* A step in which no process is killed keeps what has to be kept.
LEMMA StepKeeps ==
  ASSUME QueueInv, [ProbeNext]_probeVars, crashes' = 0, NEW row \in Held
  PROVE  Kept(row)
<1>1. CASE file' = file /\ pending' = pending
  BY <1>1, HeldIs DEF Kept
<1>2. CASE ConfigFails
  BY <1>1, <1>2 DEF ConfigFails
<1>3. CASE MakeReport
  <2>1. file' = file /\ pending = <<>>
    BY <1>3 DEF MakeReport, QueueInv, QueueTypeOK
  <2>2. DOMAIN pending = {}
    BY <2>1
  <2> QED BY <2>1, <2>2, HeldIs DEF Kept
<1>4. CASE TruncateQueue
  BY <1>4, TruncateLoses
<1>5. CASE SaveQueue
  BY <1>5, SaveLoses
<1>6. CASE Crash
  <2>1. crashes \in Nat /\ crashes' = crashes + 1
    BY <1>6 DEF Crash, QueueInv, QueueTypeOK
  <2> QED BY <2>1
<1>7. ASSUME NEW outcome, Post(outcome) PROVE Kept(row)
  BY <1>7, PostLoses
<1> QED BY <1>1, <1>2, <1>3, <1>4, <1>5, <1>6, <1>7 DEF ProbeNext, probeVars

\* For every queue size and age limit: while no process is killed a report leaves the
\* probe only when the API has it, when it is too old, or when a full queue of younger
\* ones was written, so trimming takes the oldest.
THEOREM ReportsAreKept == ProbeSpec => NothingVanishes
<1>1. QueueInv /\ [ProbeNext]_probeVars
        => [crashes' = 0 =>
              \A row \in Held : \/ row \in Held'
                                \/ row.id \in Stored'
                                \/ row.queued < time - QUEUE_MAX_AGE
                                \/ GaveWayToYounger(row)]_probeVars
  BY StepKeeps DEF Kept
<1>2. ProbeSpec => []QueueInv
  BY QueueSafe
<1> QED BY <1>1, <1>2, PTL DEF ProbeSpec, NothingVanishes
=============================================================================
