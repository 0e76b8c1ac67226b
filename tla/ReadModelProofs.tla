--------------------------- MODULE ReadModelProofs ---------------------------
(***************************************************************************)
(* Theorems of ReadModel: what is shown as working did work lately, a      *)
(* silence is noticed, the chart keeps its hours, and the timeline and the *)
(* chart are what the loop saw, for any servers, probes, freshness, window *)
(* and retention and for runs missed or abandoned at will.                 *)
(***************************************************************************)
EXTENDS ReadModel, FiniteSetTheorems, WellFoundedInduction, TLAPS

\* What the assumption says, in the form the provers use.
LEMMA ReadConstants ==
    /\ Freshness \in Nat /\ SilentAfter \in Nat /\ Window \in Nat /\ Hours \in Nat /\ Retention \in Nat
    /\ Aggregates \in Nat /\ Skew \in Nat /\ MaxTime \in Nat /\ Freshness <= Retention /\ Collected \subseteq Servers
  BY ReadModelAssumption

-----------------------------------------------------------------------------
(* Largest elements *)

\* A non-empty set of naturals with a bound has a largest element.
LEMMA BoundedHasLast ==
  ASSUME NEW n \in Nat, NEW S \in SUBSET (0..n), S # {}
  PROVE  \E x \in S : \A y \in S : y <= x
<1> DEFINE T == {n - x : x \in S}
<1>1. T \subseteq Nat /\ T # {}
  <2>1. PICK x : x \in S
    OBVIOUS
  <2>2. n - x \in T /\ \A y \in S : n - y \in Nat
    BY <2>1
  <2> QED BY <2>2
<1>2. \E t \in T : \A u \in T : ~(<<u, t>> \in OpToRel(<, Nat))
  <2>1. IsWellFoundedOn(OpToRel(<, Nat), Nat)
    BY NatLessThanWellFounded
  <2> HIDE DEF T
  <2> QED BY <1>1, <2>1, WFMin
<1>3. PICK t \in T : \A u \in T : ~(u < t)
  BY <1>1, <1>2 DEF OpToRel
<1>4. PICK x \in S : t = n - x
  OBVIOUS
<1>5. \A y \in S : y <= x
  BY <1>3, <1>4
<1> QED BY <1>5

\* Between two bounds every non-empty set of integers has a first and a last element.
LEMMA HasFirstAndLast ==
  ASSUME NEW a \in Int, NEW b \in Int, NEW S \in SUBSET (a..b), S # {}
  PROVE  (\E x \in S : \A y \in S : x <= y) /\ \E x \in S : \A y \in S : y <= x
<1> DEFINE up == {y - a : y \in S}
           down == {b - y : y \in S}
<1>1. b - a \in Nat /\ up \in SUBSET (0..(b - a)) /\ up # {} /\ down \in SUBSET (0..(b - a)) /\ down # {}
  <2>1. PICK y : y \in S
    OBVIOUS
  <2>2. b - a \in Nat
    BY <2>1
  <2>3. \A x \in S : x - a \in 0..(b - a) /\ b - x \in 0..(b - a)
    OBVIOUS
  <2>4. y - a \in up /\ b - y \in down
    BY <2>1
  <2>5. up \in SUBSET (0..(b - a)) /\ down \in SUBSET (0..(b - a))
    BY <2>3
  <2> HIDE DEF up, down
  <2> QED BY <2>2, <2>4, <2>5
<1>2. PICK u \in up : \A v \in up : v <= u
  <2> HIDE DEF up
  <2> QED BY <1>1, BoundedHasLast
<1>3. PICK d \in down : \A v \in down : v <= d
  <2> HIDE DEF down
  <2> QED BY <1>1, BoundedHasLast
<1>4. PICK x \in S : u = x - a
  OBVIOUS
<1>5. PICK z \in S : d = b - z
  OBVIOUS
<1>6. \A y \in S : y - a <= x - a
  BY <1>2, <1>4
<1>7. \A y \in S : b - y <= b - z
  BY <1>3, <1>5
<1>8. \A y \in S : y <= x /\ z <= y
  BY <1>6, <1>7
<1> QED BY <1>8

\* What Largest and Max of such a set are.
LEMMA LastIsLargest ==
  ASSUME NEW n \in Nat, NEW S \in SUBSET (0..n), S # {}
  PROVE  /\ Largest(S) \in S /\ \A y \in S : y <= Largest(S)
         /\ Max(S) \in S /\ \A y \in S : y <= Max(S)
<1>1. PICK x \in S : \A y \in S : y <= x
  BY BoundedHasLast
<1>2. Largest(S) \in S /\ \A y \in S : y <= Largest(S)
  BY <1>1 DEF Largest
<1>3. \A y \in S : x >= y
  BY <1>1
<1>4. Max(S) \in S /\ \A y \in S : Max(S) >= y
  BY <1>3 DEF Max
<1> QED BY <1>2, <1>4

\* What Max of two numbers is.
LEMMA MaxOfTwo ==
  ASSUME NEW a \in Int, NEW b \in Int
  PROVE  Max({a, b}) \in {a, b} /\ Max({a, b}) >= a /\ Max({a, b}) >= b
<1>1. \E x \in {a, b} : \A y \in {a, b} : x >= y
  <2>1. CASE a <= b
    BY <2>1
  <2>2. CASE b <= a
    BY <2>2
  <2> QED BY <2>1, <2>2
<1>2. Max({a, b}) \in {a, b} /\ \A y \in {a, b} : Max({a, b}) >= y
  BY <1>1 DEF Max
<1> QED BY <1>2

-----------------------------------------------------------------------------
(* The inductive invariant *)

\* A row of the table is dated at most Skew ahead and is fresh for Freshness.
RowOK(o) == o.at \in 0..(now + Skew) /\ o.until = o.at + Freshness

\* A row that says whether the server worked: its traffic took the intended route.
WellRouted(rows) == {o \in rows : o.route # "no"}

ReadTypeOK ==
    /\ now \in Nat /\ step \in {"idle", "evaluate", "maintain"}
    /\ todo \subseteq Servers /\ (step # "evaluate" => todo = {})
    /\ DOMAIN obs = Servers /\ \A s \in Servers : \A o \in obs[s] : RowOK(o)
    /\ DOMAIN snap = Servers /\ \A s \in Servers : snap[s].state \in State /\ snap[s].until \in Int
    /\ DOMAIN probes = Probes
    /\ \A p \in Probes : probes[p].status \in {"active", "revoked"} /\ probes[p].seen \in 0..now \cup {NoTime}
    /\ lastRun.at \in 0..now \cup {NoTime} /\ lastRun.ok \in BOOLEAN /\ aborted \in BOOLEAN
    /\ step # "idle" => lastRun.at = now /\ ~aborted

\* The present run has evaluated s.
Renewed(s) == step # "idle" /\ s \notin todo

\* Behind a snapshot that says operational there is still a success in the table; it
\* was fresh when the snapshot was made, which is now for those of the present run.
WorkedInv ==
    \A s \in Servers : snap[s].state = "operational" =>
        \E o \in ValidSuccesses(WellRouted(obs[s])) : /\ snap[s].until <= o.at + 2 * Freshness + Skew
                                                      /\ Renewed(s) => o.at + Freshness >= now

\* A collection that went well gave every collected server a row of its time, and the
\* snapshot that was made of it holds for as long.
RenewedInv ==
    lastRun.at # NoTime /\ lastRun.ok /\ ~aborted => \A s \in Collected :
        IF s \in todo THEN \E o \in WellRouted(obs[s]) : o.at = now ELSE snap[s].until >= lastRun.at + Freshness

\* An hour of the chart that the retention covers has its rows in the table.
HoursInv ==
    /\ DOMAIN hourly = Servers
    /\ \A s \in Servers : \A h \in DOMAIN hourly[s] :
         h \in Nat /\ (h >= now - Retention => HourLoad(obs[s], h) # {})

ReadInv == ReadTypeOK /\ WorkedInv /\ RenewedInv /\ HoursInv

-----------------------------------------------------------------------------
(* One lemma per action *)

\* The invariant holds at first.
LEMMA InitRead == Init => ReadInv
<1> SUFFICES ASSUME Init PROVE ReadInv
  OBVIOUS
<1>1. ReadTypeOK
  <2>1. lastRun.at = NoTime /\ lastRun.ok = FALSE /\ aborted = FALSE
    BY Zenon DEF Init
  <2>2. /\ now = 0 /\ step = "idle" /\ todo = {} /\ obs = [s \in Servers |-> {}]
        /\ snap = [s \in Servers |-> [state |-> "unknown", observed |-> NoTime, until |-> NoTime]]
        /\ probes = [p \in Probes |-> [status |-> "active", seen |-> NoTime]]
    BY DEF Init
  <2>3. lastRun.ok \in BOOLEAN /\ aborted \in BOOLEAN
    BY <2>1, Zenon
  <2>4. /\ \A s \in Servers : obs[s] = {} /\ snap[s].state = "unknown" /\ snap[s].until = -1
        /\ \A p \in Probes : probes[p].status = "active" /\ probes[p].seen = NoTime
        /\ DOMAIN obs = Servers /\ DOMAIN snap = Servers /\ DOMAIN probes = Probes
    BY <2>2 DEF NoTime
  <2> QED BY <2>1, <2>2, <2>3, <2>4 DEF ReadTypeOK, State
<1>2. WorkedInv /\ RenewedInv /\ HoursInv
  BY DEF Init, WorkedInv, RenewedInv, HoursInv
<1> QED BY <1>1, <1>2 DEF ReadInv

\* A row that is written is as it should be.
LEMMA NewRow ==
  ASSUME NEW source, NEW result, NEW full, NEW control, NEW route, NEW at \in 0..(now + Skew), NEW metrics
  PROVE  RowOK(Row(source, result, full, control, route, at, metrics))
         /\ Row(source, result, full, control, route, at, metrics).at = at
         /\ Row(source, result, full, control, route, at, metrics).route = route
  BY DEF RowOK, Row

\* Rows that are added take nothing away from what the invariant says.
LEMMA MoreRows ==
  ASSUME ReadInv, UNCHANGED <<now, snap, hourly>>, DOMAIN obs' = Servers,
         \A s \in Servers : obs[s] \subseteq obs'[s] /\ \A o \in obs'[s] \ obs[s] : RowOK(o),
         \A s \in Servers : Renewed(s)' => Renewed(s)
  PROVE  /\ \A s \in Servers : \A o \in obs'[s] : RowOK(o)'
         /\ WorkedInv' /\ HoursInv'
<1>1. ASSUME NEW s \in Servers, NEW o \in obs'[s] PROVE RowOK(o)'
  BY <1>1 DEF ReadInv, ReadTypeOK, RowOK
<1>2. \A s \in Servers : ValidSuccesses(WellRouted(obs[s])) \subseteq ValidSuccesses(WellRouted(obs'[s]))
  BY DEF ValidSuccesses, WellRouted
<1>3. WorkedInv'
  BY <1>2 DEF ReadInv, WorkedInv
<1>4. \A s \in Servers : \A h : HourLoad(obs[s], h) \subseteq HourLoad(obs'[s], h)
  BY DEF HourLoad
<1>5. HoursInv'
  BY <1>4 DEF ReadInv, HoursInv
<1> QED BY <1>1, <1>3, <1>5

\* accept_report: a row more, and the probe was seen.
LEMMA ReportKeeps ==
  ASSUME ReadInv, NEW s \in Servers, NEW p \in Probes, NEW result, NEW network, NEW at \in 0..(now + Skew),
         AcceptReport(s, p, result, network, at)
  PROVE  ReadInv'
<1> DEFINE row == Row(SOURCE_OF_PROBE(KindOf[p]), result, KindOf[p] = "pc", network.control, network.route, at,
                      NoMetrics)
<1>1. /\ now \in Nat /\ DOMAIN obs = Servers /\ UNCHANGED <<now, step, todo, snap, lastRun, hourly, aborted>>
      /\ obs' = [obs EXCEPT ![s] = @ \cup {row}] /\ probes' = [probes EXCEPT ![p].seen = now]
  BY DEF ReadInv, ReadTypeOK, AcceptReport
<1>2. RowOK(row)
  BY NewRow
<1> HIDE DEF row
<1>3. /\ DOMAIN obs' = Servers
      /\ \A t \in Servers : obs[t] \subseteq obs'[t] /\ \A o \in obs'[t] \ obs[t] : RowOK(o)
  BY <1>1, <1>2
<1>4. \A t \in Servers : Renewed(t)' => Renewed(t)
  BY <1>1 DEF Renewed
<1>5. (\A t \in Servers : \A o \in obs'[t] : RowOK(o)') /\ WorkedInv' /\ HoursInv'
  BY <1>1, <1>3, <1>4, MoreRows
<1>6. /\ DOMAIN probes' = Probes
      /\ \A q \in Probes : probes'[q].status \in {"active", "revoked"} /\ probes'[q].seen \in 0..now \cup {NoTime}
  BY <1>1 DEF ReadInv, ReadTypeOK
<1>7. ReadTypeOK'
  BY <1>1, <1>3, <1>5, <1>6 DEF ReadInv, ReadTypeOK
<1>8. RenewedInv'
  <2>1. \A t \in Collected : t \in Servers
    BY ReadConstants
  <2>2. \A t \in Collected : WellRouted(obs[t]) \subseteq WellRouted(obs'[t])
    BY <1>3, <2>1 DEF WellRouted
  <2> QED BY <1>1, <2>1, <2>2 DEF ReadInv, RenewedInv
<1> QED BY <1>5, <1>7, <1>8 DEF ReadInv

\* A probe is revoked.
LEMMA RevokeKeeps ==
  ASSUME ReadInv, NEW p \in Probes, RevokeProbe(p)
  PROVE  ReadInv'
<1>1. /\ UNCHANGED <<now, step, todo, obs, snap, lastRun, hourly, aborted>>
      /\ probes' = [probes EXCEPT ![p].status = "revoked"]
  BY DEF RevokeProbe
<1>2. /\ DOMAIN probes' = Probes
      /\ \A q \in Probes : probes'[q].status \in {"active", "revoked"} /\ probes'[q].seen \in 0..now \cup {NoTime}
  BY <1>1 DEF ReadInv, ReadTypeOK
<1>3. ReadTypeOK'
  BY <1>1, <1>2 DEF ReadInv, ReadTypeOK, RowOK
<1>4. WorkedInv' /\ RenewedInv' /\ HoursInv'
  BY <1>1 DEF ReadInv, WorkedInv, Renewed, RenewedInv, HoursInv
<1> QED BY <1>3, <1>4 DEF ReadInv

\* The rows of a collector's answer are of now, and there is one unless it raised.
LEMMA AnswerRows ==
  ASSUME now \in Nat, NEW rows \in Answers(now)
  PROVE  \A o \in rows : RowOK(o) /\ o.at = now /\ o.route # "no"
<1>1. CASE rows = {}
  BY <1>1
<1>2. ASSUME NEW answer \in HelperAnswers, rows = RowsOf(answer, now)
      PROVE  \A o \in rows : RowOK(o) /\ o.at = now /\ o.route # "no"
  <2> SUFFICES ASSUME NEW o \in rows PROVE RowOK(o) /\ o.at = now /\ o.route # "no"
    OBVIOUS
  <2>1. PICK source, result, metrics : o = Row(source, result, FALSE, "none", "none", now, metrics)
    BY <1>2 DEF RowsOf
  <2>2. now \in 0..(now + Skew)
    BY ReadConstants
  <2>3. RowOK(o) /\ o.at = now /\ o.route = "none"
    BY <2>1, <2>2 DEF RowOK, Row
  <2> QED BY <2>3
<1> QED BY <1>1, <1>2 DEF Answers

\* Pipeline.collect: rows are added, and everything is to be evaluated again.
LEMMA CollectKeeps ==
  ASSUME ReadInv, NEW answer \in [Collected -> Answers(now)], Collect(answer)
  PROVE  ReadInv'
<1>1. /\ now \in Nat /\ UNCHANGED <<now, snap, probes, hourly>> /\ step' = "evaluate" /\ aborted' = FALSE
      /\ obs' = [s \in Servers |-> IF s \in Collected THEN obs[s] \cup answer[s] ELSE obs[s]]
      /\ lastRun' = [at |-> now, ok |-> \A s \in Collected : answer[s] # {}] /\ todo' = Servers
  BY DEF ReadInv, ReadTypeOK, Collect
<1>2. \A s \in Collected : \A o \in answer[s] : RowOK(o) /\ o.at = now /\ o.route # "no"
  BY <1>1, AnswerRows
<1>3. /\ DOMAIN obs' = Servers
      /\ \A s \in Servers : obs[s] \subseteq obs'[s] /\ \A o \in obs'[s] \ obs[s] : RowOK(o)
  BY <1>1, <1>2
<1>4. \A s \in Servers : Renewed(s)' => Renewed(s)
  BY <1>1 DEF Renewed
<1>5. (\A s \in Servers : \A o \in obs'[s] : RowOK(o)') /\ WorkedInv' /\ HoursInv'
  BY <1>1, <1>3, <1>4, MoreRows
<1>6. lastRun'.at = now /\ lastRun'.ok \in BOOLEAN /\ (lastRun'.ok => \A s \in Collected : answer[s] # {})
  <2> DEFINE b == \A s \in Collected : answer[s] # {}
  <2>1. b \in BOOLEAN /\ lastRun' = [at |-> now, ok |-> b]
    BY <1>1
  <2> HIDE DEF b
  <2>2. lastRun'.at = now /\ lastRun'.ok = b
    BY <2>1, Zenon
  <2>3. lastRun'.ok => b
    BY <2>2
  <2> QED BY <2>1, <2>2, <2>3 DEF b
<1>7. ReadTypeOK'
  <2>1. ~aborted' /\ aborted' \in BOOLEAN
    BY <1>1, Zenon
  <2> QED BY <1>1, <1>3, <1>5, <1>6, <2>1 DEF ReadInv, ReadTypeOK
<1>8. RenewedInv'
  <2> SUFFICES ASSUME lastRun'.ok, NEW s \in Collected PROVE s \in todo' /\ \E o \in WellRouted(obs'[s]) : o.at = now'
    BY DEF RenewedInv
  <2>1. s \in Servers /\ answer[s] # {} /\ obs'[s] = obs[s] \cup answer[s]
    BY <1>1, <1>6, ReadConstants
  <2> QED BY <1>1, <1>2, <2>1 DEF WellRouted
<1> QED BY <1>5, <1>7, <1>8 DEF ReadInv

\* What evaluate_scope makes of rows that are as they should be: a state, until some
\* row is no longer fresh; operational only with a success that still is.
LEMMA Evaluated ==
  ASSUME now \in Nat, NEW rows, \A o \in rows : RowOK(o)
  PROVE  LET ev == EvaluateScope(rows, now, 1, Confirmations)
         IN  /\ ev.state \in State /\ ev.until \in Int /\ ev.until <= now + Skew + Freshness
             /\ \A o \in WellRouted(rows) : o.at = now => ev.until >= now + Freshness
             /\ ev.state = "operational" => \E o \in ValidSuccesses(WellRouted(rows)) : o.at + Freshness >= now
<1> DEFINE fresh == Fresh(rows, now)
           times == {o.until : o \in fresh}
           ev == EvaluateScope(rows, now, 1, Confirmations)
<1>0. Freshness \in Nat /\ Skew \in Nat
  BY ReadConstants
<1>1. \A o \in fresh : o.until \in 0..(now + Skew + Freshness) /\ o.until >= now /\ o.until = o.at + Freshness
  BY <1>0 DEF Fresh, RowOK
<1>2. \A o \in WellRouted(rows) : o.at = now => o \in fresh /\ o.until = now + Freshness
  BY <1>0 DEF Fresh, RowOK, WellRouted
<1>3. ev.until = (IF times = {} THEN NoTime ELSE Largest(times))
      /\ ev.state = (IF fresh = {} THEN "unknown" ELSE Verdict(fresh, Confirmations)[1])
  <2>1. ev.until = IF times = {} THEN NoTime ELSE Largest(times)
    BY DEF EvaluateScope, LatestOf
  <2>2. ev.state = IF fresh = {} THEN "unknown" ELSE Verdict(fresh, Confirmations)[1]
    BY DEF EvaluateScope
  <2> QED BY <2>1, <2>2
<1>4. Verdict(fresh, Confirmations)[1] \in State
      /\ (Verdict(fresh, Confirmations)[1] = "operational" => ValidSuccesses(fresh) # {})
  BY DEF Verdict, State
<1>5. ValidSuccesses(fresh) \subseteq ValidSuccesses(WellRouted(rows)) /\ ValidSuccesses(fresh) \subseteq fresh
  BY DEF ValidSuccesses, Fresh, WellRouted
<1>6. CASE fresh = {}
  <2>1. times = {}
    BY <1>6
  <2>2. ev.until = -1 /\ ev.state = "unknown"
    BY <1>3, <1>6, <2>1 DEF NoTime
  <2> HIDE DEF ev, fresh
  <2> QED BY <1>0, <1>2, <1>6, <2>2 DEF State, ev
<1>7. CASE fresh # {}
  <2>1. times # {} /\ times \in SUBSET (0..(now + Skew + Freshness)) /\ now + Skew + Freshness \in Nat /\ now + Freshness \in Nat
    BY <1>0, <1>1, <1>7
  <2>2. ev.until = Largest(times) /\ ev.state = Verdict(fresh, Confirmations)[1]
    BY <1>3, <1>7, <2>1
  <2> HIDE DEF ev
  <2>3. Largest(times) \in 0..(now + Skew + Freshness) /\ \A t \in times : t <= Largest(times)
    BY <2>1, LastIsLargest
  <2>4. \A o \in WellRouted(rows) : o.at = now => ev.until >= now + Freshness
    <3> SUFFICES ASSUME NEW o \in WellRouted(rows), o.at = now PROVE ev.until >= now + Freshness
      OBVIOUS
    <3>1. now + Freshness \in times
      BY <1>2
    <3> QED BY <2>1, <2>2, <2>3, <3>1
  <2>5. ev.state = "operational" => \E o \in ValidSuccesses(WellRouted(rows)) : o.at + Freshness >= now
    BY <1>1, <1>4, <1>5, <2>2
  <2>6. ev.until \in Int /\ ev.until <= now + Skew + Freshness
    BY <1>0, <2>2, <2>3
  <2> HIDE DEF fresh
  <2> QED BY <1>4, <2>2, <2>4, <2>5, <2>6 DEF ev
<1> QED BY <1>6, <1>7

\* Pipeline.evaluate renews a snapshot.
LEMMA EvaluateKeeps ==
  ASSUME ReadInv, NEW s \in Servers, Evaluate(s)
  PROVE  ReadInv'
<1> DEFINE ev == EvaluateScope(obs[s], now, 1, Confirmations)
<1>1. /\ now \in Nat /\ Freshness \in Nat /\ Skew \in Nat /\ UNCHANGED <<now, obs, lastRun, probes, hourly, aborted>>
      /\ s \in todo /\ todo' = todo \ {s} /\ step' = (IF todo' = {} THEN "maintain" ELSE "evaluate")
      /\ snap' = [snap EXCEPT ![s] = [state |-> ev.state, observed |-> ev.observed, until |-> ev.until]]
  BY ReadConstants DEF ReadInv, ReadTypeOK, Evaluate
<1>2. step = "evaluate" /\ lastRun.at = now /\ DOMAIN snap = Servers /\ (\A o \in obs[s] : RowOK(o)) /\ ~aborted
  BY <1>1 DEF ReadInv, ReadTypeOK
<1>3. /\ ev.state \in State /\ ev.until \in Int /\ ev.until <= now + Skew + Freshness
      /\ \A o \in WellRouted(obs[s]) : o.at = now => ev.until >= now + Freshness
      /\ ev.state = "operational" => \E o \in ValidSuccesses(WellRouted(obs[s])) : o.at + Freshness >= now
  BY <1>1, <1>2, Evaluated
<1> HIDE DEF ev
<1>4. /\ DOMAIN snap' = Servers /\ snap'[s].state = ev.state /\ snap'[s].until = ev.until
      /\ \A t \in Servers \ {s} : snap'[t] = snap[t]
  BY <1>1, <1>2
<1>5. ReadTypeOK'
  <2>1. todo' \subseteq Servers /\ step' \in {"evaluate", "maintain"} /\ (step' # "evaluate" => todo' = {})
    BY <1>1 DEF ReadInv, ReadTypeOK
  <2>2. \A t \in Servers : snap'[t].state \in State /\ snap'[t].until \in Int
    BY <1>3, <1>4 DEF ReadInv, ReadTypeOK
  <2>3. \A t \in Servers : \A o \in obs'[t] : RowOK(o)'
    BY <1>1 DEF ReadInv, ReadTypeOK, RowOK
  <2> QED BY <1>1, <1>2, <1>4, <2>1, <2>2, <2>3 DEF ReadInv, ReadTypeOK
<1>6. WorkedInv'
  <2> SUFFICES ASSUME NEW t \in Servers, snap'[t].state = "operational"
               PROVE  \E o \in ValidSuccesses(WellRouted(obs'[t])) : /\ snap'[t].until <= o.at + 2 * Freshness + Skew
                                                                     /\ Renewed(t)' => o.at + Freshness >= now'
    BY DEF WorkedInv
  <2>1. CASE t = s
    <3>1. PICK o \in ValidSuccesses(WellRouted(obs[s])) : o.at + Freshness >= now
      BY <1>3, <1>4, <2>1
    <3>2. o.at \in Nat
      BY <1>2 DEF ValidSuccesses, WellRouted, RowOK
    <3>3. ev.until <= o.at + 2 * Freshness + Skew
      BY <1>1, <1>3, <3>1, <3>2
    <3> QED BY <1>1, <1>4, <2>1, <3>1, <3>3
  <2>2. CASE t # s
    <3>1. snap'[t] = snap[t] /\ obs' = obs /\ now' = now /\ (Renewed(t)' => Renewed(t))
      BY <1>1, <1>2, <1>4, <2>2 DEF Renewed
    <3> QED BY <3>1 DEF ReadInv, WorkedInv
  <2> QED BY <2>1, <2>2
<1>7. RenewedInv'
  <2> SUFFICES ASSUME lastRun'.ok, NEW t \in Collected
               PROVE  IF t \in todo' THEN \E o \in WellRouted(obs'[t]) : o.at = now' ELSE snap'[t].until >= lastRun'.at + Freshness
    BY DEF RenewedInv
  <2>1. lastRun.at # NoTime /\ t \in Servers
    BY <1>1, <1>2, ReadConstants DEF NoTime
  <2>2. IF t \in todo THEN \E o \in WellRouted(obs[t]) : o.at = now ELSE snap[t].until >= lastRun.at + Freshness
    BY <1>1, <1>2, <2>1 DEF ReadInv, RenewedInv
  <2>3. CASE t = s
    BY <1>1, <1>2, <1>3, <1>4, <2>2, <2>3
  <2>4. CASE t # s
    BY <1>1, <1>4, <2>1, <2>2, <2>4
  <2> QED BY <2>3, <2>4
<1>8. HoursInv'
  BY <1>1 DEF ReadInv, HoursInv
<1> QED BY <1>5, <1>6, <1>7, <1>8 DEF ReadInv

\* A run that is abandoned: what it has not evaluated keeps its old snapshot.
LEMMA AbortKeeps == ASSUME ReadInv, Abort PROVE ReadInv'
<1>1. /\ UNCHANGED <<now, obs, snap, lastRun, probes, hourly>> /\ step' = "idle" /\ todo' = {}
      /\ aborted' = (step = "evaluate") /\ step # "idle"
  BY DEF Abort
<1>2. aborted' \in BOOLEAN /\ (~aborted' => step # "evaluate")
  <2> DEFINE b == step = "evaluate"
  <2>1. aborted' = b /\ b \in BOOLEAN
    BY <1>1
  <2> HIDE DEF b
  <2>2. aborted' \in BOOLEAN /\ (~aborted' => ~b)
    BY <2>1, Zenon
  <2> QED BY <2>2 DEF b
<1>3. ReadTypeOK'
  BY <1>1, <1>2 DEF ReadInv, ReadTypeOK, RowOK
<1>4. WorkedInv' /\ HoursInv'
  BY <1>1 DEF ReadInv, WorkedInv, Renewed, HoursInv
<1>5. RenewedInv'
  <2> SUFFICES ASSUME lastRun'.at # NoTime, lastRun'.ok, ~aborted', NEW s \in Collected
               PROVE  snap'[s].until >= lastRun'.at + Freshness
    BY <1>1 DEF RenewedInv
  <2>1. todo = {} /\ ~aborted
    BY <1>1, <1>2 DEF ReadInv, ReadTypeOK
  <2> QED BY <1>1, <2>1 DEF ReadInv, RenewedInv
<1> QED BY <1>3, <1>4, <1>5 DEF ReadInv

\* What Pipeline.maintain leaves of the evidence, and the hours it computes again.
Swept(s) == {o \in obs[s] : o.at >= now - Retention}

Redone == {h \in 0..(now - 1) : h >= now - Hours}

\* Pipeline.maintain by the tables it changes: the rows and the hours it leaves.
LEMMA MaintainEffect ==
  ASSUME Maintain
  PROVE  /\ step = "maintain" /\ step' = "idle" /\ UNCHANGED <<now, todo, snap, lastRun, probes, aborted>>
         /\ obs' = [s \in Servers |-> Swept(s)] /\ DOMAIN hourly' = Servers
         /\ \A s \in Servers : DOMAIN hourly'[s] =
              {h \in DOMAIN hourly[s] : h >= now - Aggregates /\ h \notin Redone}
              \cup {h \in Redone : HourLoad(Swept(s), h) # {}}
  BY DEF Maintain, Swept, Redone

\* Pipeline.maintain: the sweep keeps what the new snapshots rest on, and the rows of
\* every hour that stays in the chart.
LEMMA MaintainKeeps == ASSUME ReadInv, Maintain PROVE ReadInv'
<1>1. /\ step = "maintain" /\ step' = "idle" /\ UNCHANGED <<now, todo, snap, lastRun, probes, aborted>>
      /\ obs' = [s \in Servers |-> Swept(s)] /\ DOMAIN hourly' = Servers
      /\ \A s \in Servers : DOMAIN hourly'[s] =
           {h \in DOMAIN hourly[s] : h >= now - Aggregates /\ h \notin Redone}
           \cup {h \in Redone : HourLoad(Swept(s), h) # {}}
  BY MaintainEffect
<1>2. /\ now \in Nat /\ Freshness \in Nat /\ Retention \in Nat /\ Freshness <= Retention /\ todo = {}
      /\ \A s \in Servers : \A o \in obs[s] : o.at \in Nat
  BY <1>1, ReadConstants DEF ReadInv, ReadTypeOK, RowOK
<1>3. ReadTypeOK'
  <2>1. \A s \in Servers : \A o \in obs'[s] : RowOK(o)'
    BY <1>1 DEF ReadInv, ReadTypeOK, RowOK, Swept
  <2> QED BY <1>1, <2>1 DEF ReadInv, ReadTypeOK
<1>4. WorkedInv'
  <2> SUFFICES ASSUME NEW s \in Servers, snap'[s].state = "operational"
               PROVE  \E o \in ValidSuccesses(WellRouted(obs'[s])) : snap'[s].until <= o.at + 2 * Freshness + Skew
    BY <1>1 DEF WorkedInv, Renewed
  <2>1. Renewed(s)
    BY <1>1, <1>2 DEF Renewed
  <2>2. PICK o \in ValidSuccesses(WellRouted(obs[s])) : snap[s].until <= o.at + 2 * Freshness + Skew /\ o.at + Freshness >= now
    BY <1>1, <2>1 DEF ReadInv, WorkedInv
  <2>3. o \in obs[s] /\ o.at >= now - Retention
    BY <1>2, <2>2 DEF ValidSuccesses, WellRouted
  <2>4. o \in ValidSuccesses(WellRouted(obs'[s]))
    BY <1>1, <2>2, <2>3 DEF ValidSuccesses, WellRouted, Swept
  <2> QED BY <1>1, <2>2, <2>4
<1>5. RenewedInv'
  BY <1>1, <1>2 DEF ReadInv, RenewedInv
<1>6. HoursInv'
  <2> SUFFICES ASSUME NEW s \in Servers, NEW h \in DOMAIN hourly'[s]
               PROVE  h \in Nat /\ (h >= now' - Retention => HourLoad(obs'[s], h) # {})
    BY <1>1 DEF HoursInv
  <2>1. obs'[s] = Swept(s) /\ now' = now
    BY <1>1
  <2>2. CASE h \in Redone /\ HourLoad(Swept(s), h) # {}
    BY <1>2, <2>1, <2>2 DEF Redone
  <2>3. CASE h \in DOMAIN hourly[s]
    <3>1. h \in Nat /\ (h >= now - Retention => HourLoad(obs[s], h) # {})
      BY <2>3 DEF ReadInv, HoursInv
    <3>2. h >= now - Retention => HourLoad(obs[s], h) \subseteq HourLoad(Swept(s), h)
      BY DEF HourLoad, Swept
    <3> QED BY <2>1, <3>1, <3>2
  <2> QED BY <1>1, <2>2, <2>3
<1> QED BY <1>3, <1>4, <1>5, <1>6 DEF ReadInv

\* Time passes between two runs.
LEMMA TickKeeps == ASSUME ReadInv, Tick PROVE ReadInv'
<1>1. /\ step = "idle" /\ now' = now + 1 /\ now \in Nat /\ Retention \in Nat
      /\ UNCHANGED <<step, todo, obs, snap, lastRun, probes, hourly, aborted>>
  BY ReadConstants DEF ReadInv, ReadTypeOK, Tick
<1>2. ReadTypeOK'
  <2>1. \A s \in Servers : \A o \in obs'[s] : RowOK(o)'
    BY <1>1, ReadConstants DEF ReadInv, ReadTypeOK, RowOK
  <2>2. lastRun'.at \in 0..now' \cup {NoTime} /\ \A p \in Probes : probes'[p].seen \in 0..now' \cup {NoTime}
    BY <1>1 DEF ReadInv, ReadTypeOK
  <2> QED BY <1>1, <2>1, <2>2 DEF ReadInv, ReadTypeOK
<1>3. WorkedInv'
  BY <1>1 DEF ReadInv, WorkedInv, Renewed
<1>4. RenewedInv'
  BY <1>1 DEF ReadInv, ReadTypeOK, RenewedInv
<1>5. HoursInv'
  BY <1>1 DEF ReadInv, HoursInv
<1> QED BY <1>2, <1>3, <1>4, <1>5 DEF ReadInv

\* Every step keeps the invariant.
LEMMA StepKeeps == ASSUME ReadInv, [Next]_vars PROVE ReadInv'
<1>1. CASE UNCHANGED vars
  BY <1>1 DEF vars, ReadInv, ReadTypeOK, RowOK, WorkedInv, Renewed, RenewedInv, HoursInv
<1> QED BY <1>1, ReportKeeps, RevokeKeeps, CollectKeeps, EvaluateKeeps, AbortKeeps, MaintainKeeps, TickKeeps DEF Next

\* The tables keep what the screens rely on.
THEOREM ReadModelSafe == Spec => []ReadInv
<1>1. ReadInv /\ [Next]_vars => ReadInv'
  BY StepKeeps
<1> QED BY <1>1, InitRead, PTL DEF Spec

-----------------------------------------------------------------------------
(* The properties *)

\* What is recommended, or shown as working by its protocol or by the status of the
\* whole, worked within twice the freshness and what a report was dated ahead; a stale status claims nothing.
THEOREM ShownWorkedLately == Spec => []RecommendedWorkedLately
<1>1. ReadInv => RecommendedWorkedLately
  <2> SUFFICES ASSUME ReadInv PROVE RecommendedWorkedLately
    OBVIOUS
  <2>0. now \in Nat /\ Freshness \in Nat /\ Skew \in Nat /\ \A s \in Servers : snap[s].state \in State /\ snap[s].until \in Int
    BY ReadConstants DEF ReadInv, ReadTypeOK
  <2>1. ASSUME NEW s \in Servers, ShownWorking(s)
        PROVE  \E o \in ValidSuccesses(obs[s]) : o.route # "no" /\ now - o.at <= 2 * Freshness + Skew
    <3>1. CardState(s) = "operational"
      <4>1. CASE \E complete \in SUBSET Servers : s \in Recommended(complete)
        BY <4>1 DEF Recommended
      <4>2. CASE Overall = "operational"
        <5>1. CardState(s) \in State
          BY <2>0 DEF CardState, State
        <5> QED BY <4>2, <5>1 DEF Overall, State
      <4>3. CASE ProtocolState(s) = "operational"
        BY <4>3 DEF ProtocolState
      <4> QED BY <2>1, <4>1, <4>2, <4>3 DEF ShownWorking
    <3>2. snap[s].state = "operational" /\ snap[s].until >= now
      BY <2>0, <3>1 DEF CardState, Stale
    <3>3. PICK o \in ValidSuccesses(WellRouted(obs[s])) : snap[s].until <= o.at + 2 * Freshness + Skew
      BY <3>2 DEF ReadInv, WorkedInv
    <3>4. o.at \in Nat /\ o \in ValidSuccesses(obs[s]) /\ o.route # "no"
      BY DEF ReadInv, ReadTypeOK, ValidSuccesses, WellRouted, RowOK
    <3> QED BY <2>0, <3>2, <3>3, <3>4
  <2>2. ASSUME StatusStale PROVE Overall = "unknown"
    <3>1. \A s \in Servers : CardState(s) = "unknown"
      BY <2>2 DEF StatusStale, CardState
    <3>2. Servers = {} \/ \E s \in Servers : CardState(s) = "unknown"
      BY <3>1
    <3> QED BY <3>1, <3>2 DEF Overall
  <2> QED BY <2>1, <2>2 DEF RecommendedWorkedLately
<1> QED BY <1>1, ReadModelSafe, PTL

\* The attention items are those of the payloads and three of the overview's own.
LEMMA AttentionHas ==
  /\ "collector" \in DoctorItems => "COLLECTOR_STALE" \in Attention
  /\ (\E p \in Probes : ProbeStatus(p) = "stale") => "PROBE_SILENT" \in Attention
<1> DEFINE codes == UNION {Payload(s).attention : s \in Servers}
           b == IF "collector" \in DoctorItems THEN {"COLLECTOR_STALE"} ELSE {}
           c == IF Probes = {} THEN {"PROBES_NOT_ENROLLED"} ELSE {}
           d == IF \E p \in Probes : ProbeStatus(p) = "stale" THEN {"PROBE_SILENT"} ELSE {}
<1>1. Attention = codes \cup b \cup c \cup d
  BY DEF Attention
<1>2. /\ "collector" \in DoctorItems => "COLLECTOR_STALE" \in b
      /\ (\E p \in Probes : ProbeStatus(p) = "stale") => "PROBE_SILENT" \in d
  OBVIOUS
<1> HIDE DEF codes, b, c, d
<1> QED BY <1>1, <1>2

\* A server that is read over SSH turns unknown only together with a finding, and a
\* kind of probe that members see as silent is one too.
THEOREM SilenceIsAFinding == Spec => []SilenceIsNoticed
<1>1. ReadInv => SilenceIsNoticed
  <2> SUFFICES ASSUME ReadInv PROVE SilenceIsNoticed
    OBVIOUS
  <2>0. now \in Nat /\ Freshness \in Nat /\ SilentAfter \in Nat /\ Collected \subseteq Servers
    BY ReadConstants DEF ReadInv, ReadTypeOK
  <2>1. ASSUME step = "idle", ~aborted, NEW s \in Collected,
               Max({snap[s].until, snap[s].until - Freshness + 3}) < now
        PROVE  "COLLECTOR_STALE" \in Attention /\ Doctor # "ok"
    <3> DEFINE until == snap[s].until
    <3>1. until \in Int /\ Servers # {} /\ s \notin todo
      BY <2>0, <2>1 DEF ReadInv, ReadTypeOK
    <3>2. until - Freshness + 3 < now
      <4> HIDE DEF until
      <4>1. until - Freshness + 3 \in Int
        BY <2>0, <3>1
      <4>2. Max({until, until - Freshness + 3}) >= until - Freshness + 3
            /\ Max({until, until - Freshness + 3}) \in {until, until - Freshness + 3}
        BY <3>1, <4>1, MaxOfTwo
      <4> QED BY <2>0, <2>1, <3>1, <4>1, <4>2 DEF until
    <3>3. ~CollectorOk
      <4> SUFFICES ASSUME lastRun.at # NoTime, lastRun.ok, now - lastRun.at <= 3 PROVE FALSE
        BY DEF CollectorOk
      <4>1. until >= lastRun.at + Freshness
        BY <2>1, <3>1 DEF ReadInv, RenewedInv
      <4>2. lastRun.at \in Nat
        BY DEF ReadInv, ReadTypeOK
      <4> HIDE DEF until
      <4> QED BY <2>0, <3>1, <3>2, <4>1, <4>2
    <3>4. "collector" \in DoctorItems
      BY <3>1, <3>3 DEF DoctorItems
    <3>5. "COLLECTOR_STALE" \in Attention
      BY <3>4, AttentionHas
    <3>6. Doctor # "ok"
      BY <3>4 DEF Doctor
    <3> QED BY <3>5, <3>6
  <2>2. ASSUME NEW kind, Presence(kind) = "silent"
        PROVE  "PROBE_SILENT" \in Attention /\ Doctor # "ok"
    <3> DEFINE seen == {probes[p].seen : p \in Reported(kind)}
    <3>1. Reported(kind) # {} /\ ~(now - Max(seen) <= SilentAfter)
      BY <2>2 DEF Presence
    <3>2. seen # {} /\ seen \in SUBSET (0..now)
      BY <3>1 DEF Reported, ReadInv, ReadTypeOK
    <3>3. Max(seen) \in 0..now /\ \A t \in seen : t <= Max(seen)
      BY <2>0, <3>2, LastIsLargest
    <3>4. PICK p : p \in Reported(kind)
      BY <3>1
    <3>5. p \in Probes /\ probes[p].status = "active" /\ probes[p].seen \in 0..now /\ probes[p].seen \in seen
      BY <3>4 DEF Reported, ReadInv, ReadTypeOK
    <3>6. now - probes[p].seen > SilentAfter
      <4> HIDE DEF seen
      <4> QED BY <2>0, <3>1, <3>3, <3>5
    <3>7. ProbeStatus(p) = "stale"
      BY <2>0, <3>5, <3>6 DEF ProbeStatus
    <3>8. "probes" \in DoctorItems
      BY <3>5, <3>7 DEF DoctorItems
    <3>9. "PROBE_SILENT" \in Attention
      BY <3>5, <3>7, AttentionHas
    <3>10. Doctor # "ok"
      BY <3>8 DEF Doctor
    <3> QED BY <3>9, <3>10
  <2> QED BY <2>1, <2>2 DEF SilenceIsNoticed
<1> QED BY <1>1, ReadModelSafe, PTL

\* Where the retention covers the hours that are computed again, no maintenance takes
\* an hour out of the chart.  (25 hours; with observations_days = 1 it does not.)
THEOREM ChartKeepsItsHours == Hours <= Retention => (Spec => AggregateOutlivesEvidence)
<1> SUFFICES ASSUME Hours <= Retention PROVE Spec => AggregateOutlivesEvidence
  OBVIOUS
<1>1. ASSUME ReadInv, [Next]_vars, NEW s \in Servers, NEW h \in DOMAIN hourly[s],
             h >= now' - Aggregates
      PROVE  h \in DOMAIN hourly'[s]
  <2>0. now \in Nat /\ Retention \in Nat /\ Hours \in Nat /\ h \in Nat
        /\ (h >= now - Retention => HourLoad(obs[s], h) # {})
    BY <1>1, ReadConstants DEF ReadInv, ReadTypeOK, HoursInv
  <2>1. CASE Maintain
    <3>1. /\ now' = now
          /\ DOMAIN hourly'[s] = {g \in DOMAIN hourly[s] : g >= now - Aggregates /\ g \notin Redone}
                                 \cup {g \in Redone : HourLoad(Swept(s), g) # {}}
      BY <2>1, MaintainEffect
    <3>2. CASE h \notin Redone
      BY <1>1, <3>1, <3>2
    <3>3. CASE h \in Redone
      <4>1. h >= now - Retention
        BY <1>1, <2>0, <3>3 DEF Redone
      <4>2. HourLoad(obs[s], h) \subseteq HourLoad(Swept(s), h)
        BY <4>1 DEF HourLoad, Swept
      <4> QED BY <2>0, <3>1, <3>3, <4>1, <4>2
    <3> QED BY <3>2, <3>3
  <2>2. CASE UNCHANGED hourly
    BY <2>2
  <2> QED BY <1>1, <2>1, <2>2 DEF Next, AcceptReport, RevokeProbe, Collect, Evaluate, Abort, Tick, vars
<1>2. ReadInv /\ [Next]_vars =>
        [\A s \in Servers : \A h \in DOMAIN hourly[s] : h >= now' - Aggregates => h \in DOMAIN hourly'[s]]_vars
  BY <1>1
<1> QED BY <1>2, ReadModelSafe, PTL DEF Spec, AggregateOutlivesEvidence

-----------------------------------------------------------------------------
(* The history *)

\* Of a server none of whose transitions was ignored the table has one transition for
\* each change of its state, and no other; a server the present unit has not evaluated
\* is as it was in the last.
HistoryInv ==
    /\ DOMAIN saw = Servers /\ DOMAIN trans = Servers
    /\ \A s \in Servers : saw[s] \in Seq(State) /\ Len(saw[s]) = now
    /\ \A s \in Servers : (step = "idle" /\ lastRun.at # now) \/ s \in todo => snap[s].state = Seen(s, now - 1)
    /\ \A s \in Servers \ ignored :
         /\ \A r \in trans[s] : /\ r.at \in 0..now /\ r.from # r.to
                                /\ r.from = Seen(s, r.at - 1) /\ r.to = Seen(s, r.at)
         /\ \A t \in 0..now : Seen(s, t - 1) # Seen(s, t) => \E r \in trans[s] : r.at = t

\* Steps that leave history and snapshots alone, and make no server look unevaluated.
LEMMA HistoryStays ==
  ASSUME HistoryInv, UNCHANGED <<now, saw, trans, snap, ignored>>,
         \A s \in Servers : (step' = "idle" /\ lastRun'.at # now) \/ s \in todo' =>
                           (step = "idle" /\ lastRun.at # now) \/ s \in todo
  PROVE  HistoryInv'
<1>1. ASSUME NEW s, NEW t PROVE Seen(s, t)' = Seen(s, t)
  BY DEF Seen
<1> QED BY <1>1 DEF HistoryInv

\* Pipeline.evaluate: what changes is recorded, or the server is one of the ignored.
LEMMA HistoryEvaluate ==
  ASSUME ReadInv, HistoryInv, NEW s \in Servers, Evaluate(s)
  PROVE  HistoryInv'
<1> DEFINE ev == EvaluateScope(obs[s], now, 1, Confirmations)
           old == snap[s].state
           new == ev.state
           known == \E r \in trans[s] : <<r.from, r.to, r.observed>> = <<snap[s].state, ev.state, ev.observed>>
           row == [at |-> now, from |-> old, to |-> new, observed |-> ev.observed]
<1>1. /\ s \in todo /\ todo' = todo \ {s} /\ step' # "idle" /\ UNCHANGED <<now, saw>>
      /\ snap' = [snap EXCEPT ![s] = [state |-> ev.state, observed |-> ev.observed, until |-> ev.until]]
      /\ trans' = (IF new # old /\ ~known THEN [trans EXCEPT ![s] = @ \cup {row}] ELSE trans)
      /\ ignored' = (IF new # old /\ known THEN ignored \cup {s} ELSE ignored)
  BY DEF Evaluate
<1>2. /\ now \in Nat /\ DOMAIN snap = Servers /\ DOMAIN trans = Servers /\ DOMAIN saw = Servers
      /\ old = Seen(s, now - 1)
  BY <1>1 DEF ReadInv, ReadTypeOK, HistoryInv
<1> HIDE DEF ev, known
<1>0. PICK n \in Nat : n = now
  BY <1>2
<1>3. snap'[s].state = new /\ \A u \in Servers \ {s} : snap'[u] = snap[u]
  BY <1>1, <1>2
<1>4. ASSUME NEW u \in Servers, NEW t \in Int, t < now \/ u # s PROVE Seen(u, t)' = Seen(u, t)
  BY <1>1, <1>2, <1>3, <1>4 DEF Seen
<1>5. Seen(s, n) = old /\ Seen(s, n)' = new
  BY <1>0, <1>1, <1>2, <1>3 DEF Seen
<1>6. ASSUME NEW u \in Servers \ {s}
      PROVE  trans'[u] = trans[u] /\ (u \in ignored' <=> u \in ignored) /\ (u \in todo' <=> u \in todo)
  BY <1>1, <1>2
<1>7. \A u \in Servers : u \in todo' => snap'[u].state = Seen(u, now - 1)'
  BY <1>1, <1>2, <1>3, <1>4, <1>6 DEF HistoryInv
<1>8. \A u \in Servers : saw'[u] \in Seq(State) /\ Len(saw'[u]) = now'
  BY <1>1 DEF HistoryInv
<1>9. ASSUME NEW u \in Servers \ ignored', u # s
      PROVE  /\ \A r \in trans'[u] : /\ r.at \in 0..now /\ r.from # r.to
                                      /\ r.from = Seen(u, r.at - 1)' /\ r.to = Seen(u, r.at)'
             /\ \A t \in 0..now : Seen(u, t - 1)' # Seen(u, t)' => \E r \in trans'[u] : r.at = t
  <2>1. u \in Servers \ ignored /\ trans'[u] = trans[u]
    BY <1>6, <1>9
  <2>2. \A t \in 0..now : Seen(u, t)' = Seen(u, t) /\ Seen(u, t - 1)' = Seen(u, t - 1)
    BY <1>2, <1>4, <1>9
  <2> QED BY <2>1, <2>2 DEF HistoryInv
<1>10. ASSUME s \notin ignored'
       PROVE  /\ \A r \in trans'[s] : /\ r.at \in 0..n /\ r.from # r.to
                                       /\ r.from = Seen(s, r.at - 1)' /\ r.to = Seen(s, r.at)'
              /\ \A t \in 0..n : Seen(s, t - 1)' # Seen(s, t)' => \E r \in trans'[s] : r.at = t
  <2>1. s \in Servers \ ignored /\ (new = old \/ ~known)
    BY <1>1, <1>10
  <2>2. \A t \in 0..n : Seen(s, t - 1)' = Seen(s, t - 1) /\ (t # n => Seen(s, t)' = Seen(s, t))
    BY <1>0, <1>2, <1>4
  <2>3. \A r \in trans[s] : r.at \in 0..n /\ r.at # n /\ r.from # r.to
                            /\ r.from = Seen(s, r.at - 1) /\ r.to = Seen(s, r.at)
    BY <1>0, <1>2, <1>5, <2>1 DEF HistoryInv
  <2>4. \A t \in 0..n : Seen(s, t - 1) # Seen(s, t) => \E r \in trans[s] : r.at = t
    BY <1>0, <2>1 DEF HistoryInv
  <2>5. CASE new = old
    <3>1. trans' = trans
      BY <1>1, <2>5
    <3> QED BY <1>0, <1>2, <1>5, <2>2, <2>3, <2>4, <2>5, <3>1
  <2>6. CASE new # old
    <3>1. trans'[s] = trans[s] \cup {row}
      BY <1>1, <1>2, <2>1, <2>6
    <3>2. row.at = n /\ row.from = old /\ row.to = new
      BY <1>0
    <3> HIDE DEF row, old, new
    <3>3. ASSUME NEW r \in trans'[s]
          PROVE  /\ r.at \in 0..n /\ r.from # r.to
                 /\ r.from = Seen(s, r.at - 1)' /\ r.to = Seen(s, r.at)'
      <4>1. CASE r = row
        <5>1. n \in 0..n /\ old = Seen(s, n - 1)'
          BY <1>0, <1>2, <2>2
        <5> QED BY <1>5, <2>6, <3>2, <4>1, <5>1
      <4>2. CASE r \in trans[s]
        BY <2>2, <2>3, <4>2
      <4> QED BY <3>1, <4>1, <4>2
    <3>4. ASSUME NEW t \in 0..n, Seen(s, t - 1)' # Seen(s, t)' PROVE \E r \in trans'[s] : r.at = t
      <4>1. CASE t = n
        BY <3>1, <3>2, <4>1
      <4>2. CASE t # n
        BY <2>2, <2>4, <3>1, <3>4, <4>2
      <4> QED BY <4>1, <4>2
    <3> QED BY <3>3, <3>4
  <2> QED BY <2>5, <2>6
<1>11. DOMAIN saw' = Servers /\ DOMAIN trans' = Servers /\ now' = now /\ n = now
  BY <1>0, <1>1, <1>2
<1> QED BY <1>1, <1>7, <1>8, <1>9, <1>10, <1>11 DEF HistoryInv

\* A unit ends: what the snapshots were is what the loop saw in it.
LEMMA HistoryTick ==
  ASSUME ReadInv, HistoryInv, Tick
  PROVE  HistoryInv'
<1>0. PICK n \in Nat : n = now
  BY DEF ReadInv, ReadTypeOK
<1>1. /\ step = "idle" /\ now' = n + 1 /\ saw' = [s \in Servers |-> Append(saw[s], snap[s].state)]
      /\ UNCHANGED <<step, todo, snap, trans, lastRun, ignored>> /\ todo = {}
      /\ \A s \in Servers : snap[s].state \in State
  BY <1>0 DEF ReadInv, ReadTypeOK, Tick
<1>2. \A s \in Servers : /\ saw'[s] \in Seq(State) /\ Len(saw'[s]) = n + 1
                        /\ \A i \in 1..n : saw'[s][i] = saw[s][i]
                        /\ saw'[s][n + 1] = snap[s].state
  BY <1>0, <1>1 DEF HistoryInv
<1>3. ASSUME NEW s \in Servers, NEW t \in Int, t <= n PROVE Seen(s, t)' = Seen(s, t)
  BY <1>0, <1>1, <1>2, <1>3 DEF Seen
<1>4. \A s \in Servers : Seen(s, n)' = snap[s].state /\ Seen(s, n + 1)' = snap[s].state
  BY <1>0, <1>1, <1>2 DEF Seen
<1>5. \A s \in Servers : snap'[s].state = Seen(s, now - 1)'
  <2>1. now' - 1 = n
    BY <1>0, <1>1
  <2> QED BY <1>1, <1>4, <2>1
<1>6. ASSUME NEW s \in Servers \ ignored
      PROVE  /\ \A r \in trans[s] : /\ r.at \in 0..(n + 1) /\ r.from # r.to
                                     /\ r.from = Seen(s, r.at - 1)' /\ r.to = Seen(s, r.at)'
             /\ \A t \in 0..(n + 1) : Seen(s, t - 1)' # Seen(s, t)' => \E r \in trans[s] : r.at = t
  <2>1. \A t \in 0..n : Seen(s, t)' = Seen(s, t) /\ Seen(s, t - 1)' = Seen(s, t - 1)
    BY <1>0, <1>3
  <2>2. \A r \in trans[s] : r.at \in 0..n /\ r.from # r.to /\ r.from = Seen(s, r.at - 1) /\ r.to = Seen(s, r.at)
    BY <1>0 DEF HistoryInv
  <2>3. \A t \in 0..n : Seen(s, t - 1) # Seen(s, t) => \E r \in trans[s] : r.at = t
    BY <1>0 DEF HistoryInv
  <2>4. Seen(s, (n + 1) - 1)' = Seen(s, n + 1)'
    <3>1. (n + 1) - 1 = n
      BY <1>0
    <3> QED BY <1>4, <3>1
  <2>5. ASSUME NEW r \in trans[s]
        PROVE  /\ r.at \in 0..(n + 1) /\ r.from # r.to
               /\ r.from = Seen(s, r.at - 1)' /\ r.to = Seen(s, r.at)'
    BY <1>0, <1>1, <2>1, <2>2, <2>5
  <2>6. ASSUME NEW t \in 0..(n + 1), Seen(s, t - 1)' # Seen(s, t)' PROVE \E r \in trans[s] : r.at = t
    <3>1. t \in 0..n \/ t = n + 1
      BY <1>0, <2>6
    <3> QED BY <2>1, <2>3, <2>4, <2>6, <3>1
  <2> QED BY <2>5, <2>6
<1> QED BY <1>0, <1>1, <1>2, <1>5, <1>6 DEF HistoryInv

\* Every step keeps the history.
LEMMA HistoryStep ==
  ASSUME ReadInv, HistoryInv, [Next]_vars
  PROVE  HistoryInv'
<1>1. CASE UNCHANGED vars
  BY <1>1, HistoryStays DEF vars
<1>2. CASE \/ \E s \in Servers, p \in Probes, result \in Results, network \in Networks, at \in 0..(now + Skew) :
                AcceptReport(s, p, result, network, at)
           \/ \E p \in Probes : RevokeProbe(p)
  BY <1>2, HistoryStays DEF AcceptReport, RevokeProbe
<1>3. CASE \E answer \in [Collected -> Answers(now)] : Collect(answer)
  BY <1>3, HistoryStays DEF Collect
<1>4. CASE Abort \/ Maintain
  <2>1. /\ UNCHANGED <<now, saw, trans, snap, ignored, lastRun>> /\ step # "idle"
        /\ (todo' = {} \/ todo' = todo)
    BY <1>4 DEF Abort, Maintain
  <2>2. lastRun.at = now
    BY <2>1 DEF ReadInv, ReadTypeOK
  <2> QED BY <2>1, <2>2, HistoryStays
<1> QED BY <1>1, <1>2, <1>3, <1>4, HistoryEvaluate, HistoryTick DEF Next

\* The transitions are the changes the loop saw.
LEMMA HistoryInvariant == Spec => [](ReadInv /\ HistoryInv)
<1>1. Init => HistoryInv
  <2> SUFFICES ASSUME Init PROVE HistoryInv
    OBVIOUS
  <2>1. /\ now = 0 /\ \A s \in Servers : saw[s] = <<>> /\ snap[s].state = "unknown" /\ trans[s] = {}
        /\ DOMAIN saw = Servers /\ DOMAIN trans = Servers
    BY DEF Init
  <2>2. \A s \in Servers : \A t \in {-1, 0} : Seen(s, t) = "unknown"
    BY <2>1 DEF Seen
  <2>3. \A s \in Servers : saw[s] \in Seq(State) /\ Len(saw[s]) = now
    <3>1. <<>> \in Seq(State) /\ Len(<<>>) = 0
      OBVIOUS
    <3> QED BY <2>1, <3>1
  <2>4. \A t \in 0..now : t = 0 /\ t - 1 = -1
    BY <2>1
  <2>5. now - 1 = -1
    BY <2>1
  <2> QED BY <2>1, <2>2, <2>3, <2>4, <2>5 DEF HistoryInv
<1>2. ReadInv /\ HistoryInv /\ [Next]_vars => (ReadInv /\ HistoryInv)'
  BY StepKeeps, HistoryStep
<1> QED BY <1>1, <1>2, InitRead, PTL DEF Spec

\* Between two transitions the state stays.
LEMMA StaysBetween ==
  ASSUME now \in Nat, HistoryInv, NEW s \in Servers \ ignored, NEW a \in Int, NEW b \in Int, a <= b, b <= now,
         \A r \in trans[s] : ~(a < r.at /\ r.at <= b)
  PROVE  Seen(s, b) = Seen(s, a)
<1> SUFFICES ASSUME Seen(s, b) # Seen(s, a) PROVE FALSE
  OBVIOUS
<1> DEFINE D == {u \in a..b : Seen(s, u) # Seen(s, a)}
<1>1. b \in D /\ D \in SUBSET (a..b)
  OBVIOUS
<1>2. PICK t \in D : \A u \in D : t <= u
  <2> HIDE DEF D
  <2> QED BY <1>1, HasFirstAndLast
<1>3. t \in Int /\ a < t /\ t <= b /\ Seen(s, t) # Seen(s, a)
  <2>1. t # a
    BY <1>2
  <2> QED BY <1>2, <2>1
<1>4. Seen(s, t - 1) = Seen(s, a)
  <2>1. t - 1 \in a..b /\ ~(t <= t - 1)
    BY <1>3
  <2>2. t - 1 \notin D
    BY <1>2, <2>1
  <2> QED BY <2>1, <2>2
<1>5. t >= 0
  BY <1>3 DEF Seen
<1>6. t \in 0..now
  BY <1>3, <1>5
<1>7. \E r \in trans[s] : r.at = t
  BY <1>3, <1>4, <1>6 DEF HistoryInv
<1> QED BY <1>3, <1>7

\* The state the timeline has for a moment is the one the loop saw then.
LEMMA StateFromIsSeen ==
  ASSUME now \in Nat, HistoryInv, NEW s \in Servers \ ignored, NEW t \in Int, t <= now
  PROVE  StateFrom(s, t, now) = Seen(s, t)
<1> DEFINE past == {r \in trans[s] : r.at <= t}
<1>0. \A r \in trans[s] : r.at \in 0..now /\ r.from = Seen(s, r.at - 1) /\ r.to = Seen(s, r.at)
  BY DEF HistoryInv
<1>1. \A u \in Int : u < 0 => Seen(s, u) = "unknown"
  BY DEF Seen
<1>2. CASE past = {}
  <2>1. Seen(s, t) = "unknown"
    <3>1. CASE t < 0
      BY <1>1, <3>1
    <3>2. CASE t >= 0
      <4>1. \A r \in trans[s] : ~(-1 < r.at /\ r.at <= t)
        BY <1>2
      <4>2. Seen(s, t) = Seen(s, -1)
        BY <3>2, <4>1, StaysBetween
      <4> QED BY <1>1, <4>2
    <3> QED BY <3>1, <3>2
  <2>2. FirstState(s, now) = "unknown"
    <3>1. CASE trans[s] = {}
      <4>1. Seen(s, now) = Seen(s, -1)
        BY <3>1, StaysBetween
      <4>2. snap[s].state = "unknown"
        BY <1>1, <4>1 DEF Seen
      <4> QED BY <3>1, <4>2 DEF FirstState
    <3>2. CASE trans[s] # {}
      <4> DEFINE times == {r.at : r \in trans[s]}
                 first == CHOOSE r \in trans[s] : \A q \in trans[s] : r.at <= q.at
      <4>1. times # {} /\ times \in SUBSET (0..now)
        BY <1>0, <3>2
      <4>2. PICK x \in times : \A y \in times : x <= y
        <5> HIDE DEF times
        <5>1. 0 \in Int /\ now \in Int
          OBVIOUS
        <5> QED BY <4>1, <5>1, HasFirstAndLast
      <4>3. \E r \in trans[s] : \A q \in trans[s] : r.at <= q.at
        BY <4>2
      <4>4. first \in trans[s] /\ \A q \in trans[s] : first.at <= q.at
        BY <4>3
      <4>5. FirstState(s, now) = first.from
        BY <3>2 DEF FirstState
      <4> HIDE DEF first
      <4>6. first.at \in 0..now /\ first.from = Seen(s, first.at - 1)
        BY <1>0, <4>4
      <4>7. \A r \in trans[s] : ~(-1 < r.at /\ r.at <= first.at - 1)
        BY <1>0, <4>4, <4>6
      <4>8. Seen(s, first.at - 1) = Seen(s, -1)
        BY <4>6, <4>7, StaysBetween
      <4> QED BY <1>1, <4>5, <4>6, <4>8
    <3> QED BY <3>1, <3>2
  <2> QED BY <1>2, <2>1, <2>2 DEF StateFrom
<1>3. CASE past # {}
  <2> DEFINE times == {r.at : r \in past}
             last == CHOOSE r \in past : \A q \in past : q.at <= r.at
  <2>1. times # {} /\ times \in SUBSET (0..now)
    BY <1>0, <1>3
  <2>2. PICK x \in times : \A y \in times : y <= x
    <3> HIDE DEF times
    <3>1. 0 \in Int /\ now \in Int
      OBVIOUS
    <3> QED BY <2>1, <3>1, HasFirstAndLast
  <2>3. \E r \in past : \A q \in past : q.at <= r.at
    BY <2>2
  <2>4. last \in past /\ \A q \in past : q.at <= last.at
    BY <2>3
  <2>5. StateFrom(s, t, now) = last.to
    BY <1>3 DEF StateFrom
  <2> HIDE DEF last
  <2>6. last.at \in 0..now /\ last.at <= t /\ last.to = Seen(s, last.at)
    BY <1>0, <2>4
  <2>7. \A r \in trans[s] : ~(last.at < r.at /\ r.at <= t)
    BY <1>0, <2>4, <2>6
  <2>8. Seen(s, t) = Seen(s, last.at)
    BY <2>6, <2>7, StaysBetween
  <2> QED BY <2>5, <2>6, <2>8
<1> QED BY <1>2, <1>3

\* The timeline, the moment the present state began and the end of the last trouble
\* are what the loop saw, for any window and any history of missed and abandoned runs.
THEOREM TimelineIsTrue == Spec => []TimelineIsWhatTheLoopSaw
<1>1. ReadInv /\ HistoryInv => TimelineIsWhatTheLoopSaw
  <2> SUFFICES ASSUME ReadInv, HistoryInv, NEW s \in Servers \ ignored
               PROVE  LET began == {t \in 0..now : Seen(s, t - 1) # Seen(s, t)}
                          ended == {t \in began : Seen(s, t - 1) # "unknown" /\ Seen(s, t) = "operational"}
                      IN  /\ \A t \in (now - Window)..now : StateFrom(s, t, now) = Seen(s, t)
                          /\ StateSince(s) = Max(began \cup {NoTime}) /\ LastIncident(s) = Max(ended \cup {NoTime})
    BY DEF TimelineIsWhatTheLoopSaw
  <2> DEFINE began == {t \in 0..now : Seen(s, t - 1) # Seen(s, t)}
             ended == {t \in began : Seen(s, t - 1) # "unknown" /\ Seen(s, t) = "operational"}
  <2>0. now \in Nat /\ Window \in Nat
    BY ReadConstants DEF ReadInv, ReadTypeOK
  <2>1. \A t \in (now - Window)..now : StateFrom(s, t, now) = Seen(s, t)
    BY <2>0, StateFromIsSeen
  <2>2. \A r \in trans[s] : r.at \in 0..now /\ r.from # r.to /\ r.from = Seen(s, r.at - 1) /\ r.to = Seen(s, r.at)
    BY DEF HistoryInv
  <2>3. \A t \in 0..now : Seen(s, t - 1) # Seen(s, t) => \E r \in trans[s] : r.at = t
    BY DEF HistoryInv
  <2>4. {r.at : r \in trans[s]} = began
    BY <2>2, <2>3
  <2>5. {r.at : r \in {q \in trans[s] : q.to = "operational" /\ q.from # "unknown"}} = ended
    BY <2>2, <2>3
  <2>6. StateSince(s) = Max(began \cup {NoTime})
    BY <2>4 DEF StateSince
  <2>7. LastIncident(s) = Max(ended \cup {NoTime})
    BY <2>5 DEF LastIncident
  <2> QED BY <2>1, <2>6, <2>7
<1> QED BY <1>1, HistoryInvariant, PTL

\* What Min of a bounded set is.
LEMMA FirstIsMin ==
  ASSUME NEW a \in Int, NEW b \in Int, NEW S \in SUBSET (a..b), S # {}
  PROVE  Min(S) \in S /\ \A y \in S : Min(S) <= y
<1>1. \E x \in S : \A y \in S : x <= y
  BY HasFirstAndLast
<1> QED BY <1>1 DEF Min

\* Where _timeline begins an interval, and where that interval ends.
Cuts(s) == {now - Window} \cup {r.at : r \in {q \in trans[s] : now - Window < q.at /\ q.at < now}}

NextCut(s, c) == Min({d \in Cuts(s) : d > c} \cup {now})

\* The intervals of the timeline, those before the first observation and the others.
LEMMA TimelineIs ==
  ASSUME NEW s
  PROVE  Timeline(s, now - Window, now) =
           {[from |-> c, until |-> Min({NextCut(s, c), KnownFrom(s, now)}), state |-> "unknown"] :
              c \in {d \in Cuts(s) : d < KnownFrom(s, now)}}
           \cup {[from |-> Max({c, KnownFrom(s, now)}), until |-> NextCut(s, c), state |-> StateFrom(s, c, now)] :
                   c \in {d \in Cuts(s) : KnownFrom(s, now) < NextCut(s, d)}}
  BY DEF Timeline, Cuts, NextCut

\* The end of an interval comes after its beginning, and no cut lies between.
LEMMA NextCutIs ==
  ASSUME ReadInv, HistoryInv, NEW s \in Servers \ ignored, NEW c \in Cuts(s)
  PROVE  /\ c \in Int /\ c >= now - Window /\ c <= now /\ NextCut(s, c) \in Int
         /\ NextCut(s, c) = now \/ (NextCut(s, c) \in Cuts(s) /\ NextCut(s, c) > c)
         /\ NextCut(s, c) <= now /\ \A d \in Cuts(s) : d > c => NextCut(s, c) <= d
<1>0. now \in Nat /\ Window \in Nat /\ now - Window \in Int /\ now \in Int /\ now - Window <= now
  BY ReadConstants DEF ReadInv, ReadTypeOK
<1>1. \A r \in trans[s] : r.at \in 0..now
  BY DEF HistoryInv
<1>2. \A d \in Cuts(s) : d \in (now - Window)..now
  BY <1>0, <1>1 DEF Cuts
<1> DEFINE S == {d \in Cuts(s) : d > c} \cup {now}
<1>3. S # {} /\ S \in SUBSET ((now - Window)..now) /\ now \in S
  BY <1>0, <1>2
<1>4. NextCut(s, c) = Min(S)
  BY DEF NextCut
<1>5. \A d \in S : d = now \/ (d \in Cuts(s) /\ d > c)
  OBVIOUS
<1>6. \A d \in Cuts(s) : d > c => d \in S
  OBVIOUS
<1> HIDE DEF S
<1>7. Min(S) \in S /\ \A y \in S : Min(S) <= y
  BY <1>0, <1>3, FirstIsMin
<1>8. c \in Int /\ c >= now - Window /\ c <= now
  BY <1>0, <1>2
<1> DEFINE m == NextCut(s, c)
<1>9. m \in S /\ \A y \in S : m <= y
  BY <1>4, <1>7
<1> HIDE DEF m
<1>10. m \in (now - Window)..now
  BY <1>3, <1>9
<1>11. m \in Int /\ m <= now
  BY <1>0, <1>10
<1>12. m = now \/ (m \in Cuts(s) /\ m > c)
  BY <1>5, <1>9
<1>13. \A d \in Cuts(s) : d > c => m <= d
  BY <1>6, <1>9
<1> QED BY <1>8, <1>11, <1>12, <1>13 DEF m

\* Since when there is evidence: now when there is none, and ahead of it only when all of
\* it is dated ahead.
LEMMA KnownIs ==
  ASSUME ReadInv, NEW s \in Servers
  PROVE  KnownFrom(s, now) \in 0..(now + Skew) /\ \A o \in obs[s] : KnownFrom(s, now) <= o.at
<1> DEFINE times == {o.at : o \in obs[s]}
<1>1. now \in Nat /\ Skew \in Nat /\ now + Skew \in Nat /\ times \in SUBSET (0..(now + Skew))
  BY ReadConstants DEF ReadInv, ReadTypeOK, RowOK
<1>2. CASE obs[s] = {}
  BY <1>1, <1>2 DEF KnownFrom
<1>3. CASE obs[s] # {}
  <2>1. KnownFrom(s, now) = Min(times) /\ times # {}
    BY <1>3 DEF KnownFrom
  <2>2. 0 \in Int /\ now + Skew \in Int
    BY <1>1
  <2>3. \A o \in obs[s] : o.at \in times
    OBVIOUS
  <2> HIDE DEF times
  <2>4. Min(times) \in times /\ \A y \in times : Min(times) <= y
    BY <1>1, <2>1, <2>2, FirstIsMin
  <2> QED BY <1>1, <2>1, <2>3, <2>4
<1> QED BY <1>2, <1>3

\* The interval of the timeline that begins at a cut.
Shown(s, c) ==
    [from |-> Max({c, KnownFrom(s, now)}), until |-> NextCut(s, c), state |-> StateFrom(s, c, now)]

\* Every interval whose state is known is one of these.
LEMMA KnownIsShown ==
  ASSUME NEW s, NEW i \in Timeline(s, now - Window, now), i.state # "unknown"
  PROVE  \E c \in Cuts(s) : KnownFrom(s, now) < NextCut(s, c) /\ i = Shown(s, c)
<1> DEFINE known  == KnownFrom(s, now)
           hidden == {[from |-> c, until |-> Min({NextCut(s, c), known}), state |-> "unknown"] :
                        c \in {d \in Cuts(s) : d < known}}
           shown  == {Shown(s, c) : c \in {d \in Cuts(s) : known < NextCut(s, d)}}
<1>1. Timeline(s, now - Window, now) = hidden \cup shown
  BY TimelineIs DEF Shown
<1>2. i \notin hidden
  <2> SUFFICES ASSUME i \in hidden PROVE FALSE
    OBVIOUS
  <2>1. PICK c : i = [from |-> c, until |-> Min({NextCut(s, c), known}), state |-> "unknown"]
    OBVIOUS
  <2> HIDE DEF hidden, known
  <2> QED BY <2>1
<1>3. i \in shown
  <2> HIDE DEF hidden, shown
  <2> QED BY <1>1, <1>2
<1> QED BY <1>3

\* An interval lies in the window and after the first evidence, and its state is the
\* one of each of its moments.
LEMMA ShownIs ==
  ASSUME ReadInv, HistoryInv, NEW s \in Servers \ ignored, NEW c \in Cuts(s),
         KnownFrom(s, now) < NextCut(s, c)
  PROVE  /\ Shown(s, c).from \in Int /\ Shown(s, c).until \in Int /\ Shown(s, c).from <= Shown(s, c).until
         /\ now - Window <= Shown(s, c).from /\ c <= Shown(s, c).from /\ KnownFrom(s, now) <= Shown(s, c).from
         /\ Shown(s, c).until = NextCut(s, c) /\ Shown(s, c).until <= now
         /\ \A t \in Int : Shown(s, c).from <= t /\ t < Shown(s, c).until => Seen(s, t) = Shown(s, c).state
<1> DEFINE known == KnownFrom(s, now)
           from  == Max({c, known})
           until == NextCut(s, c)
<1>0. now \in Nat /\ Window \in Nat /\ now - Window \in Int
  BY ReadConstants DEF ReadInv, ReadTypeOK
<1>1. known \in Int
  BY <1>0, KnownIs
<1>2. /\ c \in Int /\ c >= now - Window /\ c <= now /\ until \in Int /\ until <= now
      /\ until = now \/ (until \in Cuts(s) /\ until > c)
      /\ \A d \in Cuts(s) : d > c => until <= d
  BY NextCutIs
<1>3. Shown(s, c) = [from |-> from, until |-> until, state |-> StateFrom(s, c, now)]
  BY DEF Shown
<1> HIDE DEF known
<1>4. from \in {c, known} /\ from >= c /\ from >= known
  BY <1>1, <1>2, MaxOfTwo
<1> HIDE DEF from, until
<1>5. known < until
  BY DEF known, until
<1>6. from \in Int /\ until \in Int /\ from <= until /\ now - Window <= from /\ c <= from /\ known <= from
  BY <1>0, <1>1, <1>2, <1>4, <1>5
<1>7. ASSUME NEW t \in Int, from <= t, t < until PROVE Seen(s, t) = StateFrom(s, c, now)
  <2>1. c <= t /\ t < now
    BY <1>0, <1>2, <1>6, <1>7
  <2>2. ASSUME NEW r \in trans[s], c < r.at, r.at <= t PROVE FALSE
    <3>1. r.at \in Int
      BY DEF HistoryInv
    <3>2. r.at \in Cuts(s)
      BY <1>0, <1>2, <2>1, <2>2, <3>1 DEF Cuts
    <3> QED BY <1>0, <1>2, <1>7, <2>2, <3>1, <3>2
  <2>3. Seen(s, t) = Seen(s, c)
    BY <1>0, <1>2, <2>1, <2>2, StaysBetween
  <2>4. StateFrom(s, c, now) = Seen(s, c)
    BY <1>0, <1>2, StateFromIsSeen
  <2> QED BY <2>3, <2>4
<1>8. known = KnownFrom(s, now) /\ until = NextCut(s, c)
  BY DEF known, until
<1> QED BY <1>2, <1>3, <1>6, <1>7, <1>8

\* A moment of the window for which there is evidence has its interval.
LEMMA MomentIsShown ==
  ASSUME ReadInv, HistoryInv, NEW s \in Servers \ ignored,
         NEW t \in Int, now - Window <= t, t < now, KnownFrom(s, now) <= t
  PROVE  \E c \in Cuts(s) : /\ KnownFrom(s, now) < NextCut(s, c)
                            /\ Shown(s, c) \in Timeline(s, now - Window, now)
                            /\ Shown(s, c).from <= t /\ t < Shown(s, c).until
<1> DEFINE known  == KnownFrom(s, now)
           before == {d \in Cuts(s) : d <= t}
<1>0. now \in Nat /\ Window \in Nat /\ now - Window \in Int
  BY ReadConstants DEF ReadInv, ReadTypeOK
<1>1. known \in Int /\ known <= t
  BY <1>0, KnownIs
<1>2. now - Window \in before
  BY <1>0 DEF Cuts
<1>3. before \in SUBSET ((now - Window)..t)
  BY <1>0, NextCutIs
<1>4. PICK c \in before : \A d \in before : d <= c
  <2> HIDE DEF before
  <2> QED BY <1>0, <1>2, <1>3, HasFirstAndLast
<1>5. c \in Cuts(s) /\ c <= t /\ c \in Int
  BY <1>4, NextCutIs
<1>6. /\ NextCut(s, c) \in Int
      /\ NextCut(s, c) = now \/ (NextCut(s, c) \in Cuts(s) /\ NextCut(s, c) > c)
  BY <1>5, NextCutIs
<1>7. t < NextCut(s, c)
  <2>1. NextCut(s, c) \in before => NextCut(s, c) <= c
    BY <1>4
  <2>2. NextCut(s, c) \in Cuts(s) /\ ~(t < NextCut(s, c)) => NextCut(s, c) \in before
    BY <1>6
  <2> HIDE DEF before
  <2> QED BY <1>5, <1>6, <2>1, <2>2
<1> HIDE DEF known, before
<1>8. Max({c, known}) <= t /\ known < NextCut(s, c)
  <2>1. Max({c, known}) \in {c, known}
    BY <1>1, <1>5, MaxOfTwo
  <2> QED BY <1>0, <1>1, <1>5, <1>6, <1>7, <2>1
<1>9. Shown(s, c) \in Timeline(s, now - Window, now)
  BY <1>5, <1>8, TimelineIs DEF known, Shown
<1>10. Shown(s, c).from <= t /\ t < Shown(s, c).until
  BY <1>7, <1>8 DEF known, Shown
<1> QED BY <1>5, <1>8, <1>9, <1>10 DEF known

\* The chart has no other state than the one of its time, for any window.
THEOREM ChartIsTrue == Spec => []ChartIsWhatTheLoopSaw
<1>1. ReadInv /\ HistoryInv => ChartIsWhatTheLoopSaw
  <2> SUFFICES ASSUME ReadInv, HistoryInv, NEW s \in Servers \ ignored, NEW t \in (now - Window)..(now - 1)
               PROVE  Point(s, t) \in {Saw(s, t), "unknown"}
    BY DEF ChartIsWhatTheLoopSaw
  <2>0. now \in Nat /\ Window \in Nat /\ t \in Int /\ t < now /\ now - Window <= t
    BY ReadConstants DEF ReadInv, ReadTypeOK
  <2>1. CASE ~\E o \in obs[s] : o.at = t
    BY <2>1 DEF Point
  <2>2. CASE \E o \in obs[s] : o.at = t
    <3> DEFINE line == Timeline(s, now - Window, now)
               here == CHOOSE i \in line : i.from <= t /\ t < i.until
    <3>1. KnownFrom(s, now) \in Nat /\ KnownFrom(s, now) <= t
      BY <2>2, KnownIs
    <3>2. Saw(s, t) = Seen(s, t)
      BY <2>0, <3>1 DEF Saw
    <3>3. \E i \in line : i.from <= t /\ t < i.until
      BY <2>0, <3>1, MomentIsShown
    <3>4. here \in line /\ here.from <= t /\ t < here.until
      <4> HIDE DEF line
      <4> QED BY <3>3
    <3>5. Point(s, t) = here.state
      BY <2>2 DEF Point
    <3> HIDE DEF here
    <3>6. CASE here.state # "unknown"
      <4>1. PICK c \in Cuts(s) : KnownFrom(s, now) < NextCut(s, c) /\ here = Shown(s, c)
        BY <3>4, <3>6, KnownIsShown
      <4>2. Seen(s, t) = here.state
        BY <2>0, <3>4, <4>1, ShownIs
      <4> QED BY <3>2, <3>5, <4>2
    <3> QED BY <3>5, <3>6
  <2> QED BY <2>1, <2>2
<1> QED BY <1>1, HistoryInvariant, PTL

-----------------------------------------------------------------------------
(* Sums over a set *)

\* A set of naturals with 0 and with the successors of its elements has them all.
LEMMA AllNaturals ==
  ASSUME NEW T \in SUBSET Nat, 0 \in T, \A n \in T : n + 1 \in T
  PROVE  T = Nat
<1> SUFFICES ASSUME Nat \ T # {} PROVE FALSE
  OBVIOUS
<1>1. \E n \in Nat \ T : \A m \in Nat \ T : ~(<<m, n>> \in OpToRel(<, Nat))
  <2>1. IsWellFoundedOn(OpToRel(<, Nat), Nat)
    BY NatLessThanWellFounded
  <2> DEFINE U == Nat \ T
  <2>2. U \subseteq Nat /\ U # {}
    OBVIOUS
  <2> HIDE DEF U
  <2>3. \E n \in U : \A m \in U : ~(<<m, n>> \in OpToRel(<, Nat))
    BY <2>1, <2>2, WFMin
  <2> QED BY <2>3 DEF U
<1>2. PICK n \in Nat \ T : \A m \in Nat \ T : ~(m < n)
  BY <1>1 DEF OpToRel
<1>3. n - 1 \in Nat \ T /\ n - 1 < n
  BY <1>2
<1> QED BY <1>2, <1>3

\* The element a sum over a set takes first.
Pick(s) == CHOOSE x \in s : TRUE

\* g adds up val, taking the elements of a set one by one.
AddsUp(g, val, S) ==
    g = [s \in SUBSET S |-> IF s = {} THEN 0 ELSE val[Pick(s)] + g[s \ {Pick(s)}]]

\* What is left of a set after an element was taken.
LEMMA PickOne ==
  ASSUME NEW s, IsFiniteSet(s), s # {}
  PROVE  /\ Pick(s) \in s /\ IsFiniteSet(s \ {Pick(s)})
         /\ Cardinality(s) \in Nat /\ Cardinality(s \ {Pick(s)}) \in Nat
         /\ Cardinality(s) = Cardinality(s \ {Pick(s)}) + 1
<1>1. Pick(s) \in s
  BY DEF Pick
<1>2. IsFiniteSet(s \ {Pick(s)}) /\ Cardinality(s \ {Pick(s)}) = Cardinality(s) - 1
  BY <1>1, FS_RemoveElement
<1>3. Cardinality(s) \in Nat /\ Cardinality(s \ {Pick(s)}) \in Nat
  BY <1>2, FS_CardinalityType
<1> QED BY <1>1, <1>2, <1>3

\* There is such a function for every finite set.
LEMMA SumExists ==
  ASSUME NEW S, IsFiniteSet(S), NEW val
  PROVE  \E g : AddsUp(g, val, S)
<1> DEFINE D(n) == {s \in SUBSET S : Cardinality(s) <= n}
           Step(g, s) == IF s = {} THEN 0 ELSE val[Pick(s)] + g[s \ {Pick(s)}]
           T == {n \in Nat : \E g : g = [s \in D(n) |-> Step(g, s)]}
<1>1. \A s \in SUBSET S : IsFiniteSet(s) /\ Cardinality(s) \in Nat /\ Cardinality(s) <= Cardinality(S)
  BY FS_Subset, FS_CardinalityType
<1>2. 0 \in T
  <2> DEFINE g == [s \in D(0) |-> 0]
  <2>1. \A s \in D(0) : s = {}
    BY <1>1, FS_EmptySet
  <2>2. g = [s \in D(0) |-> Step(g, s)]
    BY <2>1
  <2> QED BY <2>2
<1>3. ASSUME NEW n \in T PROVE n + 1 \in T
  <2>1. PICK g : g = [s \in D(n) |-> Step(g, s)]
    BY <1>3
  <2> DEFINE h == [s \in D(n + 1) |-> Step(g, s)]
  <2>2. \A s \in D(n) : s \in D(n + 1) /\ h[s] = g[s]
    <3>1. \A s \in D(n) : s \in D(n + 1)
      BY <1>1
    <3>2. \A s \in D(n) : g[s] = Step(g, s)
      BY <2>1
    <3>3. \A s \in D(n + 1) : h[s] = Step(g, s)
      OBVIOUS
    <3> HIDE DEF h, D, Step
    <3> QED BY <3>1, <3>2, <3>3
  <2>3. \A s \in D(n + 1) : s # {} => s \ {Pick(s)} \in D(n)
    BY <1>1, PickOne
  <2>4. \A s \in D(n + 1) : Step(g, s) = Step(h, s)
    <3> HIDE DEF h, D
    <3> QED BY <2>2, <2>3
  <2>5. h = [s \in D(n + 1) |-> Step(h, s)]
    <3> HIDE DEF Step, D
    <3> QED BY <2>4
  <2>6. \E k : k = [s \in D(n + 1) |-> Step(k, s)]
    <3> HIDE DEF h, D, Step
    <3> QED BY <2>5
  <2>7. n + 1 \in Nat
    BY <1>3
  <2> HIDE DEF D, Step
  <2> QED BY <2>6, <2>7
<1>4. Cardinality(S) \in T
  <2>1. Cardinality(S) \in Nat
    BY FS_CardinalityType
  <2>2. T \subseteq Nat
    OBVIOUS
  <2> HIDE DEF T
  <2> QED BY <1>2, <1>3, <2>1, <2>2, AllNaturals
<1>5. D(Cardinality(S)) = SUBSET S
  BY <1>1
<1> HIDE DEF D
<1>6. \E g : g = [s \in D(Cardinality(S)) |-> Step(g, s)]
  BY <1>4
<1>7. \E g : g = [s \in SUBSET S |-> Step(g, s)]
  BY <1>5, <1>6
<1> QED BY <1>7 DEF AddsUp

\* All elements of the sets of a family.
Together(A, s) == UNION {A[i] : i \in s}

\* The size of a union of disjoint sets, one by one.
LEMMA UnionGrows ==
  ASSUME NEW s, NEW A, NEW x \in s, IsFiniteSet(A[x]), IsFiniteSet(Together(A, s \ {x})),
         \A i \in s : i # x => A[i] \cap A[x] = {}
  PROVE  /\ IsFiniteSet(Together(A, s))
         /\ Cardinality(Together(A, s)) = Cardinality(A[x]) + Cardinality(Together(A, s \ {x}))
         /\ Cardinality(A[x]) \in Nat /\ Cardinality(Together(A, s \ {x})) \in Nat
<1> DEFINE V == Together(A, s \ {x})
           W == A[x]
<1>1. Together(A, s) = W \cup V
  BY DEF Together
<1>2. W \cap V = {}
  BY DEF Together
<1> HIDE DEF V, W
<1>3. IsFiniteSet(W) /\ IsFiniteSet(V)
  BY DEF V, W
<1>4. Cardinality(W) \in Nat /\ Cardinality(V) \in Nat
  BY <1>3, FS_CardinalityType
<1>5. IsFiniteSet(W \cup V) /\ Cardinality(W \cup V) = Cardinality(W) + Cardinality(V)
  <2>1. IsFiniteSet(W \cup V) /\ Cardinality(W \cup V) = Cardinality(W) + Cardinality(V) - Cardinality(W \cap V)
    BY <1>3, FS_Union
  <2>2. Cardinality(W \cap V) = 0
    BY <1>2, FS_EmptySet
  <2> QED BY <1>4, <2>1, <2>2
<1> QED BY <1>1, <1>4, <1>5 DEF V, W

\* A sum of sizes of disjoint sets is the size of their union.
LEMMA SumCounts ==
  ASSUME NEW S, IsFiniteSet(S), NEW val, NEW A, NEW B, NEW g, AddsUp(g, val, S),
         \A i \in S : /\ IsFiniteSet(A[i]) /\ IsFiniteSet(B[i])
                      /\ val[i] = 2 * Cardinality(A[i]) + Cardinality(B[i]),
         \A i, j \in S : i # j => A[i] \cap A[j] = {} /\ B[i] \cap B[j] = {}
  PROVE  g[S] = 2 * Cardinality(Together(A, S)) + Cardinality(Together(B, S))
<1> DEFINE Counted(s) == /\ IsFiniteSet(Together(A, s)) /\ IsFiniteSet(Together(B, s))
                         /\ g[s] = 2 * Cardinality(Together(A, s)) + Cardinality(Together(B, s))
           T == {n \in Nat : \A s \in SUBSET S : Cardinality(s) <= n => Counted(s)}
<1>1. \A s \in SUBSET S : IsFiniteSet(s) /\ Cardinality(s) \in Nat
  BY FS_Subset, FS_CardinalityType
<1>2. \A s \in SUBSET S : g[s] = IF s = {} THEN 0 ELSE val[Pick(s)] + g[s \ {Pick(s)}]
  BY DEF AddsUp
<1>3. Counted({})
  <2>1. Together(A, {}) = {} /\ Together(B, {}) = {}
    BY DEF Together
  <2>2. g[{}] = 0
    BY <1>2
  <2>3. IsFiniteSet({}) /\ Cardinality({}) = 0
    BY FS_EmptySet
  <2> QED BY <2>1, <2>2, <2>3
<1>4. ASSUME NEW s \in SUBSET S, s # {}, Counted(s \ {Pick(s)}) PROVE Counted(s)
  <2> DEFINE x == Pick(s)
             a == Cardinality(A[x])
             b == Cardinality(B[x])
             c == Cardinality(Together(A, s \ {x}))
             d == Cardinality(Together(B, s \ {x}))
  <2>1. x \in s /\ x \in S
    BY <1>1, <1>4, PickOne
  <2> HIDE DEF x
  <2>2. /\ IsFiniteSet(A[x]) /\ IsFiniteSet(Together(A, s \ {x}))
        /\ IsFiniteSet(B[x]) /\ IsFiniteSet(Together(B, s \ {x}))
        /\ g[s \ {x}] = 2 * c + d
    BY <1>4, <2>1 DEF x
  <2>3. \A i \in s : i # x => A[i] \cap A[x] = {} /\ B[i] \cap B[x] = {}
    BY <2>1
  <2>4. IsFiniteSet(Together(A, s)) /\ Cardinality(Together(A, s)) = a + c /\ a \in Nat /\ c \in Nat
    BY <2>1, <2>2, <2>3, UnionGrows
  <2>5. IsFiniteSet(Together(B, s)) /\ Cardinality(Together(B, s)) = b + d /\ b \in Nat /\ d \in Nat
    BY <2>1, <2>2, <2>3, UnionGrows
  <2>6. g[s] = val[x] + g[s \ {x}]
    BY <1>2, <1>4 DEF x
  <2>7. val[x] = 2 * a + b
    BY <2>1
  <2> HIDE DEF a, b, c, d
  <2>8. g[s] = 2 * (a + c) + (b + d)
    <3>1. g[s] = (2 * a + b) + (2 * c + d)
      BY <2>2, <2>6, <2>7
    <3> QED BY <2>4, <2>5, <3>1
  <2> QED BY <2>4, <2>5, <2>8
<1> HIDE DEF Counted
<1>5. 0 \in T
  <2> SUFFICES ASSUME NEW s \in SUBSET S, Cardinality(s) <= 0 PROVE Counted(s)
    OBVIOUS
  <2>1. Cardinality(s) = 0
    BY <1>1
  <2>2. s = {}
    BY <1>1, <2>1, FS_EmptySet
  <2> QED BY <1>3, <2>2
<1>6. ASSUME NEW n \in T PROVE n + 1 \in T
  <2> SUFFICES ASSUME NEW s \in SUBSET S, Cardinality(s) <= n + 1, s # {} PROVE Counted(s)
    BY <1>3, <1>6
  <2>1. Cardinality(s \ {Pick(s)}) <= n /\ s \ {Pick(s)} \in SUBSET S
    BY <1>1, <1>6, PickOne
  <2> QED BY <1>4, <1>6, <2>1
<1>7. Cardinality(S) \in T
  <2>1. Cardinality(S) \in Nat
    BY FS_CardinalityType
  <2>2. T \subseteq Nat
    OBVIOUS
  <2> HIDE DEF T
  <2> QED BY <1>5, <1>6, <2>1, <2>2, AllNaturals
<1>8. Counted(S)
  BY <1>1, <1>7
<1> QED BY <1>8 DEF Counted

-----------------------------------------------------------------------------
(* Availability *)

\* What _availability adds up: the intervals whose state is known, and their moments.
Known(s) == {i \in Timeline(s, now - Window, now) : i.state # "unknown"}

Units(i) == i.from..(i.until - 1)

\* They are finitely many ...
LEMMA KnownFinite ==
  ASSUME ReadInv, HistoryInv, NEW s \in Servers \ ignored
  PROVE  IsFiniteSet(Known(s))
<1> DEFINE C == {c \in Cuts(s) : Shown(s, c) \in Known(s)}
           f == [c \in C |-> Shown(s, c)]
<1>1. now \in Nat /\ Window \in Nat /\ now - Window \in Int /\ now \in Int
  BY ReadConstants DEF ReadInv, ReadTypeOK
<1>2. C \in SUBSET ((now - Window)..now)
  BY <1>1, NextCutIs
<1>3. \A i \in Known(s) : \E c \in C : i = Shown(s, c)
  BY KnownIsShown DEF Known
<1>4. f \in Surjection(C, Known(s))
  BY <1>3 DEF Surjection
<1> HIDE DEF C, f
<1>5. IsFiniteSet(C)
  <2>1. IsFiniteSet((now - Window)..now)
    BY <1>1, FS_Interval
  <2> QED BY <1>2, <2>1, FS_Subset
<1> QED BY <1>4, <1>5, FS_Surjection

\* ... lie in the window, ...
LEMMA KnownInterval ==
  ASSUME ReadInv, HistoryInv, NEW s \in Servers \ ignored, NEW i \in Known(s)
  PROVE  /\ i.from \in Int /\ i.until \in Int /\ i.from <= i.until
         /\ \A t \in Units(i) : t \in (now - Window)..(now - 1) /\ Saw(s, t) = i.state
<1>0. now \in Nat /\ Window \in Nat
  BY ReadConstants DEF ReadInv, ReadTypeOK
<1>1. PICK c \in Cuts(s) : KnownFrom(s, now) < NextCut(s, c) /\ i = Shown(s, c)
  BY KnownIsShown DEF Known
<1>2. /\ i.from \in Int /\ i.until \in Int /\ i.from <= i.until
      /\ now - Window <= i.from /\ KnownFrom(s, now) <= i.from /\ i.until <= now
      /\ \A t \in Int : i.from <= t /\ t < i.until => Seen(s, t) = i.state
  BY <1>1, ShownIs
<1>3. ASSUME NEW t \in Units(i) PROVE t \in (now - Window)..(now - 1) /\ Saw(s, t) = i.state
  <2>1. t \in Int /\ i.from <= t /\ t < i.until
    BY <1>2, <1>3 DEF Units
  <2>2. KnownFrom(s, now) \in Int
    BY <1>0, KnownIs
  <2>3. ~(t < KnownFrom(s, now)) /\ t \in (now - Window)..(now - 1)
    BY <1>0, <1>2, <2>1, <2>2
  <2> QED BY <1>2, <2>1, <2>3 DEF Saw
<1> QED BY <1>2, <1>3

\* ... do not overlap ...
LEMMA KnownApart ==
  ASSUME ReadInv, HistoryInv, NEW s \in Servers \ ignored, NEW i \in Known(s), NEW j \in Known(s), i # j
  PROVE  Units(i) \cap Units(j) = {}
<1> SUFFICES ASSUME NEW t \in Units(i), t \in Units(j) PROVE FALSE
  OBVIOUS
<1>1. PICK c \in Cuts(s) : KnownFrom(s, now) < NextCut(s, c) /\ i = Shown(s, c)
  BY KnownIsShown DEF Known
<1>2. PICK d \in Cuts(s) : KnownFrom(s, now) < NextCut(s, d) /\ j = Shown(s, d)
  BY KnownIsShown DEF Known
<1>3. c # d
  BY <1>1, <1>2
<1>4. /\ i.from \in Int /\ i.until = NextCut(s, c) /\ c <= i.from /\ i.until \in Int
      /\ j.from \in Int /\ j.until = NextCut(s, d) /\ d <= j.from /\ j.until \in Int
  BY <1>1, <1>2, ShownIs
<1>5. /\ c \in Int /\ \A e \in Cuts(s) : e > c => NextCut(s, c) <= e
      /\ d \in Int /\ \A e \in Cuts(s) : e > d => NextCut(s, d) <= e
  BY NextCutIs
<1>6. t \in Int /\ i.from <= t /\ t < i.until /\ j.from <= t /\ t < j.until
  BY <1>4 DEF Units
<1>7. CASE c < d
  BY <1>4, <1>5, <1>6, <1>7
<1>8. CASE d < c
  BY <1>4, <1>5, <1>6, <1>8
<1> QED BY <1>3, <1>5, <1>7, <1>8

\* ... and leave out no moment whose state is known.
LEMMA KnownCovers ==
  ASSUME ReadInv, HistoryInv, NEW s \in Servers \ ignored, NEW t \in (now - Window)..(now - 1),
         Saw(s, t) # "unknown"
  PROVE  \E i \in Known(s) : t \in Units(i)
<1>0. now \in Nat /\ Window \in Nat /\ t \in Int /\ t < now /\ now - Window <= t
  BY ReadConstants DEF ReadInv, ReadTypeOK
<1>1. KnownFrom(s, now) \in Int
  BY <1>0, KnownIs
<1>2. KnownFrom(s, now) <= t /\ Saw(s, t) = Seen(s, t)
  BY <1>0, <1>1 DEF Saw
<1>3. PICK c \in Cuts(s) : /\ KnownFrom(s, now) < NextCut(s, c)
                           /\ Shown(s, c) \in Timeline(s, now - Window, now)
                           /\ Shown(s, c).from <= t /\ t < Shown(s, c).until
  BY <1>0, <1>2, MomentIsShown
<1>4. /\ Seen(s, t) = Shown(s, c).state /\ Shown(s, c).from \in Int /\ Shown(s, c).until \in Int
  BY <1>0, <1>3, ShownIs
<1>5. Shown(s, c) \in Known(s)
  BY <1>2, <1>3, <1>4 DEF Known
<1>6. t \in Units(Shown(s, c))
  BY <1>0, <1>3, <1>4 DEF Units
<1> QED BY <1>5, <1>6

\* The sum that is the known time.
LEMMA KnownSum ==
  ASSUME NEW s, IsFiniteSet(Known(s))
  PROVE  \E g : /\ AddsUp(g, [i \in Known(s) |-> i.until - i.from], Known(s))
                /\ Availability(s).known = g[Known(s)]
<1> DEFINE K == Known(s)
           val == [i \in K |-> i.until - i.from]
           F(g) == [x \in SUBSET K |->
                     IF x = {} THEN 0
                     ELSE ((CHOOSE y \in x : TRUE).until - (CHOOSE y \in x : TRUE).from)
                          + g[x \ {CHOOSE y \in x : TRUE}]]
           f == CHOOSE g : g = F(g)
<1>1. Availability(s).known = f[K]
  BY Zenon DEF Availability, Known, MapThenSumSet, MapThenFoldSet
<1>2. ASSUME NEW g PROVE AddsUp(g, val, K) <=> g = F(g)
  <2>1. \A x \in SUBSET K : x # {} => val[Pick(x)] = (CHOOSE y \in x : TRUE).until - (CHOOSE y \in x : TRUE).from
    BY DEF Pick
  <2> HIDE DEF val, K
  <2>2. F(g) = [x \in SUBSET K |-> IF x = {} THEN 0 ELSE val[Pick(x)] + g[x \ {Pick(x)}]]
    BY <2>1 DEF Pick
  <2> HIDE DEF F
  <2> QED BY <2>2 DEF AddsUp
<1>3. \E g : AddsUp(g, val, K)
  BY SumExists
<1> HIDE DEF F, val
<1>4. f = F(f)
  BY <1>2, <1>3
<1> HIDE DEF f
<1>5. AddsUp(f, val, K)
  BY <1>2, <1>4
<1> QED BY <1>1, <1>5 DEF val

\* A moment counts twice when the server was up, once when it was degraded.
Weight(state) == IF state = "operational" THEN 2 ELSE IF state = "degraded" THEN 1 ELSE 0

\* The sum of the availability is twice the moments up and once those degraded.
LEMMA UpSum ==
  ASSUME NEW s, IsFiniteSet(Known(s))
  PROVE  \E g : /\ AddsUp(g, [i \in Known(s) |-> Weight(i.state) * (i.until - i.from)], Known(s))
                /\ Availability(s).up = g[Known(s)]
<1> DEFINE K == Known(s)
           val == [i \in K |-> Weight(i.state) * (i.until - i.from)]
           F(g) == [x \in SUBSET K |->
                     IF x = {} THEN 0
                     ELSE (Weight((CHOOSE y \in x : TRUE).state)
                             * ((CHOOSE y \in x : TRUE).until - (CHOOSE y \in x : TRUE).from))
                          + g[x \ {CHOOSE y \in x : TRUE}]]
           f == CHOOSE g : g = F(g)
<1>1. Availability(s).up = f[K]
  BY Zenon DEF Availability, Known, MapThenSumSet, MapThenFoldSet, Weight
<1>2. ASSUME NEW g PROVE AddsUp(g, val, K) <=> g = F(g)
  <2>1. \A x \in SUBSET K : x # {} => val[Pick(x)] = Weight((CHOOSE y \in x : TRUE).state)
                             * ((CHOOSE y \in x : TRUE).until - (CHOOSE y \in x : TRUE).from)
    BY DEF Pick
  <2> HIDE DEF val, K
  <2>2. F(g) = [x \in SUBSET K |-> IF x = {} THEN 0 ELSE val[Pick(x)] + g[x \ {Pick(x)}]]
    BY <2>1 DEF Pick
  <2> HIDE DEF F
  <2> QED BY <2>2 DEF AddsUp
<1>3. \E g : AddsUp(g, val, K)
  BY SumExists
<1> HIDE DEF F, val
<1>4. f = F(f)
  BY <1>2, <1>3
<1> HIDE DEF f
<1>5. AddsUp(f, val, K)
  BY <1>2, <1>4
<1> QED BY <1>1, <1>5 DEF val

\* The moments of the window in a state.
Moments(s, state) == {t \in (now - Window)..(now - 1) : Saw(s, t) = state}

\* The known time is the window without the moments whose state is not known.
LEMMA KnownTime ==
  ASSUME ReadInv, HistoryInv, NEW s \in Servers \ ignored
  PROVE  Availability(s).known = Window - Cardinality(Moments(s, "unknown"))
<1> DEFINE K == Known(s)
           W == (now - Window)..(now - 1)
           val == [i \in K |-> i.until - i.from]
           A == [i \in K |-> {}]
           B == [i \in K |-> Units(i)]
           U == Moments(s, "unknown")
<1>0. now \in Nat /\ Window \in Nat
  BY ReadConstants DEF ReadInv, ReadTypeOK
<1>1. IsFiniteSet(K)
  BY KnownFinite
<1>2. PICK g : AddsUp(g, val, K) /\ Availability(s).known = g[K]
  BY <1>1, KnownSum
<1>3. ASSUME NEW i \in K
      PROVE  /\ IsFiniteSet(A[i]) /\ IsFiniteSet(B[i])
             /\ val[i] = 2 * Cardinality(A[i]) + Cardinality(B[i])
  <2>1. i.from \in Int /\ i.until \in Int /\ i.from <= i.until
    BY <1>3, KnownInterval
  <2>2. IsFiniteSet(Units(i)) /\ Cardinality(Units(i)) = i.until - i.from
    <3> DEFINE a == i.from
               b == i.until - 1
    <3>1. a \in Int /\ b \in Int /\ Units(i) = a..b /\ (a > b => i.until - i.from = 0) /\ b - a + 1 = i.until - i.from
      BY <2>1 DEF Units
    <3> HIDE DEF a, b
    <3> QED BY <3>1, FS_Interval
  <2>3. IsFiniteSet({}) /\ Cardinality({}) = 0
    BY FS_EmptySet
  <2>4. A[i] = {} /\ B[i] = Units(i) /\ val[i] = i.until - i.from
    BY <1>3
  <2> HIDE DEF A, B, val
  <2> QED BY <2>1, <2>2, <2>3, <2>4
<1>4. \A i, j \in K : i # j => A[i] \cap A[j] = {} /\ B[i] \cap B[j] = {}
  BY KnownApart
<1>5. Together(A, K) = {}
  BY DEF Together
<1>6. Together(B, K) = W \ U
  <2>1. Together(B, K) = UNION {Units(i) : i \in K}
    BY DEF Together
  <2>2. ASSUME NEW i \in K, NEW t \in Units(i) PROVE t \in W \ U
    <3>1. t \in W /\ Saw(s, t) = i.state
      BY <2>2, KnownInterval
    <3>2. i.state # "unknown"
      BY <2>2 DEF Known
    <3> QED BY <3>1, <3>2 DEF Moments
  <2>3. ASSUME NEW t \in W \ U PROVE \E i \in K : t \in Units(i)
    <3>1. t \in W /\ Saw(s, t) # "unknown"
      BY <2>3 DEF Moments
    <3> QED BY <3>1, KnownCovers
  <2> HIDE DEF K, B, W, U
  <2> QED BY <2>1, <2>2, <2>3
<1> HIDE DEF K, A, B, val
<1>7. g[K] = 2 * Cardinality(Together(A, K)) + Cardinality(Together(B, K))
  BY <1>1, <1>2, <1>3, <1>4, SumCounts
<1>8. IsFiniteSet(W) /\ Cardinality(W) = Window
  <2> DEFINE a == now - Window
             b == now - 1
  <2>1. a \in Int /\ b \in Int /\ (a > b => Window = 0) /\ b - a + 1 = Window
    BY <1>0
  <2> HIDE DEF a, b
  <2>2. IsFiniteSet(a..b) /\ Cardinality(a..b) = Window
    BY <2>1, FS_Interval
  <2> QED BY <2>2 DEF a, b
<1>9. U \in SUBSET W
  BY DEF Moments
<1> HIDE DEF U, W
<1>10. /\ IsFiniteSet(W \ U) /\ Cardinality(W \ U) = Cardinality(W) - Cardinality(W \cap U)
       /\ W \cap U = U /\ Cardinality({}) = 0 /\ IsFiniteSet(U)
  BY <1>8, <1>9, FS_Difference, FS_EmptySet, FS_Subset
<1>11. Cardinality(U) \in Nat
  BY <1>10, FS_CardinalityType
<1>12. g[K] = Window - Cardinality(U)
  <2>1. Cardinality(Together(A, K)) = 0
    BY <1>5, <1>10
  <2>2. Cardinality(Together(B, K)) = Window - Cardinality(U)
    BY <1>6, <1>8, <1>10
  <2>3. g[K] = 2 * 0 + (Window - Cardinality(U))
    BY <1>7, <2>1, <2>2
  <2> QED BY <1>0, <1>11, <2>3
<1> QED BY <1>2, <1>12 DEF U

\* The time up is the moments seen operational, twice, and those seen degraded.
LEMMA UpTime ==
  ASSUME ReadInv, HistoryInv, NEW s \in Servers \ ignored
  PROVE  Availability(s).up = 2 * Cardinality(Moments(s, "operational")) + Cardinality(Moments(s, "degraded"))
<1> DEFINE K == Known(s)
           val == [i \in K |-> Weight(i.state) * (i.until - i.from)]
           A == [i \in K |-> IF i.state = "operational" THEN Units(i) ELSE {}]
           B == [i \in K |-> IF i.state = "degraded" THEN Units(i) ELSE {}]
<1>1. IsFiniteSet(K)
  BY KnownFinite
<1>2. PICK g : AddsUp(g, val, K) /\ Availability(s).up = g[K]
  BY <1>1, UpSum
<1>3. ASSUME NEW i \in K
      PROVE  /\ IsFiniteSet(A[i]) /\ IsFiniteSet(B[i])
             /\ val[i] = 2 * Cardinality(A[i]) + Cardinality(B[i])
  <2> DEFINE n == i.until - i.from
  <2>1. i.from \in Int /\ i.until \in Int /\ i.from <= i.until
    BY <1>3, KnownInterval
  <2>2. IsFiniteSet(Units(i)) /\ Cardinality(Units(i)) = n
    <3> DEFINE a == i.from
               b == i.until - 1
    <3>1. a \in Int /\ b \in Int /\ Units(i) = a..b /\ (a > b => n = 0) /\ b - a + 1 = n
      BY <2>1 DEF Units
    <3> HIDE DEF a, b, n
    <3> QED BY <3>1, FS_Interval
  <2>3. IsFiniteSet({}) /\ Cardinality({}) = 0
    BY FS_EmptySet
  <2>4. /\ A[i] = IF i.state = "operational" THEN Units(i) ELSE {}
        /\ B[i] = IF i.state = "degraded" THEN Units(i) ELSE {}
        /\ val[i] = Weight(i.state) * n
    BY <1>3
  <2>5. n \in Int
    BY <2>1
  <2> HIDE DEF A, B, val, n
  <2> QED BY <2>2, <2>3, <2>4, <2>5 DEF Weight
<1>4. \A i, j \in K : i # j => A[i] \cap A[j] = {} /\ B[i] \cap B[j] = {}
  BY KnownApart
<1>5. ASSUME NEW state \in {"operational", "degraded"},
             NEW C, C = [i \in K |-> IF i.state = state THEN Units(i) ELSE {}]
      PROVE  Together(C, K) = Moments(s, state)
  <2>1. ASSUME NEW t \in Together(C, K) PROVE t \in Moments(s, state)
    <3>1. PICK i \in K : t \in C[i]
      BY <2>1 DEF Together
    <3>2. i.state = state /\ t \in Units(i)
      BY <1>5, <3>1
    <3> QED BY <3>1, <3>2, KnownInterval DEF Moments
  <2>2. ASSUME NEW t \in Moments(s, state) PROVE t \in Together(C, K)
    <3>1. t \in (now - Window)..(now - 1) /\ Saw(s, t) = state
      BY <2>2 DEF Moments
    <3>2. PICK i \in K : t \in Units(i)
      BY <1>5, <3>1, KnownCovers
    <3>3. i.state = state
      BY <3>1, <3>2, KnownInterval
    <3>4. t \in C[i]
      BY <1>5, <3>2, <3>3
    <3> QED BY <3>2, <3>4 DEF Together
  <2> QED BY <2>1, <2>2
<1>6. Together(A, K) = Moments(s, "operational") /\ Together(B, K) = Moments(s, "degraded")
  BY <1>5
<1> HIDE DEF K, A, B, val
<1>7. g[K] = 2 * Cardinality(Together(A, K)) + Cardinality(Together(B, K))
  BY <1>1, <1>2, <1>3, <1>4, SumCounts
<1> QED BY <1>2, <1>6, <1>7

\* Timeline, chart and availability, rebuilt from transitions and evidence, are what
\* the loop saw, for any window and any history of missed and abandoned runs.
THEOREM HistoryIsTrue == Spec => []HistoryIsWhatTheLoopSaw
<1>1. ReadInv /\ HistoryInv /\ TimelineIsWhatTheLoopSaw /\ ChartIsWhatTheLoopSaw => HistoryIsWhatTheLoopSaw
  <2> SUFFICES ASSUME ReadInv, HistoryInv, TimelineIsWhatTheLoopSaw, ChartIsWhatTheLoopSaw
               PROVE  HistoryIsWhatTheLoopSaw
    OBVIOUS
  <2>1. ASSUME NEW s \in Servers \ ignored
        PROVE  LET units(state) == Cardinality({t \in (now - Window)..(now - 1) : Saw(s, t) = state})
               IN  /\ Availability(s).known = Window - units("unknown")
                   /\ Availability(s).up = 2 * units("operational") + units("degraded")
    <3>1. Availability(s).known = Window - Cardinality(Moments(s, "unknown"))
      BY KnownTime
    <3>2. Availability(s).up = 2 * Cardinality(Moments(s, "operational")) + Cardinality(Moments(s, "degraded"))
      BY UpTime
    <3> QED BY Zenon, <3>1, <3>2 DEF Moments
  <2> QED BY Zenon, <2>1 DEF HistoryIsWhatTheLoopSaw
<1> QED BY <1>1, HistoryInvariant, TimelineIsTrue, ChartIsTrue, PTL
=============================================================================
