--------------------------- MODULE EvidenceProofs ----------------------------
(***************************************************************************)
(* Theorems about Evidence for every freshness, retention, number of       *)
(* confirmations and set of probe payloads: which rows may and may not     *)
(* move the state of a server.                                             *)
(***************************************************************************)
EXTENDS Evidence, FiniteSetTheorems, WellFoundedInduction, TLAPS

\* The facts about the constants that the proofs use.
LEMMA EvidenceConstants ==
    /\ Freshness \in Nat /\ Day \in Nat /\ Retention \in Nat
    /\ Freshness < Day /\ Day <= Retention /\ Freshness < Retention
    /\ Delay \in Nat /\ Skew \in Nat
    /\ Confirmations \in Nat /\ Confirmations > 0
BY EvidenceAssumption

\* accept_report yields a well-formed row for every payload.
LEMMA ReportType ==
    ASSUME NEW p \in Payloads, NEW at \in Int
    PROVE  LET o == ReportObservation(p, at)
           IN  /\ o.source \in {"pc", "mobile", "abroad"}
               /\ o.result \in ObservationResult /\ o.full \in BOOLEAN
               /\ o.control \in Flag /\ o.route \in Flag
               /\ o.at \in Int /\ o.until = o.at + Freshness
<1>1. SOURCE_OF_PROBE(p.kind) \in {"pc", "mobile", "abroad"}
  BY EvidenceAssumption DEF SOURCE_OF_PROBE
<1>2. TargetResult(p.checks) \in ObservationResult
  BY DEF TargetResult, ObservationResult
<1>3. ControlInternet(p.checks) \in Flag
  BY DEF ControlInternet, Flag
<1>4. QED
  BY <1>1, <1>2, <1>3 DEF ReportObservation, Flag

\* The table stays well formed under late and early reports, collection and sweeps.
THEOREM EvidenceTyped == EvidenceSpec => []EvidenceTypeOK
<1>1. EvidenceInit => EvidenceTypeOK
  BY DEF EvidenceInit, EvidenceTypeOK
<1>2. EvidenceTypeOK /\ [EvidenceNext]_evidenceVars => EvidenceTypeOK'
  <2> SUFFICES ASSUME EvidenceTypeOK, [EvidenceNext]_evidenceVars
               PROVE  EvidenceTypeOK'
    OBVIOUS
  <2>1. ASSUME NEW p \in Payloads, NEW at \in (now - Delay)..(now + Skew), AcceptReport(p, at)
        PROVE  EvidenceTypeOK'
    <3>1. at \in Int
      BY EvidenceConstants DEF EvidenceTypeOK
    <3>2. QED
      BY <2>1, <3>1, ReportType DEF AcceptReport, EvidenceTypeOK
  <2>2. ASSUME NEW source \in {"collector", "human_activity"}, NEW result \in {"success", "failure"},
               Collect(source, result)
        PROVE  EvidenceTypeOK'
    <3>1. /\ CollectorObservation(source, result).source = source
          /\ CollectorObservation(source, result).result = result
          /\ CollectorObservation(source, result).full = FALSE
          /\ CollectorObservation(source, result).control = "none"
          /\ CollectorObservation(source, result).route = "none"
          /\ CollectorObservation(source, result).at = now
          /\ CollectorObservation(source, result).until = now + Freshness
      BY DEF CollectorObservation
    <3>2. result \in ObservationResult /\ "none" \in Flag
      BY DEF ObservationResult, Flag
    <3>3. now \in Int /\ now' \in Nat
      BY <2>2 DEF EvidenceTypeOK, Collect
    <3>4. QED
      BY <2>2, <3>1, <3>2, <3>3, Zenon DEF Collect, EvidenceTypeOK
  <2>3. CASE Tick
    BY <2>3 DEF Tick, EvidenceTypeOK
  <2>4. CASE Sweep
    BY <2>4 DEF Sweep, EvidenceTypeOK
  <2>5. CASE UNCHANGED evidenceVars
    BY <2>5 DEF evidenceVars, EvidenceTypeOK
  <2>6. QED
    BY <2>1, <2>2, <2>3, <2>4, <2>5 DEF EvidenceNext
<1>3. QED
  BY <1>1, <1>2, PTL DEF EvidenceSpec

\* A step that adds a row adds only that row and leaves the clock alone.
LEMMA AddedRow ==
    ASSUME [EvidenceNext]_evidenceVars, NEW o, NewRow(o)
    PROVE  rows' = rows \cup {o} /\ now' = now
<1>1. ASSUME NEW p \in Payloads, NEW at \in (now - Delay)..(now + Skew), AcceptReport(p, at)
      PROVE  rows' = rows \cup {o} /\ now' = now
  BY <1>1 DEF AcceptReport, NewRow
<1>2. ASSUME NEW source, NEW result, Collect(source, result)
      PROVE  rows' = rows \cup {o} /\ now' = now
  BY <1>2 DEF Collect, NewRow
<1>3. CASE Tick \/ Sweep \/ UNCHANGED evidenceVars
  BY <1>3 DEF Tick, Sweep, evidenceVars, NewRow
<1>4. QED
  BY <1>1, <1>2, <1>3 DEF EvidenceNext

\* A row that is not a full test takes part in no confirmation: what confirms a
\* failure without it confirms it with it.
LEMMA PartialRowKeepsConfirmation ==
    ASSUME NEW F, NEW o, ~o.full, NEW n, ConfirmedFailure(F, n)
    PROVE  ConfirmedFailure(F \cup {o}, n)
<1>1. PICK source \in {p.source : p \in F} :
        Cardinality(FullTail(F, source, n)) = n
        /\ \A p \in FullTail(F, source, n) : ValidFullFailure(p)
  BY DEF ConfirmedFailure
<1>2. {p \in F \cup {o} : p.full /\ p.source = source} = {p \in F : p.full /\ p.source = source}
  OBVIOUS
<1>3. FullTail(F \cup {o}, source, n) = FullTail(F, source, n)
  BY <1>2 DEF FullTail
<1>4. source \in {p.source : p \in F \cup {o}}
  BY <1>1
<1>5. QED
  BY <1>1, <1>3, <1>4 DEF ConfirmedFailure

\* A confirmation rests on at least one failed row.
LEMMA ConfirmationFails ==
    ASSUME NEW F, NEW n \in Nat, n > 0, ConfirmedFailure(F, n)
    PROVE  PartialFailures(F) # {}
<1>1. PICK source \in {p.source : p \in F} :
        Cardinality(FullTail(F, source, n)) = n
        /\ \A p \in FullTail(F, source, n) : ValidFullFailure(p)
  BY DEF ConfirmedFailure
<1>2. FullTail(F, source, n) # {}
  BY <1>1, FS_EmptySet
<1>3. FullTail(F, source, n) \subseteq F
  BY DEF FullTail
<1>4. QED
  BY <1>1, <1>2, <1>3 DEF ValidFullFailure, PartialFailures

\* unavailable is exactly a confirmed failure that no strong success contradicts:
\* the third branch of the ladder adds nothing.
LEMMA UnavailableVerdict ==
    ASSUME NEW F, NEW n \in Nat, n > 0
    PROVE  Verdict(F, n)[1] = "unavailable" <=> ConfirmedFailure(F, n) /\ StrongSuccesses(F) = {}
<1>1. StrongSuccesses(F) # {} => ValidSuccesses(F) # {}
  BY DEF StrongSuccesses
<1>2. ConfirmedFailure(F, n) => PartialFailures(F) # {}
  BY ConfirmationFails
<1>3. QED
  BY <1>1, <1>2 DEF Verdict

\* The state of the evaluation, by the fresh rows.
LEMMA EvaluatedState ==
    ASSUME NEW R, NEW t, NEW e
    PROVE  EvaluateScope(R, t, e, Confirmations).state =
             IF Fresh(R, t) = {} THEN "unknown" ELSE Verdict(Fresh(R, t), Confirmations)[1]
BY DEF EvaluateScope

\* No abroad report that is not a full test ends an outage, for any number of
\* confirmations and any history of reports (the comment on strong_successes).
THEOREM AbroadCannotHide == EvidenceSpec => AbroadNeverHidesOutage
<1>1. ASSUME [EvidenceNext]_evidenceVars, NEW o \in rows', NewRow(o),
             o.source = "abroad", ~o.full, Evaluate.state = "unavailable"
      PROVE  Evaluate'.state = "unavailable"
  <2> DEFINE F == Fresh(rows, now)
             G == Fresh(rows', now')
  <2>1. rows' = rows \cup {o} /\ now' = now
    BY <1>1, AddedRow
  <2>2. G = F \/ G = F \cup {o}
    BY <2>1 DEF Fresh
  <2>3. F # {} /\ Verdict(F, Confirmations)[1] = "unavailable"
    BY <1>1, EvaluatedState DEF Evaluate
  <2>4. ConfirmedFailure(F, Confirmations) /\ StrongSuccesses(F) = {}
    BY <2>3, UnavailableVerdict, EvidenceConstants
  <2>5. ConfirmedFailure(G, Confirmations)
    BY <1>1, <2>2, <2>4, PartialRowKeepsConfirmation
  <2>6. StrongSuccesses(G) = {}
    BY <1>1, <2>2, <2>4 DEF StrongSuccesses, ValidSuccesses
  <2>7. Verdict(G, Confirmations)[1] = "unavailable"
    BY <2>5, <2>6, UnavailableVerdict, EvidenceConstants
  <2>8. G # {}
    BY <2>2, <2>3
  <2>9. Evaluate' = EvaluateScope(rows', now', ExpectedSources', Confirmations)
    BY DEF Evaluate
  <2>10. QED
    BY <2>7, <2>8, <2>9, EvaluatedState
<1>2. [EvidenceNext]_evidenceVars => HidesNoOutage
  BY <1>1 DEF HidesNoOutage
<1>3. QED
  BY <1>2, PTL DEF EvidenceSpec, AbroadNeverHidesOutage

ExpectedOK ==
    IsFiniteSet(RecentSources) /\ ExpectedSources \in Nat /\ ExpectedSources >= 1

\* The kinds of sources are finitely many, and something is always expected.
LEMMA ExpectedType == EvidenceTypeOK => ExpectedOK
<1> SUFFICES ASSUME EvidenceTypeOK PROVE ExpectedOK
  OBVIOUS
<1>1. IsFiniteSet({"pc", "mobile", "abroad", "collector", "human_activity"})
  <2>1. IsFiniteSet({"pc"}) /\ IsFiniteSet({"pc", "mobile"}) /\ IsFiniteSet({"pc", "mobile", "abroad"})
    <3>1. IsFiniteSet({"pc"})
      BY FS_Singleton
    <3>2. IsFiniteSet({"pc"} \cup {"mobile"}) /\ {"pc"} \cup {"mobile"} = {"pc", "mobile"}
      BY <3>1, FS_AddElement
    <3>3. IsFiniteSet({"pc", "mobile"} \cup {"abroad"})
      BY <3>2, FS_AddElement
    <3>4. {"pc", "mobile"} \cup {"abroad"} = {"pc", "mobile", "abroad"}
      OBVIOUS
    <3>5. QED
      BY <3>1, <3>2, <3>3, <3>4
  <2>2. IsFiniteSet({"pc", "mobile", "abroad"} \cup {"collector"} \cup {"human_activity"})
    BY <2>1, FS_AddElement
  <2>3. {"pc", "mobile", "abroad"} \cup {"collector"} \cup {"human_activity"}
          = {"pc", "mobile", "abroad", "collector", "human_activity"}
    OBVIOUS
  <2>4. QED
    BY <2>2, <2>3
<1>2. RecentSources \subseteq {"pc", "mobile", "abroad", "collector", "human_activity"}
  BY DEF RecentSources, EvidenceTypeOK
<1>3. IsFiniteSet(RecentSources)
  BY <1>1, <1>2, FS_Subset
<1>4. Cardinality(RecentSources) \in Nat /\ (RecentSources # {} => Cardinality(RecentSources) # 0)
  BY <1>3, FS_CardinalityType, FS_EmptySet
<1>5. QED
  BY <1>3, <1>4 DEF ExpectedSources, ExpectedOK

\* The same in the next state.
LEMMA ExpectedTypeNext == EvidenceTypeOK' => ExpectedOK'
BY ExpectedType, PTL

\* More expected sources never raise the covered share, nor take it away.
LEMMA DilutedCoverage ==
    ASSUME NEW F, NEW c \in Nat, c = Cardinality({o.source : o \in F}),
           NEW d \in Nat, NEW e \in Nat, d >= 1, d <= e
    PROVE  /\ Coverage(F, e).num * Coverage(F, d).den <= Coverage(F, d).num * Coverage(F, e).den
           /\ Coverage(F, d).num > 0 => Coverage(F, e).num > 0
<1>1. /\ Coverage(F, d).den = d /\ Coverage(F, d).num = IF d < c THEN d ELSE c
      /\ Coverage(F, e).den = e /\ Coverage(F, e).num = IF e < c THEN e ELSE c
  BY DEF Coverage, Smaller
<1>2. CASE d < c
  <2>1. CASE e < c
    BY <1>1, <1>2, <2>1
  <2>2. CASE ~(e < c)
    <3>1. c <= e
      BY <2>2
    <3>2. c * d <= d * e
      BY <3>1
    <3>3. QED
      BY <1>1, <1>2, <2>2, <3>2
  <2>3. QED
    BY <2>1, <2>2
<1>3. CASE ~(d < c)
  <2>1. ~(e < c)
    BY <1>3
  <2>2. c * d <= c * e
    OBVIOUS
  <2>3. QED
    BY <1>1, <1>3, <2>1, <2>2
<1>4. QED
  BY <1>2, <1>3

\* A misrouted report moves neither the state nor the dates of the evaluation
\* (pc.md); through _expected_sources it may only lower the coverage.
THEOREM MisroutedIsNoEvidence == EvidenceSpec => MisroutedMovesNoState
<1>1. ASSUME EvidenceTypeOK, EvidenceTypeOK', [EvidenceNext]_evidenceVars,
             NEW o \in rows', NewRow(o), o.route = "no"
      PROVE  OnlyLowersCoverage(Evaluate, Evaluate')
  <2> DEFINE F == Fresh(rows, now)
             d == ExpectedSources
             e == ExpectedSources'
             before == EvaluateScope(rows, now, d, Confirmations)
             after == EvaluateScope(rows', now', e, Confirmations)
  <2>1. rows' = rows \cup {o} /\ now' = now
    BY <1>1, AddedRow
  <2>2. Fresh(rows', now') = F
    BY <1>1, <2>1 DEF Fresh
  <2>3. RecentSources \subseteq RecentSources'
    BY <2>1 DEF RecentSources
  <2>4. /\ IsFiniteSet(RecentSources') /\ d \in Nat /\ d >= 1 /\ e \in Nat /\ e >= 1
    BY <1>1, ExpectedType, ExpectedTypeNext DEF ExpectedOK
  <2>5. d <= e
    <3>1. CASE RecentSources = {}
      BY <2>4, <3>1 DEF ExpectedSources
    <3>2. CASE RecentSources # {}
      <4>1. d = Cardinality(RecentSources) /\ e = Cardinality(RecentSources')
        BY <2>3, <3>2 DEF ExpectedSources
      <4>2. QED
        BY <2>3, <2>4, <4>1, FS_Subset
    <3>3. QED
      BY <3>1, <3>2
  <2>6. Cardinality({p.source : p \in F}) \in Nat
    <3>1. {p.source : p \in F} \subseteq RecentSources
      BY <1>1, EvidenceConstants DEF Fresh, RecentSources, EvidenceTypeOK
    <3>2. IsFiniteSet(RecentSources)
      BY <1>1, ExpectedType DEF ExpectedOK
    <3>3. QED
      BY <3>1, <3>2, FS_Subset, FS_CardinalityType
  <2>7. Evaluate = before /\ Evaluate' = after
    BY DEF Evaluate
  <2>8. before.coverage = Coverage(F, d) /\ after.coverage = Coverage(F, e)
    BY <2>2 DEF EvaluateScope
  <2>9. \A field \in {"state", "reason", "observed", "until", "count"} : after[field] = before[field]
    <3>1. after.state = before.state /\ after.reason = before.reason
      BY <2>2 DEF EvaluateScope
    <3>2. after.observed = before.observed /\ after.until = before.until
      BY <2>2, <2>1 DEF EvaluateScope
    <3>3. after.count = before.count
      BY <2>2 DEF EvaluateScope
    <3> HIDE DEF before, after
    <3>4. QED
      BY <3>1, <3>2, <3>3
  <2> HIDE DEF before, after, F, d, e
  <2>10. /\ after.coverage.num * before.coverage.den <= before.coverage.num * after.coverage.den
         /\ before.coverage.num > 0 => after.coverage.num > 0
    <3> DEFINE c == Cardinality({p.source : p \in F})
    <3>1. c \in Nat /\ c = Cardinality({p.source : p \in F})
      BY <2>6
    <3> HIDE DEF c
    <3>2. /\ Coverage(F, e).num * Coverage(F, d).den <= Coverage(F, d).num * Coverage(F, e).den
          /\ Coverage(F, d).num > 0 => Coverage(F, e).num > 0
      BY <2>4, <2>5, <3>1, DilutedCoverage
    <3>3. QED
      BY <2>8, <3>2
  <2>11. OnlyLowersCoverage(before, after)
    BY <2>9, <2>10 DEF OnlyLowersCoverage, Covered
  <2>12. QED
    BY <2>7, <2>11
<1>2. EvidenceTypeOK /\ EvidenceTypeOK' /\ [EvidenceNext]_evidenceVars => MisroutedOnlyDilutes
  BY <1>1 DEF MisroutedOnlyDilutes
<1>3. QED
  BY <1>2, EvidenceTyped, PTL DEF EvidenceSpec, MisroutedMovesNoState

\* The sweep keeps the evaluation: a fresh row is younger than the freshness, a
\* counted source younger than a day, and neither is above the retention.
THEOREM SweepIsSafe == EvidenceSpec => SweepKeepsTheState
<1>1. ASSUME EvidenceTypeOK, [EvidenceNext]_evidenceVars, rows' \subseteq rows, now' = now
      PROVE  Evaluate' = Evaluate
  <2>1. CASE Sweep
    <3>1. ASSUME NEW o \in rows, o.until >= now \/ o.at >= now - Day
          PROVE  o \in rows'
      <4>1. now \in Int /\ o.at \in Int /\ o.until = o.at + Freshness
        BY <1>1, <3>1 DEF EvidenceTypeOK
      <4>2. o.at >= now - Retention
        BY <3>1, <4>1, EvidenceConstants
      <4>3. QED
        BY <2>1, <3>1, <4>2 DEF Sweep
    <3>2. Fresh(rows', now') = Fresh(rows, now)
      BY <1>1, <3>1 DEF Fresh
    <3>3. RecentSources' = RecentSources
      BY <1>1, <3>1 DEF RecentSources
    <3>4. QED
      BY <3>2, <3>3 DEF Evaluate, EvaluateScope, ExpectedSources
  <2>2. CASE rows' = rows
    BY <1>1, <2>2 DEF Evaluate, ExpectedSources, RecentSources
  <2>3. Sweep \/ rows' = rows
    <3>2. ASSUME NEW p \in Payloads, NEW at \in (now - Delay)..(now + Skew), AcceptReport(p, at)
          PROVE  rows' = rows
      BY <1>1, <3>2 DEF AcceptReport
    <3>3. ASSUME NEW source, NEW result, Collect(source, result)
          PROVE  rows' = rows
      BY <1>1, <3>3 DEF Collect
    <3>4. CASE Tick \/ UNCHANGED evidenceVars
      BY <3>4 DEF Tick, evidenceVars
    <3>5. QED
      BY <1>1, <3>2, <3>3, <3>4 DEF EvidenceNext
  <2>4. QED
    BY <2>1, <2>2, <2>3
<1>2. EvidenceTypeOK /\ [EvidenceNext]_evidenceVars => DeletesOnlyHistory
  BY <1>1 DEF DeletesOnlyHistory
<1>3. QED
  BY <1>2, EvidenceTyped, PTL DEF EvidenceSpec, SweepKeepsTheState
-----------------------------------------------------------------------------
(* Counting.  evaluate_scope looks at the last tests of a source; what that *)
(* says of the table needs the table to be finite and its times to have a   *)
(* lower bound, which is what the invariant adds to the types.              *)

EvidenceInv ==
    /\ EvidenceTypeOK
    /\ IsFiniteSet(rows)
    /\ \A o \in rows : o.at + Delay \in Nat

\* A table of reports that are at most Delay late stays finite and bounded below.
LEMMA EvidenceBounded == EvidenceSpec => []EvidenceInv
<1>1. EvidenceInit => IsFiniteSet(rows) /\ \A o \in rows : o.at + Delay \in Nat
  BY FS_EmptySet DEF EvidenceInit
<1>2. ASSUME EvidenceInv, EvidenceTypeOK', [EvidenceNext]_evidenceVars
      PROVE  EvidenceInv'
  <2>1. ASSUME NEW p \in Payloads, NEW at \in (now - Delay)..(now + Skew), AcceptReport(p, at)
        PROVE  EvidenceInv'
    <3>1. rows' = rows \cup {ReportObservation(p, at)} /\ ReportObservation(p, at).at = at
      BY <2>1 DEF AcceptReport, ReportObservation
    <3>2. at + Delay \in Nat
      BY <1>2, EvidenceConstants DEF EvidenceInv, EvidenceTypeOK
    <3>3. IsFiniteSet(rows')
      BY <1>2, <3>1, FS_AddElement DEF EvidenceInv
    <3>4. QED
      BY <1>2, <3>1, <3>2, <3>3 DEF EvidenceInv
  <2>2. ASSUME NEW source, NEW result, Collect(source, result)
        PROVE  EvidenceInv'
    <3>1. rows' = rows \cup {CollectorObservation(source, result)}
      BY <2>2 DEF Collect
    <3>2. CollectorObservation(source, result).at + Delay \in Nat
      BY <1>2, EvidenceConstants DEF EvidenceInv, EvidenceTypeOK, CollectorObservation
    <3>3. IsFiniteSet(rows')
      BY <1>2, <3>1, FS_AddElement DEF EvidenceInv
    <3>4. QED
      BY <1>2, <3>1, <3>2, <3>3 DEF EvidenceInv
  <2>3. CASE Tick \/ UNCHANGED evidenceVars
    BY <1>2, <2>3 DEF Tick, evidenceVars, EvidenceInv
  <2>4. CASE Sweep
    <3>1. rows' \subseteq rows
      BY <2>4 DEF Sweep
    <3>2. IsFiniteSet(rows')
      BY <1>2, <3>1, FS_Subset DEF EvidenceInv
    <3>3. QED
      BY <1>2, <3>1, <3>2 DEF EvidenceInv
  <2>5. QED
    BY <1>2, <2>1, <2>2, <2>3, <2>4 DEF EvidenceNext
<1>3. QED
  BY <1>1, <1>2, EvidenceTyped, PTL DEF EvidenceSpec, EvidenceInv

\* The full tests of a source among fresh rows.
FullTests(F, source) == {o \in F : o.full /\ o.source = source}

\* The rows of a table that FullTail compares are finite in number.
LEMMA LaterTestsFinite ==
    ASSUME NEW F, IsFiniteSet(F), NEW source, NEW t
    PROVE  /\ IsFiniteSet({p \in FullTests(F, source) : p.at > t})
           /\ Cardinality({p \in FullTests(F, source) : p.at > t}) \in Nat
<1>1. {p \in FullTests(F, source) : p.at > t} \subseteq F
  BY DEF FullTests
<1>2. QED
  BY <1>1, FS_Subset, FS_CardinalityType

\* Tests with times bounded below have a first one.
LEMMA FirstExists ==
    ASSUME NEW T, T # {}, NEW d \in Nat, \A o \in T : o.at \in Int /\ o.at + d \in Nat
    PROVE  \E first \in T : \A o \in T : o.at >= first.at
<1> DEFINE A == {o.at + d : o \in T}
<1>1. A \subseteq Nat /\ A # {}
  OBVIOUS
<1>2. \E a \in A : \A b \in A : ~(<<b, a>> \in OpToRel(<, Nat))
  <2>1. IsWellFoundedOn(OpToRel(<, Nat), Nat)
    BY NatLessThanWellFounded
  <2> HIDE DEF A
  <2>2. QED
    BY <1>1, <2>1, WFMin
<1>3. PICK a \in A : \A b \in A : ~(<<b, a>> \in OpToRel(<, Nat))
  BY <1>2
<1>4. \A b \in A : ~(b < a)
  BY <1>1, <1>3 DEF OpToRel
<1>5. PICK first \in T : a = first.at + d
  OBVIOUS
<1>6. \A o \in T : o.at >= first.at
  <2> TAKE o \in T
  <2>1. ~(o.at + d < first.at + d)
    BY <1>4, <1>5
  <2>2. QED
    BY <2>1
<1>7. QED
  BY <1>6

\* The tail of a source is closed upwards: a test at least as late as one of the
\* last n is one of them.
LEMMA TailIsUpwardClosed ==
    ASSUME NEW F, IsFiniteSet(F), \A o \in F : o.at \in Int, NEW source, NEW n \in Nat,
           NEW first \in FullTail(F, source, n), NEW o \in FullTests(F, source), o.at >= first.at
    PROVE  o \in FullTail(F, source, n)
<1> DEFINE after(t) == {p \in FullTests(F, source) : p.at > t}
<1>1. first \in F /\ o \in F /\ first \in FullTests(F, source) /\ Cardinality(after(first.at)) < n
  BY DEF FullTail, FullTests
<1>2. after(o.at) \subseteq after(first.at)
  BY <1>1 DEF FullTests
<1>3. IsFiniteSet(after(first.at)) /\ Cardinality(after(first.at)) \in Nat
      /\ Cardinality(after(o.at)) \in Nat
  BY LaterTestsFinite
<1> HIDE DEF after
<1>4. Cardinality(after(o.at)) <= Cardinality(after(first.at))
  BY <1>2, <1>3, FS_Subset
<1>5. Cardinality(after(o.at)) < n
  BY <1>1, <1>3, <1>4
<1>6. QED
  BY <1>5 DEF after, FullTail, FullTests

\* A confirmed failure is a run of consecutive failed tests at the end of a
\* source's history, at least n long.
LEMMA ConfirmedIsConsecutive ==
    ASSUME NEW F, IsFiniteSet(F), \A o \in F : o.at \in Int /\ o.at + Delay \in Nat,
           NEW n \in Nat, n > 0, ConfirmedFailure(F, n)
    PROVE  \E first \in F :
             LET tests == {o \in F : o.full /\ o.source = first.source /\ o.at >= first.at}
             IN  Cardinality(tests) >= n /\ \A o \in tests : o.result = "failure" /\ o.control = "yes"
<1>1. PICK source \in {p.source : p \in F} :
        Cardinality(FullTail(F, source, n)) = n
        /\ \A p \in FullTail(F, source, n) : ValidFullFailure(p)
  BY DEF ConfirmedFailure
<1> DEFINE tail == FullTail(F, source, n)
<1>2. tail # {} /\ tail \subseteq F /\ tail \subseteq FullTests(F, source)
  <2>1. tail \subseteq F /\ tail \subseteq FullTests(F, source)
    BY DEF FullTail, FullTests
  <2>2. tail # {}
    BY <1>1, FS_EmptySet
  <2>3. QED
    BY <2>1, <2>2
<1>3. PICK first \in tail : \A o \in tail : o.at >= first.at
  <2> HIDE DEF tail
  <2> QED BY <1>2, FirstExists, EvidenceConstants
<1> DEFINE tests == {o \in F : o.full /\ o.source = first.source /\ o.at >= first.at}
<1>4. tests = tail
  <2>1. first.source = source
    BY <1>2, <1>3 DEF FullTests
  <2>2. tail \subseteq tests
    BY <1>2, <1>3, <2>1 DEF FullTests
  <2>3. ASSUME NEW o \in tests PROVE o \in tail
    <3>1. o \in FullTests(F, source) /\ o.at >= first.at
      BY <2>1, <2>3 DEF FullTests
    <3>2. QED
      BY <3>1, <1>3, TailIsUpwardClosed
  <2>4. QED
    BY <2>2, <2>3
<1>5. Cardinality(tests) >= n /\ \A o \in tests : o.result = "failure" /\ o.control = "yes"
  <2>1. Cardinality(tail) = n /\ \A o \in tail : ValidFullFailure(o)
    BY <1>1
  <2> HIDE DEF tail, tests
  <2>2. QED
    BY <1>4, <2>1 DEF ValidFullFailure
<1>6. QED
  BY <1>2, <1>3, <1>5

\* evaluate_scope says unavailable only of a source whose last Confirmations or more
\* full tests all failed with its own Internet working, with no person and no full
\* test succeeding anywhere but abroad: for every history, however late and skewed.
THEOREM OutageNeedsConfirmation == EvidenceSpec => []OutageIsConfirmed
<1>1. EvidenceInv => OutageIsConfirmed
  <2> SUFFICES ASSUME EvidenceInv, Evaluate.state = "unavailable"
               PROVE  /\ \E first \in rows :
                           LET tests == {o \in Fresh(rows, now) :
                                           o.full /\ o.source = first.source /\ o.at >= first.at}
                           IN  /\ Cardinality(tests) >= Confirmations
                               /\ \A o \in tests : o.result = "failure" /\ o.control = "yes"
                      /\ ~\E o \in Fresh(rows, now) : /\ o.result = "success"
                                                      /\ o.full \/ o.source = "human_activity"
                                                      /\ o.source # "abroad"
    BY DEF OutageIsConfirmed
  <2> DEFINE F == Fresh(rows, now)
  <2>1. F # {} /\ Verdict(F, Confirmations)[1] = "unavailable"
    BY EvaluatedState DEF Evaluate
  <2>2. ConfirmedFailure(F, Confirmations) /\ StrongSuccesses(F) = {}
    BY <2>1, UnavailableVerdict, EvidenceConstants
  <2>3. F \subseteq rows
    BY DEF Fresh
  <2>4. IsFiniteSet(F) /\ \A o \in F : o.at \in Int /\ o.at + Delay \in Nat
    BY <2>3, FS_Subset DEF EvidenceInv, EvidenceTypeOK
  <2> HIDE DEF F
  <2>5. \E first \in F :
          LET tests == {o \in F : o.full /\ o.source = first.source /\ o.at >= first.at}
          IN  /\ Cardinality(tests) >= Confirmations
              /\ \A o \in tests : o.result = "failure" /\ o.control = "yes"
    BY <2>2, <2>4, ConfirmedIsConsecutive, EvidenceConstants
  <2>6. ~\E o \in F : /\ o.result = "success"
                      /\ o.full \/ o.source = "human_activity"
                      /\ o.source # "abroad"
    BY <2>2 DEF StrongSuccesses, ValidSuccesses, SUCCESS_SOURCES
  <2>7. QED
    BY <2>3, <2>5, <2>6 DEF F
<1>2. QED
  BY <1>1, EvidenceBounded, PTL

\* When the clock alone moves, only the oldest fresh rows go: a confirmation that
\* is left was there before.
LEMMA ExpiryConfirmsNothing ==
    ASSUME EvidenceInv, ConfirmedFailure(Fresh(rows, now + 1), Confirmations)
    PROVE  ConfirmedFailure(Fresh(rows, now), Confirmations)
<1> DEFINE F == Fresh(rows, now)
           G == Fresh(rows, now + 1)
           n == Confirmations
<1>1. G \subseteq F /\ F \subseteq rows
  BY EvidenceConstants DEF Fresh, EvidenceInv, EvidenceTypeOK
<1>2. \A o \in F : o.at \in Int
  BY <1>1 DEF EvidenceInv, EvidenceTypeOK
<1>3. ASSUME NEW p \in F, p \notin G, NEW o \in G PROVE p.at < o.at
  <2>1. p.until \in Int /\ p.until < now + 1 /\ o.until >= now + 1
    BY <1>1, <1>3, EvidenceConstants DEF Fresh, EvidenceInv, EvidenceTypeOK
  <2>2. p.until = p.at + Freshness /\ o.until = o.at + Freshness /\ p.at \in Int /\ o.at \in Int
    BY <1>1, <1>3 DEF EvidenceInv, EvidenceTypeOK
  <2>3. QED
    BY <2>1, <2>2, EvidenceConstants DEF EvidenceInv, EvidenceTypeOK
<1>4. IsFiniteSet(F)
  BY <1>1, FS_Subset DEF EvidenceInv
<1> HIDE DEF F, G
<1>5. PICK source \in {p.source : p \in G} :
        Cardinality(FullTail(G, source, n)) = n
        /\ \A p \in FullTail(G, source, n) : ValidFullFailure(p)
  BY DEF ConfirmedFailure, G
<1> DEFINE afterF(t) == {p \in FullTests(F, source) : p.at > t}
           afterG(t) == {p \in FullTests(G, source) : p.at > t}
<1>6. \A o \in G : afterF(o.at) = afterG(o.at)
  BY <1>1, <1>2, <1>3 DEF FullTests
<1>7. ASSUME NEW o \in F, o \notin G PROVE ~(Cardinality(afterF(o.at)) < n)
  <2>1. FullTail(G, source, n) \subseteq afterF(o.at)
    BY <1>1, <1>2, <1>3, <1>7 DEF FullTail, FullTests
  <2>2. IsFiniteSet(afterF(o.at)) /\ Cardinality(afterF(o.at)) \in Nat
    BY <1>4, LaterTestsFinite
  <2> HIDE DEF afterF
  <2>3. Cardinality(FullTail(G, source, n)) <= Cardinality(afterF(o.at))
    BY <2>1, <2>2, FS_Subset
  <2>4. QED
    BY <1>5, <2>2, <2>3, EvidenceConstants
<1>8. FullTail(F, source, n) = FullTail(G, source, n)
  <2>1. FullTail(F, source, n) = {o \in FullTests(F, source) : Cardinality(afterF(o.at)) < n}
    BY DEF FullTail, FullTests
  <2>2. FullTail(G, source, n) = {o \in FullTests(G, source) : Cardinality(afterG(o.at)) < n}
    BY DEF FullTail, FullTests
  <2>3. /\ FullTests(G, source) \subseteq G /\ FullTests(F, source) \subseteq F
        /\ \A o \in G : o \in FullTests(F, source) <=> o \in FullTests(G, source)
    BY <1>1 DEF FullTests
  <2> HIDE DEF afterF, afterG
  <2>4. QED
    BY <1>1, <1>6, <1>7, <2>1, <2>2, <2>3
<1>9. source \in {p.source : p \in F}
  BY <1>1, <1>5
<1>10. QED
  BY <1>5, <1>8, <1>9 DEF ConfirmedFailure, F

\* operational is a success among fresh rows none of which failed.
LEMMA OperationalVerdict ==
    ASSUME NEW F, NEW n
    PROVE  Verdict(F, n)[1] = "operational" => ValidSuccesses(F) # {} /\ PartialFailures(F) = {}
BY DEF Verdict

\* unknown is evidence that shows neither a success nor a failure.
LEMMA UnknownVerdict ==
    ASSUME NEW F, NEW n
    PROVE  Verdict(F, n)[1] = "unknown" => ValidSuccesses(F) = {} /\ PartialFailures(F) = {}
BY DEF Verdict

\* Silence confirms nothing: when only time passes an operational server turns
\* unknown at worst, an unknown one stays unknown, and no failure becomes confirmed.
THEOREM SilenceConfirmsNothing == EvidenceSpec => SilenceIsNotFailure
<1> DEFINE Silence ==
      now' # now =>
         /\ Evaluate.state = "operational" => Evaluate'.state \in {"operational", "unknown"}
         /\ Evaluate.state = "unknown" => Evaluate'.state = "unknown"
         /\ ConfirmedFailure(Fresh(rows, now'), Confirmations)
            => ConfirmedFailure(Fresh(rows, now), Confirmations)
<1>1. ASSUME EvidenceInv, [EvidenceNext]_evidenceVars, now' # now
      PROVE  /\ Evaluate.state = "operational" => Evaluate'.state \in {"operational", "unknown"}
             /\ Evaluate.state = "unknown" => Evaluate'.state = "unknown"
             /\ ConfirmedFailure(Fresh(rows, now'), Confirmations)
                => ConfirmedFailure(Fresh(rows, now), Confirmations)
  <2>1. now' = now + 1 /\ rows' = rows /\ now \in Nat
    BY <1>1 DEF EvidenceNext, AcceptReport, Collect, Tick, Sweep, evidenceVars, EvidenceInv, EvidenceTypeOK
  <2>2. ASSUME Evaluate.state = "operational" PROVE Evaluate'.state \in {"operational", "unknown"}
    <3> DEFINE F == Fresh(rows, now)
               G == Fresh(rows, now + 1)
    <3>1. PartialFailures(F) = {}
      BY <2>2, EvaluatedState, OperationalVerdict DEF Evaluate
    <3>2. G \subseteq F
      BY <1>1, <2>1, EvidenceConstants DEF Fresh, EvidenceInv, EvidenceTypeOK
    <3>3. PartialFailures(G) = {}
      BY <3>1, <3>2 DEF PartialFailures
    <3>4. ~ConfirmedFailure(G, Confirmations)
      BY <3>3, ConfirmationFails, EvidenceConstants
    <3>5. Verdict(G, Confirmations)[1] \in {"operational", "unknown"}
      BY <3>3, <3>4 DEF Verdict
    <3>6. Evaluate' = EvaluateScope(rows, now + 1, ExpectedSources', Confirmations)
      BY <2>1 DEF Evaluate
    <3>7. QED
      BY <3>5, <3>6, EvaluatedState
  <2>3. ASSUME Evaluate.state = "unknown" PROVE Evaluate'.state = "unknown"
    <3> DEFINE F == Fresh(rows, now)
               G == Fresh(rows, now + 1)
    <3>1. ValidSuccesses(F) = {} /\ PartialFailures(F) = {}
      <4>1. CASE F = {}
        BY <4>1 DEF ValidSuccesses, PartialFailures
      <4>2. CASE F # {}
        BY <2>3, <4>2, EvaluatedState, UnknownVerdict DEF Evaluate
      <4>3. QED
        BY <4>1, <4>2
    <3>2. G \subseteq F
      BY <1>1, <2>1, EvidenceConstants DEF Fresh, EvidenceInv, EvidenceTypeOK
    <3>3. ValidSuccesses(G) = {} /\ PartialFailures(G) = {}
      BY <3>1, <3>2 DEF ValidSuccesses, PartialFailures
    <3>4. ~ConfirmedFailure(G, Confirmations)
      BY <3>3, ConfirmationFails, EvidenceConstants
    <3>5. Verdict(G, Confirmations)[1] = "unknown"
      BY <3>3, <3>4 DEF Verdict
    <3>6. Evaluate' = EvaluateScope(rows, now + 1, ExpectedSources', Confirmations)
      BY <2>1 DEF Evaluate
    <3>7. QED
      BY <3>5, <3>6, EvaluatedState
  <2>4. QED
    BY <1>1, <2>1, <2>2, <2>3, ExpiryConfirmsNothing
<1>2. EvidenceInv /\ [EvidenceNext]_evidenceVars => Silence
  BY <1>1
<1>3. QED
  BY <1>2, EvidenceBounded, PTL DEF EvidenceSpec, SilenceIsNotFailure
=============================================================================
