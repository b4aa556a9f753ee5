------------------------- MODULE LeadScoring_proofs -------------------------
(***************************************************************************)
(* The numbers of LeadScorer keep what LeadLifecycle promises of the       *)
(* outcome, for every set of reports, companies, leads and handlers.       *)
(***************************************************************************)
EXTENDS LeadScoring, LeadLifecycle_proofs, TLAPS

-----------------------------------------------------------------------------
(***************************************************************************)
(* The numbers.                                                            *)
(***************************************************************************)
\* What the heuristics can come to.
LEMMA Heuristics ==
  ASSUME NEW known
  PROVE  /\ HeuristicFit(known) \in 30..100
         /\ Urgency(known) \in {50, 75} /\ Reachability(known) \in {35, 90}
  BY DEF HeuristicFit, Urgency, Reachability, If

\* The baseline's sum has no remainder, so that nothing is rounded.
LEMMA BaselineSum ==
  ASSUME NEW known
  PROVE  \E q \in 41..78 : Weighted(known, Silence) = 100 * q
<1> DEFINE fit == 3 + If("domain" \in known, 3, 0) + If("contacts" \in known, 2, 0)
                    + If("evidence" \in known, 2, 0)
           q == 3 * fit + 15 + If("evidence" \in known, 15, 10)
                  + If("contacts" \in known, 18, 7)
<1>1. Silence.fit = NoGrade /\ Silence.pain = NoGrade
      /\ Silence.urgency = NoGrade /\ Silence.reach = NoGrade
  BY DEF Silence
<1>2. Weighted(known, Silence) = 30 * HeuristicFit(known) + 30 * 50
                                   + 20 * Urgency(known) + 20 * Reachability(known)
  BY <1>1 DEF Weighted, Or, Given, If
<1>3. fit \in 3..10 /\ HeuristicFit(known) = 10 * fit
  BY DEF HeuristicFit, If
<1>4. q \in 41..78 /\ 30 * HeuristicFit(known) + 30 * 50
                        + 20 * Urgency(known) + 20 * Reachability(known) = 100 * q
  BY DEF HeuristicFit, Urgency, Reachability, If
<1> QED
  BY <1>2, <1>4

\* A whole number of hundredths is rounded to itself.
LEMMA WholeIsExact ==
  \A q \in Nat : \A final \in Rounded(100 * q) : final = q
  BY DEF Rounded

\* Rounding does not go beyond a bound in whole hundredths.
LEMMA RoundedBound ==
  ASSUME NEW n \in Nat, NEW sum \in Int, 0 <= sum, sum <= 100 * n,
         NEW final \in Rounded(sum)
  PROVE  final \in 0..n
<1>1. ASSUME NEW q \in Int, q = (sum + 49) \div 100 \/ q = (sum + 50) \div 100
      PROVE  0 <= q /\ q <= n
  BY <1>1, Z3
<1> QED
  BY <1>1 DEF Rounded

\* The baseline's score is at most 0.78, below the first bucket.
LEMMA BaselineFinal ==
  ASSUME NEW known, NEW final \in Rounded(Weighted(known, Silence))
  PROVE  final \in 41..78 /\ BucketOf(final) \in {2, 3}
<1>1. PICK q \in 41..78 : Weighted(known, Silence) = 100 * q
  BY BaselineSum
<1>2. final = q
  BY <1>1, WholeIsExact
<1> QED
  BY <1>2 DEF BucketOf, If

\* Knowing more raises the baseline's score, and never worsens its bucket.
LEMMA BaselineMonotone ==
  ASSUME NEW less, NEW more, less \subseteq more,
         NEW low \in Rounded(Weighted(less, Silence)),
         NEW high \in Rounded(Weighted(more, Silence))
  PROVE  low <= high /\ BucketOf(high) <= BucketOf(low)
<1>1. PICK q \in 41..78 : Weighted(less, Silence) = 100 * q
  BY BaselineSum
<1>2. PICK r \in 41..78 : Weighted(more, Silence) = 100 * r
  BY BaselineSum
<1>3. Weighted(less, Silence) <= Weighted(more, Silence)
  <2>1. Silence.fit = NoGrade /\ Silence.pain = NoGrade
        /\ Silence.urgency = NoGrade /\ Silence.reach = NoGrade
    BY DEF Silence
  <2>2. /\ "domain" \in less => "domain" \in more
        /\ "contacts" \in less => "contacts" \in more
        /\ "evidence" \in less => "evidence" \in more
    OBVIOUS
  <2> QED
    BY <2>1, <2>2 DEF Weighted, Or, Given, HeuristicFit, Urgency, Reachability, If
<1>4. low = q /\ high = r /\ q <= r
  BY <1>1, <1>2, <1>3, WholeIsExact
<1> QED
  BY <1>4 DEF BucketOf, If

\* Of zeros the heuristics make 0.63 at most.
LEMMA ZerosFinal ==
  ASSUME NEW known, NEW report, Zeros(report),
         NEW final \in Rounded(Weighted(known, report))
  PROVE  final \in 0..63
<1>1. NoGrade # 0
  BY NoGradeIsNone
<1>2. Weighted(known, report) = 30 * HeuristicFit(known) + 30 * 0
                                  + 20 * Urgency(known) + 20 * Reachability(known)
  BY <1>1 DEF Weighted, Or, Given, If, Zeros
<1> DEFINE sum == Weighted(known, report)
<1>3. sum \in Int /\ 0 <= sum /\ sum <= 100 * 63
  BY <1>2, Heuristics
<1> HIDE DEF sum
<1>4. final \in Rounded(sum)
  BY DEF sum
<1> QED
  BY <1>3, <1>4, RoundedBound

\* What a decision and a score map to.
LEMMA MappedOutcome ==
  ASSUME NEW decision, NEW final \in Int
  PROVE  /\ Mapped(decision, final) \in Evaluation
         /\ final < 65 => Mapped(decision, final).status # "qualified"
  BY DEF Mapped, Evaluation, Sc, If

\* Higher scores do not map to less.
LEMMA MappedMonotone ==
  ASSUME NEW decision, NEW low \in Int, NEW high \in Int, low <= high
  PROVE  /\ Mapped(decision, high).bucket <= Mapped(decision, low).bucket
         /\ Rank(Mapped(decision, low).status) <= Rank(Mapped(decision, high).status)
  BY DEF Mapped, Sc, If, Rank
-----------------------------------------------------------------------------
(***************************************************************************)
(* Every step is one of LeadLifecycle's.                                   *)
(***************************************************************************)
\* A model's evaluation.
LEMMA ScoreByModelSimulates ==
  ASSUME NEW h \in Handler, NEW c \in Company, NEW report \in Report,
         NEW final \in Rounded(Weighted(facts[c], report)),
         final \in Int, ScoreByModel(h, c, report, final)
  PROVE  Next
<1> DEFINE score == Mapped(Decision(report), final)
<1>1. PICK s \in Evaluation :
        Plan(h, "save", Own[c], c, s, IF s.status = "qualified" THEN "verdict" ELSE "row", "idle")
  <2>1. CASE Plan(h, "save", Own[c], c, Sc("rejected", 3), "row", "idle")
    BY <2>1 DEF Evaluation, Sc
  <2>2. CASE Plan(h, "save", Own[c], c, score,
                  IF score.status = "qualified" THEN "verdict" ELSE "row", "idle")
    <3>1. score \in Evaluation
      BY MappedOutcome
    <3> QED
      BY <2>2, <3>1
  <2> QED
    BY <2>1, <2>2 DEF ScoreByModel
<1>2. s \in Score
  BY DEF Evaluation, Sc, Score, LeadStatus
<1>3. ScoreCompany(h, c, s, TRUE)
  BY <1>1 DEF ScoreByModel, ScoreCompany
<1> QED
  BY <1>2, <1>3 DEF Next

\* The baseline.
LEMMA ScoreByRulesSimulates ==
  ASSUME IInv, NEW h \in Handler, NEW c \in Company,
         NEW final \in Rounded(Weighted(facts[c], Silence)), ScoreByRules(h, c, final)
  PROVE  Next
<1> DEFINE row == lead[Own[c]].score
           advanced == Exists(Own[c]) /\ row.status \notin {"discovered", "rejected"}
           status == IF advanced THEN row.status ELSE "discovered"
           score == Sc(status, BucketOf(final))
<1>1. BucketOf(final) \in BaselineBucket /\ BucketOf(final) \in 1..3
  BY BaselineFinal, BaselineAvoidsFirst
<1>2. status \in LeadStatus
  <2>1. row \in Score
    BY OwnIsInjective DEF IInv, TypeOK, Row
  <2> QED
    BY <2>1 DEF Score, LeadStatus
<1>3. score \in Score /\ score.status = status /\ score.bucket = BucketOf(final)
  BY <1>1, <1>2 DEF Sc, Score
<1>4. Baseline(Own[c], score)
  BY <1>1, <1>3 DEF Baseline
<1>5. Plan(h, "save", Own[c], c, score, "row", "idle") /\ pc[h] = "idle" /\ c \notin tainted
  BY DEF ScoreByRules
<1> HIDE DEF score
<1>6. ScoreCompany(h, c, score, FALSE)
  BY <1>4, <1>5 DEF ScoreCompany
<1> QED
  BY <1>3, <1>6 DEF Next

\* The guard.
LEMMA ScoreViolationSimulates ==
  ASSUME NEW h \in Handler, NEW c \in Company, ScoreViolation(h, c)
  PROVE  Next
<1>1. ScoreCompany(h, c, Sc("rejected", 3), FALSE)
  BY DEF ScoreViolation, ScoreCompany
<1>2. Sc("rejected", 3) \in Score
  BY DEF Sc, Score, LeadStatus
<1> QED
  BY <1>1, <1>2 DEF Next

LEMMA ScoringStepSimulates ==
  ASSUME IInv, [ScoringNext]_scoringVars
  PROVE  [Next]_vars
<1>1. CASE UNCHANGED scoringVars
  BY <1>1 DEF scoringVars
<1>2. ASSUME NEW h \in Handler, NEW c \in Company, NEW report \in Report,
             NEW final \in Rounded(Weighted(facts[c], report)),
             ScoreByModel(h, c, report, final)
      PROVE  Next
  <2>1. final \in Int
    BY DEF Rounded
  <2> QED
    BY <1>2, <2>1, ScoreByModelSimulates
<1>3. ASSUME NEW h \in Handler, NEW c \in Company,
             NEW d \in Company \cup {NoCompany}, NEW bad \in BOOLEAN, NEW last \in BOOLEAN,
             FileEvidence(h, c, d, bad, last)
      PROVE  Next
  BY <1>3 DEF FileEvidence, Next
<1>4. ASSUME NEW h \in Handler, OtherStep(h) PROVE Next
  BY <1>4 DEF OtherStep, Next
<1>5. ASSUME NEW c \in Company, NEW fact \in {"domain", "contacts"}, Enrich(c, fact)
      PROVE  UNCHANGED vars
  BY <1>5 DEF Enrich
<1> QED
  BY <1>1, <1>2, <1>3, <1>4, <1>5, ScoreByRulesSimulates, ScoreViolationSimulates
     DEF ScoringNext

\* The scores come out as LeadLifecycle says.
THEOREM ScoringImplementsLifecycle == ScoringSpec => LifecycleHolds
<1>1. ScoringInit => Init /\ IInv
  BY InitIInv DEF ScoringInit
<1>2. IInv /\ [ScoringNext]_scoringVars => IInv'
  BY ScoringStepSimulates, StepIInv
<1>3. IInv /\ [ScoringNext]_scoringVars => [Next]_vars
  BY ScoringStepSimulates
<1> QED
  BY <1>1, <1>2, <1>3, PTL DEF ScoringSpec, LifecycleHolds, Spec

\* Whatever the numbers, the baseline alone qualifies no lead.
THEOREM ScoringQualifiesByVerdict == ScoringSpec => []QualifiedWasVetted
  BY ScoringImplementsLifecycle, BaselineQualifiesNothing, PTL DEF LifecycleHolds

-----------------------------------------------------------------------------
(***************************************************************************)
(* What a score about to be saved follows from.                            *)
(***************************************************************************)
\* A step of a handler leaves the others alone.
OthersRest(h) == \A k \in Handler : k # h => pc'[k] = pc[k] /\ ctx'[k] = ctx[k]

LEMMA PlanRests ==
  ASSUME TypeOK, NEW h \in Handler, NEW label, NEW l, NEW c, NEW score, NEW from, NEW next,
         Plan(h, label, l, c, score, from, next)
  PROVE  /\ OthersRest(h)
         /\ pc'[h] = label /\ ctx'[h].score = score
  BY DEF TypeOK, Plan, Goto, OthersRest

LEMMA OtherStepRests ==
  ASSUME TypeOK, NEW h \in Handler, OtherStep(h)
  PROVE  OthersRest(h)
<1>1. ASSUME NEW label, Goto(h, label), UNCHANGED ctx PROVE OthersRest(h)
  BY <1>1 DEF TypeOK, Goto, OthersRest
<1>2. ASSUME Finish(h) PROVE OthersRest(h)
  BY <1>2 DEF TypeOK, Finish, Goto, OthersRest
<1>3. ASSUME NEW c \in Company, NEW l \in Lead, NEW b2b \in BOOLEAN,
             ReceiveInquiry(h, c, l, b2b) \/ ReceiveViolation(h, c, l)
      PROVE  OthersRest(h)
  BY <1>3, PlanRests DEF ReceiveInquiry, ReceiveViolation
<1>4. ASSUME NEW l \in Lead,
             GenerateCadence(h, l) \/ AdvanceApproved(h, l) \/ RecordContact(h, l)
      PROVE  OthersRest(h)
  BY <1>4, PlanRests DEF GenerateCadence, AdvanceApproved, RecordContact, Progress
<1>5. CASE EnsureLead(h)
  BY <1>2, <1>5, PlanRests DEF EnsureLead
<1>6. CASE SaveLead(h)
  BY <1>1, <1>2, <1>6 DEF SaveLead
<1>7. CASE RejectLead(h) \/ LogViolation(h) \/ Dies(h)
  BY <1>1, <1>2, <1>7 DEF RejectLead, LogViolation, Dies
<1> QED
  BY <1>3, <1>4, <1>5, <1>6, <1>7 DEF OtherStep

\* What holds of a handler is kept by whoever does not touch it.
LEMMA FollowsKept ==
  ASSUME NEW k \in Handler, Follows(k), weighed'[k] = weighed[k],
         pc'[k] = pc[k], ctx'[k] = ctx[k]
  PROVE  Follows(k)'
  BY DEF Follows, Weighs, Mapped, Decision, Given, Sc, If, Zeros, Rounded, Weighted, Or,
         HeuristicFit, Urgency, Reachability, BucketOf, Silence

\* Nothing is said of a handler that has weighed nothing.
LEMMA FollowsNobody ==
  ASSUME NEW k \in Handler, weighed'[k].by = "nobody"
  PROVE  Follows(k)'
  BY DEF Follows, Weighs

\* Grades weigh up to a grade.
LEMMA FinalIsGrade ==
  ASSUME NEW known, NEW report \in Report \cup {Silence},
         NEW final \in Rounded(Weighted(known, report))
  PROVE  final \in Grade
<1>1. /\ report.fit \in Graded /\ report.pain \in Graded
      /\ report.urgency \in Graded /\ report.reach \in Graded
  BY ReportsAreGraded DEF Silence, Graded
<1>2. /\ Or(report.fit, HeuristicFit(known)) \in 0..100
      /\ Or(report.urgency, Urgency(known)) \in 0..100
      /\ Or(report.reach, Reachability(known)) \in 0..100
  BY <1>1, Heuristics DEF Or, If, Graded, Grade
<1>3. Given(report.pain, 50) \in 0..100
  BY <1>1 DEF Given, If, Graded, Grade
<1> DEFINE fit == Or(report.fit, HeuristicFit(known))
           pain == Given(report.pain, 50)
           urgency == Or(report.urgency, Urgency(known))
           reach == Or(report.reach, Reachability(known))
           sum == 30 * fit + 30 * pain + 20 * urgency + 20 * reach
<1>4. sum \in Int /\ 0 <= sum /\ sum <= 100 * 100
  <2> HIDE DEF fit, pain, urgency, reach
  <2>1. fit \in 0..100 /\ pain \in 0..100 /\ urgency \in 0..100 /\ reach \in 0..100
    BY <1>2, <1>3 DEF fit, pain, urgency, reach
  <2> QED
    BY <2>1
<1>5. final \in Rounded(sum)
  BY DEF Weighted
<1> HIDE DEF sum
<1>6. final \in 0..100
  BY <1>4, <1>5, RoundedBound
<1> QED
  BY <1>6 DEF Grade

LEMMA WeighStep ==
  ASSUME ScoringTypeOK, ScoresFollow, NEW h \in Handler, OthersRest(h), pc'[h] = "save",
         NEW by \in {"model", "baseline"}, NEW known \in SUBSET Known,
         NEW report \in Report \cup {Silence}, NEW final \in Grade,
         Weigh(h, by, known, report, final),
         by = "model" => /\ Zeros(report) => final <= 63
                         /\ ctx'[h].score = Mapped(Decision(report), final),
         by = "baseline" => /\ final \in Rounded(Weighted(known, Silence))
                            /\ ctx'[h].score.bucket = BucketOf(final)
  PROVE  weighed' \in [Handler -> Weighing] /\ ScoresFollow'
<1> DEFINE new == [by |-> by, facts |-> known, report |-> report, final |-> final]
<1>1. new \in Weighing
  BY DEF Weighing
<1>2. new.by = by /\ new.facts = known /\ new.report = report /\ new.final = final
  OBVIOUS
<1>3. weighed' = [weighed EXCEPT ![h] = new]
  BY DEF Weigh
<1> HIDE DEF new
<1>4. weighed' \in [Handler -> Weighing]
  BY <1>1, <1>3 DEF ScoringTypeOK
<1>5. weighed'[h] = new /\ \A k \in Handler : k # h => weighed'[k] = weighed[k]
  BY <1>3 DEF ScoringTypeOK
<1>6. Follows(h)'
  BY <1>2, <1>5 DEF Follows, Weighs, Mapped, Decision, Given, Sc, If, Zeros, Rounded,
                    Weighted, Or, HeuristicFit, Urgency, Reachability, BucketOf, Silence
<1>7. ASSUME NEW k \in Handler, k # h PROVE Follows(k)'
  BY <1>5, <1>7, FollowsKept DEF OthersRest, ScoresFollow
<1> QED
  BY <1>4, <1>6, <1>7 DEF ScoresFollow

\* A step that weighs nothing, of a handler that had weighed nothing.
LEMMA IdleStep ==
  ASSUME ScoringTypeOK, ScoresFollow, NEW h \in Handler, OthersRest(h),
         pc[h] = "idle", UNCHANGED weighed
  PROVE  ScoresFollow'
<1>1. weighed'[h].by = "nobody"
  BY DEF ScoresFollow, Follows, Weighs
<1>2. ASSUME NEW k \in Handler, k # h PROVE Follows(k)'
  BY <1>2, FollowsKept DEF OthersRest, ScoresFollow
<1> QED
  BY <1>1, <1>2, FollowsNobody DEF ScoresFollow

LEMMA ModelStep ==
  ASSUME IInv, ScoringInv, NEW h \in Handler, NEW c \in Company, NEW report \in Report,
         NEW final \in Rounded(Weighted(facts[c], report)), ScoreByModel(h, c, report, final)
  PROVE  weighed' \in [Handler -> Weighing] /\ ScoresFollow'
<1> DEFINE score == Mapped(Decision(report), final)
           from == IF score.status = "qualified" THEN "verdict" ELSE "row"
<1> USE DEF ScoringInv
<1>1. final \in Grade /\ (Zeros(report) => final <= 63)
  BY FinalIsGrade, ZerosFinal
<1>2. CASE Plan(h, "save", Own[c], c, Sc("rejected", 3), "row", "idle") /\ UNCHANGED weighed
  <2>1. OthersRest(h) /\ pc[h] = "idle"
    BY <1>2, PlanRests DEF IInv, ScoreByModel
  <2> QED
    BY <1>2, <2>1, IdleStep DEF ScoringTypeOK
<1>3. CASE Plan(h, "save", Own[c], c, score, from, "idle") /\ Weigh(h, "model", {}, report, final)
  <2>1. OthersRest(h) /\ pc'[h] = "save" /\ ctx'[h].score = score
    <3> HIDE DEF score, from
    <3> QED BY <1>3, PlanRests DEF IInv
  <2> QED
    BY <1>1, <1>3, <2>1, WeighStep
<1> QED
  BY <1>2, <1>3 DEF ScoreByModel

LEMMA RulesStep ==
  ASSUME IInv, ScoringInv, NEW h \in Handler, NEW c \in Company,
         NEW final \in Rounded(Weighted(facts[c], Silence)), ScoreByRules(h, c, final)
  PROVE  weighed' \in [Handler -> Weighing] /\ ScoresFollow'
<1> DEFINE row == lead[Own[c]].score
           advanced == Exists(Own[c]) /\ row.status \notin {"discovered", "rejected"}
           score == Sc(IF advanced THEN row.status ELSE "discovered", BucketOf(final))
<1> USE DEF ScoringInv
<1>1. final \in Grade /\ facts[c] \in SUBSET Known
  BY FinalIsGrade DEF ScoringTypeOK
<1>2. Plan(h, "save", Own[c], c, score, "row", "idle") /\ Weigh(h, "baseline", facts[c], Silence, final)
  BY DEF ScoreByRules
<1>3. score.bucket = BucketOf(final)
  BY DEF Sc
<1>4. OthersRest(h) /\ pc'[h] = "save" /\ ctx'[h].score = score
  <2> HIDE DEF score
  <2> QED BY <1>2, PlanRests DEF IInv
<1> QED
  BY <1>1, <1>2, <1>3, <1>4, WeighStep

\* Whatever else a handler does, it no longer holds a score it weighed.
LEMMA OtherScoringStep ==
  ASSUME IInv, ScoringInv, NEW h \in Handler, OtherStep(h),
         weighed' = [weighed EXCEPT ![h] = Unweighed]
  PROVE  weighed' \in [Handler -> Weighing] /\ ScoresFollow'
<1> USE DEF ScoringInv
<1>1. Unweighed \in Weighing /\ Unweighed.by = "nobody"
  BY DEF Unweighed, Weighing, Grade
<1>2. /\ weighed' \in [Handler -> Weighing] /\ weighed'[h].by = "nobody"
      /\ \A k \in Handler : k # h => weighed'[k] = weighed[k]
  BY <1>1 DEF ScoringTypeOK
<1>3. OthersRest(h)
  BY OtherStepRests DEF IInv
<1>4. ASSUME NEW k \in Handler, k # h PROVE Follows(k)'
  BY <1>2, <1>3, <1>4, FollowsKept DEF OthersRest, ScoresFollow
<1> QED
  BY <1>2, <1>4, FollowsNobody DEF ScoresFollow

LEMMA ScoringStep == IInv /\ ScoringInv /\ [ScoringNext]_scoringVars => ScoringInv'
<1> SUFFICES ASSUME IInv, ScoringInv, [ScoringNext]_scoringVars PROVE ScoringInv'
  OBVIOUS
<1> USE DEF ScoringInv
<1>1. facts' \in [Company -> SUBSET Known]
  <2>1. CASE UNCHANGED facts
    BY <2>1 DEF ScoringTypeOK
  <2>2. ASSUME NEW c \in Company, NEW fact \in {"domain", "contacts"}, Enrich(c, fact)
        PROVE  facts' \in [Company -> SUBSET Known]
    BY <2>2 DEF ScoringTypeOK, Enrich, Known
  <2>3. ASSUME NEW h \in Handler, NEW c \in Company,
               NEW d \in Company \cup {NoCompany}, NEW bad \in BOOLEAN,
               NEW last \in BOOLEAN, FileEvidence(h, c, d, bad, last)
        PROVE  facts' \in [Company -> SUBSET Known]
    BY <2>3 DEF ScoringTypeOK, FileEvidence, Known
  <2> QED
    BY <2>1, <2>2, <2>3 DEF ScoringNext, ScoreByModel, ScoreByRules, ScoreViolation,
                            scoringVars
<1>2. weighed' \in [Handler -> Weighing] /\ ScoresFollow'
  <2>1. CASE UNCHANGED <<pc, ctx, weighed>>
    BY <2>1, FollowsKept DEF ScoringTypeOK, ScoresFollow
  <2>2. ASSUME NEW h \in Handler, NEW c \in Company, ScoreViolation(h, c)
        PROVE  weighed' \in [Handler -> Weighing] /\ ScoresFollow'
    <3>1. OthersRest(h) /\ pc[h] = "idle" /\ UNCHANGED weighed
      BY <2>2, PlanRests DEF IInv, ScoreViolation
    <3> QED
      BY <3>1, IdleStep DEF ScoringTypeOK
  <2>3. ASSUME NEW h \in Handler, NEW c \in Company,
               NEW d \in Company \cup {NoCompany}, NEW bad \in BOOLEAN,
               NEW last \in BOOLEAN, FileEvidence(h, c, d, bad, last)
        PROVE  weighed' \in [Handler -> Weighing] /\ ScoresFollow'
    <3>1. OthersRest(h) /\ pc[h] = "idle" /\ UNCHANGED weighed
      BY <2>3 DEF IInv, TypeOK, FileEvidence, SaveEvidence, Goto, OthersRest
    <3> QED
      BY <3>1, IdleStep DEF ScoringTypeOK
  <2>4. CASE UNCHANGED scoringVars
    BY <2>1, <2>4 DEF scoringVars, vars
  <2>5. ASSUME NEW c \in Company, NEW fact \in {"domain", "contacts"}, Enrich(c, fact)
        PROVE  UNCHANGED <<pc, ctx, weighed>>
    BY <2>5 DEF Enrich, vars
  <2> QED
    BY <2>1, <2>2, <2>3, <2>4, <2>5, ModelStep, RulesStep, OtherScoringStep DEF ScoringNext
<1> QED
  BY <1>1, <1>2 DEF ScoringTypeOK

\* What a score about to be saved follows from, in every reachable state.
THEOREM ScoringInvariance == ScoringSpec => []ScoringInv
<1>1. ScoringInit => ScoringInv
  <2> SUFFICES ASSUME ScoringInit PROVE ScoringInv
    OBVIOUS
  <2>1. Unweighed \in Weighing /\ Unweighed.by = "nobody"
    BY DEF Unweighed, Weighing, Grade
  <2> QED
    BY <2>1 DEF ScoringInit, ScoringInv, ScoringTypeOK, ScoresFollow, Follows, Weighs
<1>2. ScoringSpec => []IInv
  BY ScoringImplementsLifecycle, Invariance, PTL DEF LifecycleHolds
<1>3. IInv /\ ScoringInv /\ [ScoringNext]_scoringVars => ScoringInv'
  BY ScoringStep
<1> QED
  BY <1>1, <1>2, <1>3, PTL DEF ScoringSpec

\* Reports of zeros qualify nothing: 0.63 is less than 0.65.
THEOREM ZerosStayBelow == ScoringSpec => []ZerosQualifyNothing
<1>1. ScoringInv => ZerosQualifyNothing
  <2> SUFFICES ASSUME ScoringInv, NEW h \in Handler, Weighs(h, "model"),
                      Zeros(weighed[h].report)
               PROVE  ctx[h].score.status # "qualified"
    BY DEF ZerosQualifyNothing
  <2>1. /\ weighed[h].final <= 63 /\ weighed[h].final \in Int
        /\ ctx[h].score = Mapped(Decision(weighed[h].report), weighed[h].final)
    BY DEF ScoringInv, ScoringTypeOK, ScoresFollow, Follows, Weighing, Grade
  <2>2. weighed[h].final < 65
    BY <2>1
  <2> QED
    BY <2>1, <2>2, MappedOutcome
<1> QED
  BY <1>1, ScoringInvariance, PTL

\* Higher scores rank higher, on either side of every threshold.
THEOREM ThresholdsAreMonotone == ScoringSpec => []HigherScoresRankHigher
<1>1. ScoringInv => HigherScoresRankHigher
  <2> SUFFICES ASSUME ScoringInv, NEW h \in Handler, NEW k \in Handler,
                      Weighs(h, "model"), Weighs(k, "model"),
                      Decision(weighed[h].report) = Decision(weighed[k].report),
                      weighed[h].final <= weighed[k].final
               PROVE  /\ ctx[k].score.bucket <= ctx[h].score.bucket
                      /\ Rank(ctx[h].score.status) <= Rank(ctx[k].score.status)
    BY DEF HigherScoresRankHigher
  <2>1. /\ weighed[h].final \in Int /\ weighed[k].final \in Int
        /\ ctx[h].score = Mapped(Decision(weighed[h].report), weighed[h].final)
        /\ ctx[k].score = Mapped(Decision(weighed[h].report), weighed[k].final)
    BY DEF ScoringInv, ScoringTypeOK, ScoresFollow, Follows, Weighing, Grade
  <2> QED
    BY <2>1, MappedMonotone
<1> QED
  BY <1>1, ScoringInvariance, PTL

\* Finding a domain, contacts or evidence never moves a lead back.
THEOREM BaselineIsMonotone == ScoringSpec => []KnowingMoreNeverHurts
<1>1. ScoringInv => KnowingMoreNeverHurts
  <2> SUFFICES ASSUME ScoringInv, NEW h \in Handler, NEW k \in Handler,
                      Weighs(h, "baseline"), Weighs(k, "baseline"),
                      weighed[h].facts \subseteq weighed[k].facts
               PROVE  /\ weighed[h].final <= weighed[k].final
                      /\ ctx[k].score.bucket <= ctx[h].score.bucket
    BY DEF KnowingMoreNeverHurts
  <2> QED
    BY BaselineMonotone DEF ScoringInv, ScoresFollow, Follows
<1> QED
  BY <1>1, ScoringInvariance, PTL
=============================================================================
