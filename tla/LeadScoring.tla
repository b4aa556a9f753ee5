---------------------------- MODULE LeadScoring ----------------------------
(***************************************************************************)
(* LeadScorer.score_company by its numbers: what is known of a company and *)
(* what a model reports are weighed into one score, which status and       *)
(* bucket follow from.  LeadLifecycle leaves the outcome open; here it is  *)
(* computed, and every step is one of LeadLifecycle's.  Numbers are in     *)
(* hundredths, products of a weight and a grade in hundredths of these.    *)
(***************************************************************************)
EXTENDS LeadLifecycle

CONSTANTS
  Academic,  \* companies of the academic funnel
  Report,    \* what models report, together with the caller's context
  NoGrade    \* a key that is missing

\* Within what the schema asks of a model, to two digits; the code takes any float.
Grade == 0..100
Graded == Grade \cup {NoGrade}
ASSUME NoGradeIsNone == NoGrade \notin Int
ASSUME AcademicAreCompanies == Academic \subseteq Company
ASSUME ReportsAreGraded ==
  Report \subseteq [fit : Graded, pain : Graded, urgency : Graded, reach : Graded,
                    decision : {"qualified", "rejected", "discovered", "none"},
                    integrity : {"passed", "failed"}]
ASSUME BaselineAvoidsFirst == BaselineBucket = {2, 3}

\* Nothing is reported: by no model, or by an evaluation that is empty.
Silence == [fit |-> NoGrade, pain |-> NoGrade, urgency |-> NoGrade, reach |-> NoGrade,
            decision |-> "none", integrity |-> "passed"]

VARIABLES
  facts,    \* what is known of each company
  weighed   \* what the score that a handler is about to save is made of: a
            \* report, or the facts

scoringVars == <<vars, facts, weighed>>

Known == {"domain", "contacts", "evidence"}
Weighing == [by : {"nobody", "model", "baseline"}, facts : SUBSET Known,
             report : Report \cup {Silence}, final : Grade]
Unweighed == [by |-> "nobody", facts |-> {}, report |-> Silence, final |-> 0]

ScoringInit == /\ Init
               /\ facts = [c \in Company |-> {}]
               /\ weighed = [h \in Handler |-> Unweighed]

-----------------------------------------------------------------------------
If(condition, grade, otherwise) == IF condition THEN grade ELSE otherwise

\* Never above 100, which the code's min() would cut.
HeuristicFit(known) == 30 + If("domain" \in known, 30, 0)
                          + If("contacts" \in known, 20, 0)
                          + If("evidence" \in known, 20, 0)

\* Python's or: 0 is taken for a missing grade.
Or(grade, otherwise) == If(grade \in {NoGrade, 0}, otherwise, grade)

\* Mutant of Given: the reported pain, too, is followed by an or.
GivenOr(grade, otherwise) == If(grade \in {NoGrade, 0}, otherwise, grade)

\* get with a default: 0 stands, unless the caller's context said so.
Given(grade, default) == If(grade = NoGrade, default, grade)

Urgency(known) == If("evidence" \in known, 75, 50)

\* Mutant of Reachability: the two cases are swapped.
ReachabilitySwapped(known) == If("contacts" \in known, 35, 90)

Reachability(known) == If("contacts" \in known, 90, 35)

\* The composite of M-01, with the default weights, which every caller uses.
Weighted(known, report) == 30 * Or(report.fit, HeuristicFit(known))
                             + 30 * Given(report.pain, 50)
                             + 20 * Or(report.urgency, Urgency(known))
                             + 20 * Or(report.reach, Reachability(known))

\* round(_, 2): a tie goes up or down, as the floats have it.
Rounded(sum) == {(sum + 49) \div 100, (sum + 50) \div 100}

Decision(report) ==
  IF report.decision # "none" THEN report.decision
  ELSE IF Given(report.pain, 50) >= 70 THEN "qualified" ELSE "discovered"

\* Mutant of Mapped: a strong lead is put first without being qualified.
MappedFirst(decision, final) ==
  IF decision = "qualified" /\ final >= 65 THEN Sc("qualified", If(final >= 85, 1, 2))
  ELSE IF decision = "rejected" \/ final < 40 THEN Sc("rejected", 3)
  ELSE Sc("discovered", If(final >= 85, 1, If(final >= 70, 2, 3)))

\* Mutant of Mapped: the comparison that rejects weak leads is reversed.
MappedReversed(decision, final) ==
  IF decision = "qualified" /\ final >= 65 THEN Sc("qualified", If(final >= 85, 1, 2))
  ELSE IF decision = "rejected" \/ final > 40 THEN Sc("rejected", 3)
  ELSE Sc("discovered", If(final >= 70, 2, 3))

\* Status and bucket by decision and final score.
Mapped(decision, final) ==
  IF decision = "qualified" /\ final >= 65 THEN Sc("qualified", If(final >= 85, 1, 2))
  ELSE IF decision = "rejected" \/ final < 40 THEN Sc("rejected", 3)
  ELSE Sc("discovered", If(final >= 70, 2, 3))

BucketOf(final) == If(final >= 85, 1, If(final >= 50, 2, 3))

-----------------------------------------------------------------------------
Weigh(h, by, known, report, final) ==
  weighed' = [weighed EXCEPT ![h] =
    [by |-> by, facts |-> known, report |-> report, final |-> final]]

\* A model's evaluation, from the adapter or handed in by the caller.  Its
\* verdict on integrity counts for the academic funnel only.
ScoreByModel(h, c, report, final) ==
  LET score == Mapped(Decision(report), final)
  IN  /\ pc[h] = "idle"
      /\ c \notin tainted
      /\ \/ /\ c \in Academic /\ report.integrity = "failed"
            /\ Plan(h, "save", Own[c], c, Sc("rejected", 3), "row", "idle")
            /\ UNCHANGED weighed
         \/ /\ c \notin Academic \/ report.integrity = "passed"
            /\ Plan(h, "save", Own[c], c, score,
                    IF score.status = "qualified" THEN "verdict" ELSE "row", "idle")
            /\ Weigh(h, "model", {}, report, final)
      /\ UNCHANGED facts

\* No model, or one that failed: the grades are the heuristics' own.
ScoreByRules(h, c, final) ==
  LET row == lead[Own[c]].score
      advanced == Exists(Own[c]) /\ row.status \notin {"discovered", "rejected"}
  IN  /\ pc[h] = "idle"
      /\ c \notin tainted
      /\ Plan(h, "save", Own[c], c,
              Sc(IF advanced THEN row.status ELSE "discovered", BucketOf(final)),
              "row", "idle")
      /\ Weigh(h, "baseline", facts[c], Silence, final)
      /\ UNCHANGED facts

\* A pattern in the name or the evidence: rejected before anything is weighed.
ScoreViolation(h, c) ==
  /\ pc[h] = "idle"
  /\ c \in tainted
  /\ Plan(h, "save", Own[c], c, Sc("rejected", 3), "row", "idle")
  /\ UNCHANGED <<facts, weighed>>

\* The resolver fills in a domain or contacts, which never leave again.
Enrich(c, fact) == /\ facts' = [facts EXCEPT ![c] = @ \cup {fact}]
                   /\ UNCHANGED <<vars, weighed>>

\* The scanner files evidence under c, maybe away from d, all that d had.
FileEvidence(h, c, d, bad, last) ==
  /\ SaveEvidence(h, c, d, bad)
  /\ facts' = [x \in Company |-> IF x = c THEN facts[x] \cup {"evidence"}
                                 ELSE IF x = d /\ last THEN facts[x] \ {"evidence"}
                                 ELSE facts[x]]
  /\ UNCHANGED weighed

\* Whatever else is done to leads is as in LeadLifecycle.
OtherStep(h) ==
  \/ \E c \in Company, l \in Lead :
       \/ \E b2b \in BOOLEAN : ReceiveInquiry(h, c, l, b2b)
       \/ ReceiveViolation(h, c, l)
  \/ \E l \in Lead : GenerateCadence(h, l) \/ AdvanceApproved(h, l) \/ RecordContact(h, l)
  \/ EnsureLead(h) \/ SaveLead(h) \/ RejectLead(h) \/ LogViolation(h) \/ Dies(h)

ScoringNext ==
  \/ \E h \in Handler, c \in Company :
       \/ \E report \in Report : \E final \in Rounded(Weighted(facts[c], report)) :
            ScoreByModel(h, c, report, final)
       \/ \E final \in Rounded(Weighted(facts[c], Silence)) : ScoreByRules(h, c, final)
       \/ ScoreViolation(h, c)
       \/ \E d \in Company \cup {NoCompany}, bad, last \in BOOLEAN :
            FileEvidence(h, c, d, bad, last)
  \/ \E c \in Company, fact \in {"domain", "contacts"} : Enrich(c, fact)
  \/ \E h \in Handler : /\ OtherStep(h)
                        /\ weighed' = [weighed EXCEPT ![h] = Unweighed]
                        /\ UNCHANGED facts

ScoringSpec == ScoringInit /\ [][ScoringNext]_scoringVars

-----------------------------------------------------------------------------
ScoringTypeOK == /\ facts \in [Company -> SUBSET Known]
                 /\ weighed \in [Handler -> Weighing]

\* The scores come out as LeadLifecycle says: a model's evaluation maps to one
\* of five outcomes, and the rules never reach the first bucket.
LifecycleHolds == Spec

Weighs(h, by) == weighed[h].by = by

\* A report of zeros qualifies no lead, whatever its decision, although zeros
\* of fit, urgency and reachability are replaced by what the heuristics say
\* (score_company, "or").
Zeros(report) == /\ report.fit = 0 /\ report.pain = 0
                 /\ report.urgency = 0 /\ report.reach = 0
ZerosQualifyNothing ==
  \A h \in Handler : Weighs(h, "model") /\ Zeros(weighed[h].report)
                       => ctx[h].score.status # "qualified"

\* Of two evaluations with one decision, that with the higher score gets no
\* later bucket and no lesser status, on either side of every threshold.
Rank(status) == IF status = "qualified" THEN 3 ELSE IF status = "discovered" THEN 2 ELSE 1
HigherScoresRankHigher ==
  \A h, k \in Handler :
    /\ Weighs(h, "model") /\ Weighs(k, "model")
    /\ Decision(weighed[h].report) = Decision(weighed[k].report)
    /\ weighed[h].final <= weighed[k].final
    => /\ ctx[k].score.bucket <= ctx[h].score.bucket
       /\ Rank(ctx[h].score.status) <= Rank(ctx[k].score.status)

\* The more is known of a company, the higher the rules score it: finding a
\* domain, contacts or evidence never moves a lead back.
KnowingMoreNeverHurts ==
  \A h, k \in Handler :
    /\ Weighs(h, "baseline") /\ Weighs(k, "baseline")
    /\ weighed[h].facts \subseteq weighed[k].facts
    => /\ weighed[h].final <= weighed[k].final
       /\ ctx[k].score.bucket <= ctx[h].score.bucket

\* Inductive: what a score about to be saved follows from.
Follows(h) ==
  /\ ~Weighs(h, "nobody") => pc[h] = "save"
  /\ Weighs(h, "model") =>
       /\ Zeros(weighed[h].report) => weighed[h].final <= 63
       /\ ctx[h].score = Mapped(Decision(weighed[h].report), weighed[h].final)
  /\ Weighs(h, "baseline") =>
       /\ weighed[h].final \in Rounded(Weighted(weighed[h].facts, Silence))
       /\ ctx[h].score.bucket = BucketOf(weighed[h].final)
ScoresFollow == \A h \in Handler : Follows(h)
ScoringInv == ScoringTypeOK /\ ScoresFollow
=============================================================================
