------------------------ MODULE LeadLifecycle_proofs ------------------------
(***************************************************************************)
(* The unassisted baseline qualifies no lead: for every set of companies,  *)
(* leads and handlers, however stale the rows they save.                   *)
(***************************************************************************)
EXTENDS LeadLifecycle, TLAPS

\* The initial states satisfy the inductive invariant.
LEMMA InitIInv == Init => IInv
  BY DEF Init, IInv, TypeOK, Row, NoRow, Sc, Score, LeadStatus, Label, Context, At,
     NoContext, HandlersEarn, QualifiedWasVetted, Earned

\* The context of an idle handler is well typed.
LEMMA NoContextType ==
  \A c \in Company \cup {NoCompany} : At(c) \in Context /\ At(c).company = c
  BY DEF At, Context, Sc, Score, LeadStatus, Label

\* A handler that has read what it may save keeps the invariant.
LEMMA PlanStep ==
  ASSUME IInv, NEW h \in Handler, NEW label \in {"save", "reject"}, NEW l \in Lead,
         NEW c \in Company, NEW score \in Score, NEW from \in {"verdict", "row"},
         NEW next \in Label, Plan(h, label, l, c, score, from, next),
         label = "save" => from = "verdict" \/ Earned(score, l)
  PROVE  IInv'
<1> DEFINE new == [lead |-> l, company |-> c, score |-> score, from |-> from,
                   next |-> next]
<1>1. new \in Context /\ new.lead = l /\ new.company = c /\ new.score = score
  BY DEF Context
<1>2. new.from = from
  OBVIOUS
<1>3. /\ pc' = [pc EXCEPT ![h] = label] /\ ctx' = [ctx EXCEPT ![h] = new]
      /\ UNCHANGED <<lead, tainted, violations, vetted>>
  BY DEF Plan, Goto, logs
<1>4. ctx'[h] = new /\ \A k \in Handler : k # h => ctx'[k] = ctx[k]
  BY <1>3 DEF IInv, TypeOK
<1>5. label = "save" => ctx'[h].from = "verdict" \/ Earned(score, ctx'[h].lead)
  BY <1>1, <1>2, <1>4 DEF Earned
<1> HIDE DEF new
<1>6. TypeOK'
  BY <1>1, <1>3 DEF IInv, TypeOK, Label
<1>7. QualifiedWasVetted'
  BY <1>3 DEF IInv, QualifiedWasVetted, Earned
<1>8. HandlersEarn'
  <2> SUFFICES ASSUME NEW k \in Handler
               PROVE  /\ pc'[k] # "idle" => ctx'[k].company \in Company
                      /\ pc'[k] \in {"save", "reject", "log"} => ctx'[k].lead \in Lead
                      /\ pc'[k] = "save" => \/ ctx'[k].from = "verdict"
                                            \/ Earned(ctx[k].score, ctx[k].lead)'
    BY DEF HandlersEarn
  <2>1. CASE k = h
    BY <1>1, <1>3, <1>4, <1>5, <2>1 DEF IInv, TypeOK, Earned
  <2>2. CASE k # h
    BY <1>3, <1>4, <2>2 DEF IInv, TypeOK, HandlersEarn, Earned
  <2> QED
    BY <2>1, <2>2
<1> QED
  BY <1>6, <1>7, <1>8 DEF IInv

\* A handler that ends without touching a table keeps the invariant.
LEMMA FinishStep ==
  ASSUME IInv, NEW h \in Handler, Finish(h), UNCHANGED <<lead, vetted, tainted>>,
         violations' \subseteq Lead
  PROVE  IInv'
<1>1. /\ pc' = [pc EXCEPT ![h] = "idle"] /\ ctx' = [ctx EXCEPT ![h] = NoContext]
      /\ NoContext \in Context
  BY NoContextType DEF Finish, Goto, NoContext
<1>2. TypeOK'
  BY <1>1 DEF IInv, TypeOK, Label
<1>3. HandlersEarn' /\ QualifiedWasVetted'
  BY <1>1 DEF IInv, TypeOK, HandlersEarn, QualifiedWasVetted, Earned
<1> QED
  BY <1>2, <1>3 DEF IInv

-----------------------------------------------------------------------------
LEMMA SaveEvidenceStep ==
  ASSUME IInv, NEW h \in Handler, NEW c \in Company, NEW d \in Company \cup {NoCompany},
         NEW bad \in BOOLEAN, SaveEvidence(h, c, d, bad)
  PROVE  IInv'
<1>1. /\ pc' = [pc EXCEPT ![h] = "ensure"] /\ ctx' = [ctx EXCEPT ![h] = At(c)]
      /\ UNCHANGED <<lead, violations, vetted>>
  BY DEF SaveEvidence, Goto
<1>2. tainted' \subseteq Company
  <2>1. CASE bad
    BY <2>1 DEF SaveEvidence, IInv, TypeOK
  <2>2. CASE ~bad
    BY <2>2 DEF SaveEvidence, IInv, TypeOK
  <2> QED
    BY <2>1, <2>2
<1>3. TypeOK'
  BY <1>1, <1>2, NoContextType DEF IInv, TypeOK, Label
<1>4. HandlersEarn' /\ QualifiedWasVetted'
  BY <1>1, NoContextType DEF IInv, TypeOK, HandlersEarn, QualifiedWasVetted, Earned
<1> QED
  BY <1>3, <1>4 DEF IInv

\* The scanner's lead is discovered, in the last bucket.
LEMMA EnsureLeadStep ==
  ASSUME IInv, NEW h \in Handler, EnsureLead(h)
  PROVE  IInv'
<1> DEFINE c == ctx[h].company
           score == Sc("discovered", 3)
<1>1. c \in Company /\ Own[c] \in Lead
  BY OwnIsInjective DEF EnsureLead, IInv, HandlersEarn
<1>2. score \in Score /\ Earned(score, Own[c]) /\ "idle" \in Label
  BY DEF Sc, Score, LeadStatus, Earned, Label
<1>3. CASE Plan(h, "save", Own[c], c, score, "row", "idle")
  <2> HIDE DEF c, score
  <2> QED BY <1>1, <1>2, <1>3, PlanStep
<1>4. CASE Finish(h) /\ UNCHANGED <<lead, logs, vetted>>
  BY <1>4, FinishStep DEF logs, IInv, TypeOK
<1> QED
  BY <1>3, <1>4 DEF EnsureLead

\* A model evaluation is a verdict; the baseline copies a status that was
\* earned and stays out of the first bucket.
LEMMA ScoreCompanyStep ==
  ASSUME IInv, NEW h \in Handler, NEW c \in Company, NEW score \in Score,
         NEW model \in BOOLEAN, ScoreCompany(h, c, score, model)
  PROVE  IInv'
<1>1. Own[c] \in Lead /\ "idle" \in Label
  BY OwnIsInjective DEF Label
<1>2. CASE score.status # "qualified" /\ score.bucket # 1
  <2>1. PICK from \in {"verdict", "row"} : Plan(h, "save", Own[c], c, score, from, "idle")
    BY DEF ScoreCompany
  <2> QED
    BY <1>1, <1>2, <2>1, PlanStep DEF Earned
<1>3. CASE score.status = "qualified" \/ score.bucket = 1
  <2>1. score # Sc("rejected", 3)
    BY <1>3 DEF Sc
  <2>2. CASE model
    <3>1. c \notin tainted /\ score \in Evaluation
      BY <2>1, <2>2 DEF ScoreCompany
    <3>2. score.status = "qualified"
      BY <1>3, <3>1 DEF Evaluation, Sc
    <3>3. Plan(h, "save", Own[c], c, score, "verdict", "idle")
      BY <2>2, <3>2 DEF ScoreCompany
    <3> QED
      BY <1>1, <3>3, PlanStep
  <2>3. CASE ~model
    <3>1. Baseline(Own[c], score)
      BY <2>1, <2>3 DEF ScoreCompany
    <3>2. score.bucket # 1 /\ score.status = lead[Own[c]].score.status
      BY <1>3, <3>1, BaselineIsLow DEF Baseline
    <3>3. Earned(score, Own[c])
      BY <1>1, <3>2 DEF IInv, QualifiedWasVetted, Earned
    <3>4. Plan(h, "save", Own[c], c, score, "row", "idle")
      BY <2>3 DEF ScoreCompany
    <3> QED
      BY <1>1, <3>3, <3>4, PlanStep
  <2> QED
    BY <2>2, <2>3
<1> QED
  BY <1>2, <1>3

\* The leads of a company are leads.
LEMMA RelevantAreLeads == \A c \in Company : Relevant(c) \subseteq Lead
  BY DEF Relevant, LeadsOf

\* An inquiry is a verdict.
LEMMA ReceiveInquiryStep ==
  ASSUME IInv, NEW h \in Handler, NEW c \in Company, NEW l \in Lead,
         NEW b2b \in BOOLEAN, ReceiveInquiry(h, c, l, b2b)
  PROVE  IInv'
<1>1. PICK bucket \in 1..3 : Plan(h, "save", l, c, Sc("qualified", bucket), "verdict", "idle")
  <2>1. lead[l].score.bucket \in 1..3
    BY DEF IInv, TypeOK, Row, Score
  <2>2. InquiryBucket(b2b, 2) \in 1..3 /\ InquiryBucket(b2b, lead[l].score.bucket) \in 1..3
    BY <2>1 DEF InquiryBucket
  <2> QED
    BY <2>2 DEF ReceiveInquiry
<1>2. Sc("qualified", bucket) \in Score /\ "idle" \in Label
  BY DEF Sc, Score, LeadStatus, Label
<1> QED
  BY <1>1, <1>2, PlanStep

\* A violation saves a rejected lead outside the first bucket.
LEMMA ReceiveViolationStep ==
  ASSUME IInv, NEW h \in Handler, NEW c \in Company, NEW l \in Lead,
         ReceiveViolation(h, c, l)
  PROVE  IInv'
<1> "reject" \in Label
  BY DEF Label
<1>1. CASE Plan(h, "save", l, c, Sc("rejected", 2), "row", "reject")
  <2>1. Sc("rejected", 2) \in Score /\ Earned(Sc("rejected", 2), l)
    BY DEF Sc, Score, LeadStatus, Earned
  <2> QED
    BY <1>1, <2>1, PlanStep
<1>2. CASE Plan(h, "reject", l, c, lead[l].score, "row", "reject")
  <2>1. lead[l].score \in Score
    BY DEF IInv, TypeOK, Row
  <2> QED
    BY <1>2, <2>1, PlanStep
<1> QED
  BY <1>1, <1>2 DEF ReceiveViolation

\* Outreach and contact keep the bucket the lead has earned.
LEMMA ProgressStep ==
  ASSUME IInv, NEW h \in Handler, NEW l \in Lead,
         NEW status \in {"outreach_ready", "contacted"}, Progress(h, l, status)
  PROVE  IInv'
<1> DEFINE score == Sc(status, lead[l].score.bucket)
<1>1. /\ lead[l].company \in Company /\ "idle" \in Label
      /\ Plan(h, "save", l, lead[l].company, score, "row", "idle")
  BY DEF Progress, Exists, IInv, TypeOK, Row, Label
<1>2. score \in Score /\ score.status # "qualified" /\ score.bucket = lead[l].score.bucket
  BY DEF IInv, TypeOK, Row, Sc, Score, LeadStatus
<1>3. Earned(score, l)
  BY <1>2 DEF IInv, QualifiedWasVetted, Earned
<1> HIDE DEF score
<1> QED
  BY <1>1, <1>2, <1>3, PlanStep

-----------------------------------------------------------------------------
\* The row a handler saves was earned, or its verdict earns it now.
LEMMA SaveLeadStep ==
  ASSUME IInv, NEW h \in Handler, SaveLead(h)
  PROVE  IInv'
<1> DEFINE l == ctx[h].lead
           row == [company |-> ctx[h].company, score |-> ctx[h].score]
<1>1. /\ pc[h] = "save" /\ l \in Lead /\ lead' = [lead EXCEPT ![l] = row]
      /\ UNCHANGED <<tainted, violations>>
      /\ row \in Row /\ row.score = ctx[h].score
  BY DEF SaveLead, StoreLead, logs, IInv, TypeOK, HandlersEarn, Row, Context
<1>2. /\ vetted \subseteq vetted' /\ vetted' \subseteq Lead
      /\ ctx[h].from = "verdict" => l \in vetted'
  BY <1>1 DEF SaveLead, IInv, TypeOK
<1>3. PICK label \in {"idle", "reject", "log", "save", "ensure"} :
        /\ pc' = [pc EXCEPT ![h] = label]
        /\ \/ label = "idle" /\ ctx' = [ctx EXCEPT ![h] = NoContext]
           \/ label = ctx[h].next /\ ctx' = ctx
  BY DEF SaveLead, Finish, Goto, IInv, TypeOK, Context, Label
<1>4. NoContext \in Context
  BY NoContextType DEF NoContext
<1>5. ctx[h].from = "verdict" \/ Earned(ctx[h].score, l)
  BY <1>1 DEF IInv, HandlersEarn
<1>6. ctx[h].company \in Company
  BY <1>1 DEF IInv, HandlersEarn
<1> HIDE DEF row
<1>7. TypeOK'
  BY <1>1, <1>2, <1>3, <1>4 DEF IInv, TypeOK, Label
<1>8. QualifiedWasVetted'
  BY <1>1, <1>2, <1>5 DEF IInv, TypeOK, QualifiedWasVetted, Earned
<1>9. HandlersEarn'
  BY <1>1, <1>2, <1>3, <1>5, <1>6 DEF IInv, TypeOK, HandlersEarn, Earned
<1> QED
  BY <1>7, <1>8, <1>9 DEF IInv

LEMMA RejectLeadStep ==
  ASSUME IInv, NEW h \in Handler, RejectLead(h)
  PROVE  IInv'
<1> DEFINE row == [company |-> ctx[h].company, score |-> Sc("rejected", 3)]
<1>1. /\ pc[h] = "reject" /\ ctx[h].lead \in Lead
      /\ lead' = [lead EXCEPT ![ctx[h].lead] = row]
      /\ pc' = [pc EXCEPT ![h] = "log"] /\ UNCHANGED <<tainted, violations, vetted, ctx>>
  BY DEF RejectLead, StoreLead, Goto, logs, IInv, HandlersEarn
<1>2. row \in Row /\ row.score.status = "rejected" /\ row.score.bucket = 3
  BY DEF IInv, TypeOK, Context, Row, Score, Sc, LeadStatus
<1> HIDE DEF row
<1>3. TypeOK'
  BY <1>1, <1>2 DEF IInv, TypeOK, Label
<1>4. QualifiedWasVetted'
  BY <1>1, <1>2 DEF IInv, TypeOK, QualifiedWasVetted, Earned
<1>5. HandlersEarn'
  BY <1>1 DEF IInv, TypeOK, HandlersEarn, Earned
<1> QED
  BY <1>3, <1>4, <1>5 DEF IInv

LEMMA LogViolationStep ==
  ASSUME IInv, NEW h \in Handler, LogViolation(h)
  PROVE  IInv'
<1>1. /\ Finish(h) /\ UNCHANGED <<lead, vetted, tainted>>
      /\ violations' \subseteq Lead
  BY DEF LogViolation, IInv, TypeOK, HandlersEarn
<1> QED
  BY <1>1, FinishStep

-----------------------------------------------------------------------------
\* Every step keeps the invariant.
LEMMA StepIInv == IInv /\ [Next]_vars => IInv'
<1> SUFFICES ASSUME IInv, [Next]_vars PROVE IInv'
  OBVIOUS
<1>1. CASE UNCHANGED vars
  BY <1>1 DEF vars, logs, IInv, TypeOK, HandlersEarn, QualifiedWasVetted, Earned
<1>2. ASSUME NEW h \in Handler, NEW l \in Lead,
             GenerateCadence(h, l) \/ AdvanceApproved(h, l) \/ RecordContact(h, l)
      PROVE  IInv'
  BY <1>2, ProgressStep DEF GenerateCadence, AdvanceApproved, RecordContact
<1>3. ASSUME NEW h \in Handler, Dies(h) PROVE IInv'
  BY <1>3, FinishStep DEF Dies, logs, IInv, TypeOK
<1> QED
  BY <1>1, <1>2, <1>3, SaveEvidenceStep, EnsureLeadStep, ScoreCompanyStep,
     ReceiveInquiryStep, ReceiveViolationStep, SaveLeadStep, RejectLeadStep,
     LogViolationStep DEF Next

\* The invariant holds in every reachable state.
THEOREM Invariance == Spec => []IInv
  BY InitIInv, StepIInv, PTL DEF Spec

\* The type invariant.
THEOREM TypeSafety == Spec => []TypeOK
  BY Invariance, PTL DEF IInv

\* No lead is qualified, or of the first bucket, on the baseline alone.
THEOREM BaselineQualifiesNothing == Spec => []QualifiedWasVetted
  BY Invariance, PTL DEF IInv
=============================================================================
