--------------------------- MODULE LeadLifecycle ---------------------------
(***************************************************************************)
(* Everyone who writes the leads table: MarketScanner creates leads,       *)
(* LeadScorer and ConversationIntakeService move them, a cadence, an       *)
(* approved outreach and a recorded contact do too.  Each reads a row,     *)
(* computes (the scorer may wait for a model) and saves the whole row      *)
(* back, so that what it saves may be stale.  A company has a lead whose   *)
(* name derives from its own, which scanner and scorer use; the intake     *)
(* service creates leads under fresh names.  What scorer, intake service   *)
(* and cadence append afterwards (assessment, interactions, request) no    *)
(* writer of the leads reads; only a violation's interaction is kept here. *)
(***************************************************************************)
EXTENDS Naturals, Functions

CONSTANTS
  Company, Lead, Handler,
  Own,             \* Own[c] is lead_<c>, the lead scanner and scorer use
  BaselineBucket,  \* buckets that the score without a model falls into
  NoCompany, NoLead

ASSUME OwnIsInjective == Own \in [Company -> Lead] /\ IsInjective(Own)
ASSUME NonesAreDistinct == NoCompany \notin Company /\ NoLead \notin Lead
\* The default weights give at most 0.3 + 0.3 * 0.5 + 0.2 * 0.75 + 0.2 * 0.9,
\* which is less than 0.85.
ASSUME BaselineIsLow == BaselineBucket \subseteq {2, 3}

VARIABLES
  lead,        \* table leads
  tainted,     \* companies whose name or evidence matches a violation pattern
  violations,  \* leads with an academic_violation interaction
  vetted,      \* leads a model evaluation or an inquiry ever qualified
  pc, ctx

logs == <<tainted, violations>>
vars == <<lead, logs, vetted, pc, ctx>>

LeadStatus == {"discovered", "qualified", "rejected", "outreach_ready", "contacted"}
Score == [status : LeadStatus, bucket : 1..3]
Sc(status, bucket) == [status |-> status, bucket |-> bucket]
Row == [company : Company \cup {NoCompany}, score : Score]
NoRow == [company |-> NoCompany, score |-> Sc("discovered", 3)]

Label == {"idle", "ensure", "save", "reject", "log"}
Context == [lead : Lead \cup {NoLead}, company : Company \cup {NoCompany},
            score : Score, from : {"verdict", "row"}, next : Label]
At(c) == [lead |-> NoLead, company |-> c, score |-> Sc("discovered", 3),
          from |-> "row", next |-> "idle"]
NoContext == At(NoCompany)

Exists(l) == lead[l].company # NoCompany
LeadsOf(c) == {l \in Lead : lead[l].company = c}
Fresh(l) == /\ ~Exists(l) /\ l \notin Range(Own)
            /\ \A h \in Handler : ctx[h].lead # l

\* get_lead_by_company: the first by bucket; which of equals, their
\* timestamps decide.
Relevant(c) ==
  {l \in LeadsOf(c) : \A k \in LeadsOf(c) : lead[l].score.bucket <= lead[k].score.bucket}

Goto(h, label) == pc' = [pc EXCEPT ![h] = label]
Finish(h) == Goto(h, "idle") /\ ctx' = [ctx EXCEPT ![h] = NoContext]

\* The handler has read, and will save this score in l and go on at next.
\* The score comes from a verdict that the lead is qualified, or from the row.
Plan(h, label, l, c, score, from, next) ==
  /\ Goto(h, label)
  /\ ctx' = [ctx EXCEPT ![h] = [lead |-> l, company |-> c, score |-> score,
                                from |-> from, next |-> next]]
  /\ UNCHANGED <<lead, logs, vetted>>

Init == /\ lead = [l \in Lead |-> NoRow]
        /\ tainted = {} /\ violations = {} /\ vetted = {}
        /\ pc = [h \in Handler |-> "idle"]
        /\ ctx = [h \in Handler |-> NoContext]

-----------------------------------------------------------------------------
(***************************************************************************)
(* MarketScanner: evidence first, then a lead if the company has none      *)
(* under its own name.  The same text may have been filed under d, which   *)
(* then loses it, and with it, perhaps, all that spoke against it.         *)
(***************************************************************************)
SaveEvidence(h, c, d, bad) ==
  /\ pc[h] = "idle"
  /\ tainted' = IF bad THEN (tainted \ {d}) \cup {c} ELSE tainted
  /\ Goto(h, "ensure")
  /\ ctx' = [ctx EXCEPT ![h] = At(c)]
  /\ UNCHANGED <<lead, violations, vetted>>

EnsureLead(h) ==
  LET c == ctx[h].company
  IN  /\ pc[h] = "ensure"
      /\ \/ ~Exists(Own[c]) /\ Plan(h, "save", Own[c], c, Sc("discovered", 3), "row", "idle")
         \/ Exists(Own[c]) /\ Finish(h) /\ UNCHANGED <<lead, logs, vetted>>

-----------------------------------------------------------------------------
(***************************************************************************)
(* LeadScorer, on the company's own lead, whichever lead it was asked for. *)
(***************************************************************************)
\* Mutant of Baseline: the baseline is mapped like a model evaluation.
BaselineLikeModel(l, score) == score \in {Sc("qualified", 2), Sc("discovered", 3)}

\* Without a model the status stays if an operator advanced the lead.
Baseline(l, score) ==
  /\ score.bucket \in BaselineBucket
  /\ score.status = IF Exists(l) /\ lead[l].score.status \notin {"discovered", "rejected"}
                    THEN lead[l].score.status ELSE "discovered"

\* What decision and final score of a model evaluation map to.
Evaluation == {Sc("qualified", 1), Sc("qualified", 2), Sc("rejected", 3),
               Sc("discovered", 2), Sc("discovered", 3)}

ScoreCompany(h, c, score, model) ==
  /\ pc[h] = "idle"
  /\ IF c \in tainted THEN ~model /\ score = Sc("rejected", 3)
     ELSE IF model THEN score \in Evaluation ELSE Baseline(Own[c], score)
  /\ Plan(h, "save", Own[c], c, score,
          IF model /\ score.status = "qualified" THEN "verdict" ELSE "row", "idle")

-----------------------------------------------------------------------------
(***************************************************************************)
(* ConversationIntakeService.                                              *)
(***************************************************************************)
\* Mutant of InquiryBucket: buckets are counted from 0.
InquiryBucketFromZero(b2b, otherwise) == IF b2b THEN 0 ELSE otherwise

InquiryBucket(b2b, otherwise) == IF b2b THEN 1 ELSE otherwise

\* An inquiry qualifies a discovered lead, or a new one.
ReceiveInquiry(h, c, l, b2b) ==
  /\ pc[h] = "idle"
  /\ \/ /\ LeadsOf(c) = {} /\ Fresh(l)
        /\ Plan(h, "save", l, c, Sc("qualified", InquiryBucket(b2b, 2)), "verdict", "idle")
     \/ /\ l \in Relevant(c)
        /\ lead[l].score.status = "discovered"
        /\ Plan(h, "save", l, c,
                Sc("qualified", InquiryBucket(b2b, lead[l].score.bucket)), "verdict", "idle")

\* Mutant of ReceiveViolation: a new lead is saved as qualified before.
ReceiveViolationQualified(h, c, l) ==
  /\ pc[h] = "idle"
  /\ \/ /\ LeadsOf(c) = {} /\ Fresh(l)
        /\ Plan(h, "save", l, c, Sc("qualified", 2), "row", "reject")
     \/ /\ l \in Relevant(c)
        /\ Plan(h, "reject", l, c, lead[l].score, "row", "reject")

\* A violation rejects the lead; a new one is saved once before, as rejected.
ReceiveViolation(h, c, l) ==
  /\ pc[h] = "idle"
  /\ \/ /\ LeadsOf(c) = {} /\ Fresh(l)
        /\ Plan(h, "save", l, c, Sc("rejected", 2), "row", "reject")
     \/ /\ l \in Relevant(c)
        /\ Plan(h, "reject", l, c, lead[l].score, "row", "reject")

LogViolation(h) == /\ pc[h] = "log"
                   /\ violations' = violations \cup {ctx[h].lead}
                   /\ Finish(h)
                   /\ UNCHANGED <<lead, tainted, vetted>>

-----------------------------------------------------------------------------
(***************************************************************************)
(* The row's part in OutreachApproval: a cadence, the lead of an approved  *)
(* outreach, a contact by hand.  No status is asked for but the second's.  *)
(***************************************************************************)
Progress(h, l, status) ==
  /\ pc[h] = "idle"
  /\ Exists(l)
  /\ Plan(h, "save", l, lead[l].company, Sc(status, lead[l].score.bucket), "row", "idle")

GenerateCadence(h, l) == Progress(h, l, "outreach_ready")
AdvanceApproved(h, l) == lead[l].score.status = "outreach_ready" /\ Progress(h, l, "contacted")
RecordContact(h, l) == Progress(h, l, "contacted")

-----------------------------------------------------------------------------
\* save_lead: insert, or overwrite what is stored.
StoreLead(h, score) ==
  lead' = [lead EXCEPT ![ctx[h].lead] = [company |-> ctx[h].company, score |-> score]]

SaveLead(h) ==
  /\ pc[h] = "save"
  /\ StoreLead(h, ctx[h].score)
  /\ vetted' = IF ctx[h].from = "verdict" THEN vetted \cup {ctx[h].lead} ELSE vetted
  /\ IF ctx[h].next = "idle" THEN Finish(h) ELSE Goto(h, ctx[h].next) /\ UNCHANGED ctx
  /\ UNCHANGED logs

RejectLead(h) == /\ pc[h] = "reject"
                 /\ StoreLead(h, Sc("rejected", 3))
                 /\ Goto(h, "log")
                 /\ UNCHANGED <<logs, vetted, ctx>>

Dies(h) == pc[h] # "idle" /\ Finish(h) /\ UNCHANGED <<lead, logs, vetted>>

Next == \E h \in Handler :
  \/ \E c \in Company :
       \/ \E d \in Company \cup {NoCompany}, bad \in BOOLEAN : SaveEvidence(h, c, d, bad)
       \/ \E score \in Score, model \in BOOLEAN : ScoreCompany(h, c, score, model)
       \/ \E l \in Lead : \/ \E b2b \in BOOLEAN : ReceiveInquiry(h, c, l, b2b)
                          \/ ReceiveViolation(h, c, l)
  \/ \E l \in Lead : GenerateCadence(h, l) \/ AdvanceApproved(h, l) \/ RecordContact(h, l)
  \/ EnsureLead(h) \/ SaveLead(h) \/ RejectLead(h) \/ LogViolation(h) \/ Dies(h)

Spec == Init /\ [][Next]_vars

-----------------------------------------------------------------------------
TypeOK == /\ lead \in [Lead -> Row]
          /\ tainted \subseteq Company
          /\ violations \subseteq Lead /\ vetted \subseteq Lead
          /\ pc \in [Handler -> Label]
          /\ ctx \in [Handler -> Context]

\* The unassisted baseline never qualifies a lead (docs/09, score_company),
\* not even by bringing back a row it read before: a qualified lead, and a
\* lead of the first bucket, was vetted by a model evaluation or an inquiry.
Earned(score, l) == score.status = "qualified" \/ score.bucket = 1 => l \in vetted
QualifiedWasVetted == \A l \in Lead : Earned(lead[l].score, l)

\* A lead rejected with an academic violation on record gets no outreach
\* (ConversationIntakeService, "blocks promotional outreach").
BlockedFromOutreach ==
  [][\A l \in violations : lead[l].score.status = "rejected"
                             => lead'[l].score.status # "outreach_ready"]_vars

(***************************************************************************)
(* Inductive: what a handler is about to save was earned when it was read, *)
(* and vetting is never undone.                                            *)
(***************************************************************************)
HandlersEarn ==
  \A h \in Handler :
    /\ pc[h] # "idle" => ctx[h].company \in Company
    /\ pc[h] \in {"save", "reject", "log"} => ctx[h].lead \in Lead
    /\ pc[h] = "save" => ctx[h].from = "verdict" \/ Earned(ctx[h].score, ctx[h].lead)

IInv == TypeOK /\ HandlersEarn /\ QualifiedWasVetted
=============================================================================
