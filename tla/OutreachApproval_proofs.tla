----------------------- MODULE OutreachApproval_proofs -----------------------
(***************************************************************************)
(* The safety of OutreachApproval for every set of leads, requests and     *)
(* handlers, in the presence of timeouts and crashes.                      *)
(***************************************************************************)
EXTENDS OutreachApproval, TLAPS

\* The initial states satisfy the inductive invariant.
LEMMA InitIInv == Init => IInv
  BY NoneAreDistinct DEF Init, IInv, TypeOK, RequestsFiled, HandlersReady,
     CadencesApart, DraftsPrecedeRequest, ReadyWasRequested, NewLeadRow, LeadRow,
     Status, NoApproval, ApprovalRow, ActionType, Decision, Verdict, Touches,
     Label, WriteStep, Context, NoContext, NoRow, Via, SentFor

\* The context of an idle handler is well typed and names no request.
LEMMA NoContextType == NoContext \in Context /\ NoContext.req = NoRequest
  BY DEF NoContext, NoRow, Context, Decision, Via, LeadRow, Status

\* A handler that ends without touching a table keeps the invariant.
LEMMA FinishStep ==
  ASSUME IInv, NEW h \in Handler, Finish(h), UNCHANGED tables,
         writer' \in Handler \cup {NoHandler}
  PROVE  IInv'
<1>1. /\ pc' = [pc EXCEPT ![h] = "idle"] /\ ctx' = [ctx EXCEPT ![h] = NoContext]
      /\ UNCHANGED <<lead, approval, draft, logged>>
  BY DEF Finish, Goto, tables
<1>2. TypeOK'
  BY <1>1, NoContextType DEF IInv, TypeOK, Label
<1>3. RequestsFiled' /\ DraftsPrecedeRequest' /\ ReadyWasRequested'
  BY <1>1 DEF IInv, RequestsFiled, DraftsPrecedeRequest, ReadyWasRequested, SentFor
<1>4. HandlersReady'
  BY <1>1 DEF IInv, TypeOK, HandlersReady, SentFor, Approved
<1>5. CadencesApart'
  BY <1>1, NoContextType, NoneAreDistinct
  DEF IInv, TypeOK, HandlersReady, CadencesApart
<1> QED
  BY <1>2, <1>3, <1>4, <1>5 DEF IInv

\* Reading a pending approval keeps the invariant.
LEMMA BeginResolveStep ==
  ASSUME IInv, NEW h \in Handler, OperatorBegin(h)
  PROVE  IInv'
<1> PICK u \in User, chat \in Chat \cup {NoChat}, r \in Request,
         via \in Interface, verdict \in Verdict :
           BeginResolve(h, u, chat, r, via, verdict)
  BY DEF OperatorBegin
<1> DEFINE c == [req |-> r, want |-> verdict, via |-> via, user |-> u,
                 lead |-> NoLead, copy |-> NoRow, auto |-> FALSE]
<1>1. c \in Context /\ c.req = r /\ c.want = verdict /\ c.user = u
  BY InterfaceIsVia DEF Context, Decision, LeadRow, Status, NoRow
<1>2. /\ pc[h] = "idle" /\ u \in AdminUser /\ approval[r].decision = "pending"
      /\ pc' = [pc EXCEPT ![h] = "resolve"] /\ ctx' = [ctx EXCEPT ![h] = c]
      /\ UNCHANGED <<lead, approval, draft, logged, writer>>
  BY DEF BeginResolve, IsAuthorized, Begin, Goto, tables
<1> HIDE DEF c
<1> QED
  BY <1>1, <1>2 DEF IInv, TypeOK, RequestsFiled, HandlersReady, CadencesApart,
     DraftsPrecedeRequest, ReadyWasRequested, SentFor, Approved, Label, WriteStep,
     NoApproval

\* Deciding a request keeps the invariant, whether the handler wins or finds
\* the request decided already.
LEMMA ResolveStep ==
  ASSUME IInv, NEW h \in Handler, ResolveRequest(h)
  PROVE  IInv'
<1> DEFINE c == ctx[h]
           row == [action |-> approval[c.req].action, target |-> approval[c.req].target,
                   decision |-> c.want, actor |-> c.user]
<1>1. /\ pc[h] = "resolve" /\ c \in Context /\ c.req \in Request
      /\ c.want \in Verdict /\ c.user \in AdminUser
      /\ approval[c.req].decision # "none"
  BY DEF ResolveRequest, IInv, TypeOK, HandlersReady
<1>2. /\ approval[c.req].action \in ActionType /\ approval[c.req].target \in Lead
      /\ approval[c.req] \in ApprovalRow
  BY <1>1 DEF IInv, TypeOK, RequestsFiled
<1>3. row \in ApprovalRow
  BY <1>1, <1>2, AdminsAreUsers DEF ApprovalRow, Decision
<1>4. /\ \/ approval' = [approval EXCEPT ![c.req] = row] /\ approval[c.req].decision = "pending"
         \/ approval' = approval /\ approval[c.req].decision # "pending"
      /\ UNCHANGED <<lead, draft, logged>>
      /\ writer' \in {h, NoHandler}
      /\ \/ /\ pc' = [pc EXCEPT ![h] = "readLead"] /\ ctx' = ctx
            /\ c.want = "approved" /\ approval[c.req].action = "outreach_send"
            /\ approval[c.req].decision = "pending" \/ c.via = "command"
         \/ pc' = [pc EXCEPT ![h] = "idle"] /\ ctx' = [ctx EXCEPT ![h] = NoContext]
  BY DEF ResolveRequest, Resolve, GoesOn, Advances, Goto, Finish
<1>5. NoContext \in Context /\ NoContext.req = NoRequest
  BY NoContextType
<1>6. /\ row.action = approval[c.req].action /\ row.target = approval[c.req].target
      /\ row.decision = c.want /\ row.actor = c.user
      /\ c.want \notin {"none", "pending"}
  BY <1>1 DEF Verdict
<1> HIDE DEF c, row
<1>a. TypeOK'
  BY <1>1, <1>3, <1>4, <1>5 DEF IInv, TypeOK, Label, WriteStep, c
<1>b. RequestsFiled'
  BY <1>1, <1>2, <1>4, <1>6 DEF IInv, TypeOK, RequestsFiled, Verdict
<1>c. HandlersReady'
  BY <1>1, <1>2, <1>4, <1>5, <1>6
  DEF IInv, TypeOK, HandlersReady, RequestsFiled, SentFor, Approved, c
<1>d. CadencesApart'
  BY <1>1, <1>4, <1>5, NoneAreDistinct DEF IInv, TypeOK, HandlersReady, CadencesApart
<1>e. DraftsPrecedeRequest'
  BY <1>1, <1>4, <1>6 DEF IInv, TypeOK, DraftsPrecedeRequest
<1>f. ReadyWasRequested'
  BY <1>1, <1>4, <1>6 DEF IInv, TypeOK, ReadyWasRequested, SentFor
<1> QED
  BY <1>a, <1>b, <1>c, <1>d, <1>e, <1>f DEF IInv

\* Reading the lead of an approved outreach keeps the invariant.
LEMMA ReadLeadStep ==
  ASSUME IInv, NEW h \in Handler, ReadLead(h)
  PROVE  IInv'
<1> DEFINE l == approval[ctx[h].req].target
<1>1. pc[h] = "readLead" /\ UNCHANGED <<tables, writer>>
  BY DEF ReadLead
<1>2. CASE lead[l].status # "outreach_ready" /\ Finish(h)
  BY <1>1, <1>2, FinishStep DEF IInv, TypeOK
<1>3. CASE /\ pc' = [pc EXCEPT ![h] = "advance"]
           /\ ctx' = [ctx EXCEPT ![h].copy = lead[l]]
  <2>1. UNCHANGED <<lead, approval, draft, logged, writer>>
    BY <1>1 DEF tables
  <2>2. ctx[h].req \in Request /\ l \in Lead /\ lead[l] \in LeadRow
    BY <1>1 DEF IInv, TypeOK, HandlersReady, RequestsFiled
  <2>3. /\ ctx' \in [Handler -> Context]
        /\ \A k \in Handler : /\ ctx'[k].req = ctx[k].req /\ ctx'[k].want = ctx[k].want
                              /\ ctx'[k].user = ctx[k].user /\ ctx'[k].via = ctx[k].via
                              /\ ctx'[k].lead = ctx[k].lead
                              /\ k # h => ctx'[k] = ctx[k]
    <3> HIDE DEF l
    <3> QED BY <1>3, <2>2 DEF IInv, TypeOK, Context
  <2>4. TypeOK'
    BY <1>3, <2>1, <2>3 DEF IInv, TypeOK, Label, WriteStep
  <2>5. RequestsFiled' /\ DraftsPrecedeRequest' /\ ReadyWasRequested'
    BY <2>1 DEF IInv, RequestsFiled, DraftsPrecedeRequest, ReadyWasRequested, SentFor
  <2>6. HandlersReady' /\ CadencesApart'
    BY <1>1, <1>3, <2>1, <2>3
    DEF IInv, TypeOK, HandlersReady, CadencesApart, SentFor, Approved
  <2> QED
    BY <2>4, <2>5, <2>6 DEF IInv
<1> QED
  BY <1>2, <1>3 DEF ReadLead, Goto

\* A save that overwrites a lead with a row that is not OUTREACH_READY, or is
\* for a lead with an outreach request, keeps what is said of leads.
LEMMA SaveLeadStep ==
  ASSUME IInv, NEW h \in Handler, NEW l \in Lead, NEW row \in LeadRow,
         SaveLead(h, l, row), UNCHANGED <<approval, draft, logged>>,
         row.status = "outreach_ready" => SentFor(l) # {}
  PROVE  /\ ReadyWasRequested' /\ RequestsFiled' /\ DraftsPrecedeRequest'
         /\ lead' \in [Lead -> LeadRow]
         /\ writer' = NoHandler
<1>1. lead' = [lead EXCEPT ![l] = row] /\ writer' = NoHandler
  BY DEF SaveLead, Commit
<1>2. lead' \in [Lead -> LeadRow]
  BY <1>1 DEF IInv, TypeOK
<1>3. ReadyWasRequested'
  BY <1>1 DEF IInv, TypeOK, ReadyWasRequested, SentFor
<1>4. RequestsFiled' /\ DraftsPrecedeRequest'
  BY DEF IInv, RequestsFiled, DraftsPrecedeRequest
<1> QED
  BY <1>1, <1>2, <1>3, <1>4

\* A handler that saves a lead and ends keeps the invariant.
LEMMA SaveAndFinishStep ==
  ASSUME IInv, NEW h \in Handler, NEW l \in Lead, NEW row \in LeadRow,
         SaveLead(h, l, row), UNCHANGED <<approval, draft, logged>>, Finish(h),
         row.status = "outreach_ready" => SentFor(l) # {}
  PROVE  IInv'
<1>1. /\ ReadyWasRequested' /\ RequestsFiled' /\ DraftsPrecedeRequest'
      /\ lead' \in [Lead -> LeadRow] /\ writer' = NoHandler
  BY SaveLeadStep
<1>2. pc' = [pc EXCEPT ![h] = "idle"] /\ ctx' = [ctx EXCEPT ![h] = NoContext]
  BY DEF Finish, Goto
<1>3. TypeOK'
  BY <1>1, <1>2, NoContextType DEF IInv, TypeOK, Label
<1>4. HandlersReady'
  BY <1>2 DEF IInv, TypeOK, HandlersReady, SentFor, Approved
<1>5. CadencesApart'
  BY <1>2, NoContextType, NoneAreDistinct
  DEF IInv, TypeOK, HandlersReady, CadencesApart
<1> QED
  BY <1>1, <1>3, <1>4, <1>5 DEF IInv

\* Advancing the lead, from whatever row was read, keeps the invariant.
LEMMA SaveContactedStep ==
  ASSUME IInv, NEW h \in Handler, SaveContacted(h)
  PROVE  IInv'
<1> DEFINE row == [ctx[h].copy EXCEPT !.status = "contacted"]
           l == approval[ctx[h].req].target
<1>1. l \in Lead
  BY DEF SaveContacted, IInv, TypeOK, HandlersReady, RequestsFiled
<1>2. row \in LeadRow /\ row.status = "contacted"
  BY DEF IInv, TypeOK, Context, LeadRow, Status
<1>3. SaveLead(h, l, row) /\ UNCHANGED <<approval, draft, logged>> /\ Finish(h)
  BY DEF SaveContacted
<1> HIDE DEF row, l
<1> QED
  BY <1>1, <1>2, <1>3, SaveAndFinishStep

\* Marking the lead OUTREACH_READY at the end of a cadence keeps the invariant.
LEMMA SaveReadyStep ==
  ASSUME IInv, NEW h \in Handler, SaveReady(h)
  PROVE  IInv'
<1> DEFINE row == [ctx[h].copy EXCEPT !.status = "outreach_ready"]
           l == ctx[h].lead
<1>1. l \in Lead /\ SentFor(l) # {}
  BY DEF SaveReady, IInv, HandlersReady
<1>2. row \in LeadRow
  BY DEF IInv, TypeOK, Context, LeadRow, Status
<1>3. SaveLead(h, l, row) /\ UNCHANGED <<approval, draft, logged>> /\ Finish(h)
  BY DEF SaveReady
<1> HIDE DEF row, l
<1> QED
  BY <1>1, <1>2, <1>3, SaveAndFinishStep

\* Recording a contact by hand keeps the invariant.
LEMMA SaveContactStep ==
  ASSUME IInv, NEW h \in Handler, SaveContact(h)
  PROVE  IInv'
<1> DEFINE row == [ctx[h].copy EXCEPT !.status = "contacted"]
           l == ctx[h].lead
<1>1. pc[h] = "contact" /\ l \in Lead
  BY DEF SaveContact, IInv, HandlersReady
<1>2. row \in LeadRow /\ row.status = "contacted"
  BY DEF IInv, TypeOK, Context, LeadRow, Status
<1>3. /\ SaveLead(h, l, row) /\ UNCHANGED <<approval, draft, logged, ctx>>
      /\ pc' = [pc EXCEPT ![h] = "log"]
  BY DEF SaveContact, Goto
<1>4. /\ ReadyWasRequested' /\ RequestsFiled' /\ DraftsPrecedeRequest'
      /\ lead' \in [Lead -> LeadRow] /\ writer' = NoHandler
  <2> HIDE DEF row, l
  <2> QED BY <1>1, <1>2, <1>3, SaveLeadStep
<1>5. TypeOK'
  BY <1>3, <1>4 DEF IInv, TypeOK, Label, WriteStep
<1>6. HandlersReady' /\ CadencesApart'
  BY <1>1, <1>3 DEF IInv, TypeOK, HandlersReady, CadencesApart, SentFor, Approved
<1> QED
  BY <1>4, <1>5, <1>6 DEF IInv

\* The human interaction that follows keeps the invariant.
LEMMA LogContactStep ==
  ASSUME IInv, NEW h \in Handler, LogContact(h)
  PROVE  IInv'
<1>1. /\ pc[h] = "log" /\ ctx[h].lead \in Lead
      /\ logged' = logged \cup {ctx[h].lead} /\ writer' = NoHandler
      /\ UNCHANGED <<lead, approval, draft>>
      /\ pc' = [pc EXCEPT ![h] = "idle"] /\ ctx' = [ctx EXCEPT ![h] = NoContext]
  BY DEF LogContact, Commit, Finish, Goto, IInv, HandlersReady
<1>2. TypeOK'
  BY <1>1, NoContextType DEF IInv, TypeOK, Label
<1>3. RequestsFiled' /\ DraftsPrecedeRequest' /\ ReadyWasRequested'
  BY <1>1 DEF IInv, RequestsFiled, DraftsPrecedeRequest, ReadyWasRequested, SentFor
<1>4. HandlersReady'
  BY <1>1 DEF IInv, TypeOK, HandlersReady, SentFor, Approved
<1>5. CadencesApart'
  BY <1>1, NoContextType, NoneAreDistinct
  DEF IInv, TypeOK, HandlersReady, CadencesApart
<1> QED
  BY <1>2, <1>3, <1>4, <1>5 DEF IInv

\* A cadence starts with a request identifier nobody else has.
LEMMA BeginCadenceStep ==
  ASSUME IInv, NEW h \in Handler, NEW l \in Lead, NEW r \in Request,
         NEW auto \in BOOLEAN, BeginCadence(h, l, r, auto)
  PROVE  IInv'
<1> DEFINE c == [req |-> r, want |-> "none", via |-> "button", user |-> NoUser,
                 lead |-> l, copy |-> lead[l], auto |-> auto]
<1>1. c \in Context /\ c.req = r /\ c.lead = l
  BY DEF IInv, TypeOK, Context, Decision, Via
<1>2. /\ pc[h] = "idle" /\ approval[r].decision = "none"
      /\ \A k \in Handler : ctx[k].req # r
      /\ pc' = [pc EXCEPT ![h] = "draft"] /\ ctx' = [ctx EXCEPT ![h] = c]
      /\ UNCHANGED <<lead, approval, draft, logged, writer>>
  BY DEF BeginCadence, Fresh, NoApproval, Begin, Goto, tables
<1> HIDE DEF c
<1>3. TypeOK'
  BY <1>1, <1>2 DEF IInv, TypeOK, Label, WriteStep
<1>4. RequestsFiled' /\ DraftsPrecedeRequest' /\ ReadyWasRequested'
  BY <1>2 DEF IInv, RequestsFiled, DraftsPrecedeRequest, ReadyWasRequested, SentFor
<1>5. HandlersReady'
  BY <1>1, <1>2 DEF IInv, TypeOK, HandlersReady, SentFor, Approved
<1>6. CadencesApart'
  BY <1>1, <1>2 DEF IInv, TypeOK, CadencesApart
<1> QED
  BY <1>3, <1>4, <1>5, <1>6 DEF IInv

\* Starting to record a contact keeps the invariant.
LEMMA BeginContactStep ==
  ASSUME IInv, NEW h \in Handler, NEW l \in Lead, BeginContact(h, l)
  PROVE  IInv'
<1> DEFINE c == [req |-> NoRequest, want |-> "none", via |-> "button", user |-> NoUser,
                 lead |-> l, copy |-> lead[l], auto |-> FALSE]
<1>1. c \in Context /\ c.req = NoRequest /\ c.lead = l
  BY DEF IInv, TypeOK, Context, Decision, Via
<1>2. /\ pc[h] = "idle"
      /\ pc' = [pc EXCEPT ![h] = "contact"] /\ ctx' = [ctx EXCEPT ![h] = c]
      /\ UNCHANGED <<lead, approval, draft, logged, writer>>
  BY DEF BeginContact, Begin, Goto, tables
<1> HIDE DEF c
<1>3. TypeOK'
  BY <1>1, <1>2 DEF IInv, TypeOK, Label, WriteStep
<1>4. RequestsFiled' /\ DraftsPrecedeRequest' /\ ReadyWasRequested'
  BY <1>2 DEF IInv, RequestsFiled, DraftsPrecedeRequest, ReadyWasRequested, SentFor
<1>5. HandlersReady'
  BY <1>1, <1>2 DEF IInv, TypeOK, HandlersReady, SentFor, Approved
<1>6. CadencesApart'
  BY <1>1, <1>2, NoneAreDistinct DEF IInv, TypeOK, HandlersReady, CadencesApart
<1> QED
  BY <1>3, <1>4, <1>5, <1>6 DEF IInv

\* Saving a draft keeps the invariant: its request is not filed yet.
LEMMA SaveDraftStep ==
  ASSUME IInv, NEW h \in Handler, SaveDraft(h)
  PROVE  IInv'
<1> DEFINE r == ctx[h].req
<1>1. /\ pc[h] = "draft" /\ r \in Request /\ approval[r].decision = "none"
      /\ draft[r] < Touches /\ draft' = [draft EXCEPT ![r] = draft[r] + 1]
      /\ writer' = NoHandler /\ UNCHANGED <<lead, approval, logged, pc, ctx>>
  BY DEF SaveDraft, Commit, IInv, HandlersReady
<1> HIDE DEF r
<1>2. TypeOK'
  BY <1>1 DEF IInv, TypeOK, Touches
<1>3. RequestsFiled' /\ ReadyWasRequested'
  BY <1>1 DEF IInv, RequestsFiled, ReadyWasRequested, SentFor
<1>4. DraftsPrecedeRequest'
  BY <1>1 DEF IInv, TypeOK, DraftsPrecedeRequest
<1>5. HandlersReady' /\ CadencesApart'
  BY <1>1 DEF IInv, TypeOK, HandlersReady, CadencesApart, SentFor, Approved
<1> QED
  BY <1>2, <1>3, <1>4, <1>5 DEF IInv

\* Filing a request that has no row yet, over all of its drafts or none, keeps
\* what is said of requests and leads.
LEMMA CreateRequestStep ==
  ASSUME IInv, NEW h \in Handler, NEW r \in Request, NEW action \in ActionType,
         NEW l \in Lead, CreateRequest(h, r, action, l),
         UNCHANGED <<lead, draft, logged>>,
         approval[r].decision = "none", draft[r] \in {0, Touches}
  PROVE  /\ RequestsFiled' /\ DraftsPrecedeRequest' /\ ReadyWasRequested'
         /\ approval' \in [Request -> ApprovalRow] /\ writer' = NoHandler
         /\ approval'[r].action = action /\ approval'[r].target = l
         /\ approval'[r].decision = "pending"
         /\ \A q \in Request : q # r => approval'[q] = approval[q]
<1> DEFINE row == [action |-> action, target |-> l, decision |-> "pending",
                   actor |-> NoUser]
<1>1. approval' = [approval EXCEPT ![r] = row] /\ writer' = NoHandler
  BY DEF CreateRequest, Commit
<1>2. /\ row \in ApprovalRow /\ row.action = action /\ row.target = l
      /\ row.decision = "pending" /\ row.actor = NoUser
  BY DEF ApprovalRow, Decision
<1> HIDE DEF row
<1>3. /\ approval'[r] = row /\ approval' \in [Request -> ApprovalRow]
      /\ \A q \in Request : q # r => approval'[q] = approval[q]
  BY <1>1, <1>2 DEF IInv, TypeOK
<1>4. RequestsFiled' /\ DraftsPrecedeRequest'
  BY <1>2, <1>3 DEF IInv, RequestsFiled, DraftsPrecedeRequest, Verdict
<1>5. ReadyWasRequested'
  <2> SUFFICES ASSUME NEW k \in Lead, lead[k].status = "outreach_ready"
               PROVE  \E q \in Request : /\ approval'[q].action = "outreach_send"
                                         /\ approval'[q].target = k
    BY DEF ReadyWasRequested, SentFor
  <2>1. PICK q \in Request : /\ approval[q].action = "outreach_send"
                             /\ approval[q].target = k
    BY DEF IInv, ReadyWasRequested, SentFor
  <2>2. q # r
    BY <2>1 DEF IInv, RequestsFiled, NoApproval
  <2> QED
    BY <1>3, <2>1, <2>2
<1> QED
  BY <1>1, <1>2, <1>3, <1>4, <1>5

\* Asking for approval of a complete cadence keeps the invariant.
LEMMA RequestOutreachStep ==
  ASSUME IInv, NEW h \in Handler, RequestOutreach(h)
  PROVE  IInv'
<1> DEFINE r == ctx[h].req
           l == ctx[h].lead
<1>1. /\ pc[h] = "draft" /\ r \in Request /\ l \in Lead
      /\ approval[r].decision = "none" /\ draft[r] = Touches
      /\ CreateRequest(h, r, "outreach_send", l) /\ "outreach_send" \in ActionType
      /\ pc' = [pc EXCEPT ![h] = "ready"] /\ UNCHANGED <<lead, draft, logged, ctx>>
  BY DEF RequestOutreach, Goto, IInv, HandlersReady, ActionType
<1> HIDE DEF r, l
<1>2. /\ RequestsFiled' /\ DraftsPrecedeRequest' /\ ReadyWasRequested'
      /\ approval' \in [Request -> ApprovalRow] /\ writer' = NoHandler
      /\ approval'[r].action = "outreach_send" /\ approval'[r].target = l
      /\ \A q \in Request : q # r => approval'[q] = approval[q]
  BY <1>1, CreateRequestStep
<1>3. TypeOK'
  BY <1>1, <1>2 DEF IInv, TypeOK, Label, WriteStep
<1>4. HandlersReady'
  BY <1>1, <1>2 DEF IInv, TypeOK, HandlersReady, CadencesApart, SentFor, Approved, r, l
<1>5. CadencesApart'
  BY <1>1 DEF IInv, TypeOK, CadencesApart
<1> QED
  BY <1>2, <1>3, <1>4, <1>5 DEF IInv

\* Filing a request without drafts keeps the invariant.
LEMMA FileRequestStep ==
  ASSUME IInv, NEW h \in Handler, NEW r \in Request, NEW action \in ActionType,
         NEW l \in Lead, FileRequest(h, r, action, l)
  PROVE  IInv'
<1>1. /\ CreateRequest(h, r, action, l) /\ UNCHANGED <<lead, draft, logged, pc, ctx>>
      /\ approval[r].decision = "none" /\ draft[r] = 0
      /\ \A k \in Handler : ctx[k].req # r
  BY DEF FileRequest, Fresh, NoApproval
<1>2. /\ RequestsFiled' /\ DraftsPrecedeRequest' /\ ReadyWasRequested'
      /\ approval' \in [Request -> ApprovalRow] /\ writer' = NoHandler
      /\ \A q \in Request : q # r => approval'[q] = approval[q]
  BY <1>1, CreateRequestStep
<1>3. TypeOK'
  BY <1>1, <1>2 DEF IInv, TypeOK
<1>4. HandlersReady' /\ CadencesApart'
  BY <1>1, <1>2 DEF IInv, TypeOK, HandlersReady, CadencesApart, SentFor, Approved
<1> QED
  BY <1>2, <1>3, <1>4 DEF IInv

\* A cadence that asks for no approval, a timeout and a crash end a handler.
LEMMA EndStep ==
  ASSUME IInv, NEW h \in Handler,
         EndDraftsOnly(h) \/ WriteTimeout(h) \/ Crash(h)
  PROVE  IInv'
<1>1. Finish(h) /\ UNCHANGED tables
  BY DEF EndDraftsOnly, WriteTimeout, Crash
<1>2. writer' \in Handler \cup {NoHandler}
  BY DEF EndDraftsOnly, WriteTimeout, Crash, IInv, TypeOK
<1> QED
  BY <1>1, <1>2, FinishStep

-----------------------------------------------------------------------------
\* Every step keeps the invariant.
LEMMA StepIInv == IInv /\ [CrashNext]_vars => IInv'
<1> SUFFICES ASSUME IInv, [CrashNext]_vars PROVE IInv'
  OBVIOUS
<1>1. CASE UNCHANGED vars
  BY <1>1 DEF vars, IInv, TypeOK, RequestsFiled, HandlersReady, CadencesApart,
     DraftsPrecedeRequest, ReadyWasRequested, SentFor, Approved
<1>2. ASSUME NEW h \in Handler, OperatorBegin(h) \/ OperatorStep(h) PROVE IInv'
  BY <1>2, BeginResolveStep, ResolveStep, ReadLeadStep, SaveContactedStep
  DEF OperatorStep
<1>3. ASSUME NEW h \in Handler, OutboundBegin(h) PROVE IInv'
  BY <1>3, BeginCadenceStep, BeginContactStep, FileRequestStep DEF OutboundBegin
<1>4. ASSUME NEW h \in Handler, OutboundStep(h) PROVE IInv'
  BY <1>4, SaveDraftStep, RequestOutreachStep, EndStep, SaveReadyStep,
     SaveContactStep, LogContactStep DEF OutboundStep
<1>5. ASSUME NEW h \in Handler, WriteTimeout(h) \/ Crash(h) PROVE IInv'
  BY <1>5, EndStep
<1> QED
  BY <1>1, <1>2, <1>3, <1>4, <1>5 DEF CrashNext, Next, Step

\* The invariant holds in every reachable state of the system with timeouts
\* and crashes: each part of it is needed to show the others preserved.
THEOREM Invariance == CrashSpec => []IInv
  BY InitIInv, StepIInv, PTL DEF CrashSpec

\* The type invariant.
THEOREM TypeSafety == CrashSpec => []TypeOK
  BY Invariance, PTL DEF IInv

\* A filed request has all of the drafts of its cadence, or none.
THEOREM CompleteDrafts == CrashSpec => []DraftsPrecedeRequest
  BY Invariance, PTL DEF IInv

\* A lead is OUTREACH_READY only when an approval was asked for.
THEOREM ReadyOnRequest == CrashSpec => []ReadyWasRequested
  BY Invariance, PTL DEF IInv

-----------------------------------------------------------------------------
(***************************************************************************)
(* The approvals table implements the abstract gate: RequestOutreach and   *)
(* FileRequest file, a ResolveRequest that wins decides, all other steps   *)
(* stutter.                                                                *)
(***************************************************************************)
decisionBar == [r \in Request |-> approval[r].decision]
deciderBar == [r \in Request |-> approval[r].actor]

\* Steps that leave the table alone are stuttering steps of the gate.
LEMMA GateStutters ==
  UNCHANGED approval => UNCHANGED <<decisionBar, deciderBar>>
  BY DEF decisionBar, deciderBar

\* A new request is a File step of the gate.
LEMMA GateFiles ==
  ASSUME IInv, NEW h \in Handler, NEW r \in Request, NEW action \in ActionType,
         NEW l \in Lead, CreateRequest(h, r, action, l), approval[r].decision = "none"
  PROVE  Gate!File(r)
<1> DEFINE row == [action |-> action, target |-> l, decision |-> "pending",
                   actor |-> NoUser]
<1>1. approval' = [approval EXCEPT ![r] = row]
  BY DEF CreateRequest
<1>2. row.decision = "pending" /\ row.actor = NoUser /\ approval[r].actor = NoUser
  BY DEF IInv, RequestsFiled, NoApproval
<1> HIDE DEF row
<1>3. /\ \A q \in Request : approval'[q] = IF q = r THEN row ELSE approval[q]
      /\ decisionBar[r] = "none"
  BY <1>1 DEF IInv, TypeOK, decisionBar
<1>4. decisionBar' = [decisionBar EXCEPT ![r] = "pending"]
  BY <1>2, <1>3 DEF decisionBar
<1>5. deciderBar' = deciderBar
  BY <1>2, <1>3 DEF deciderBar
<1> QED
  BY <1>3, <1>4, <1>5 DEF Gate!File, decisionBar, deciderBar

\* A handler that wins decides at the gate, one that loses stutters.
LEMMA GateDecides ==
  ASSUME IInv, NEW h \in Handler, ResolveRequest(h)
  PROVE  \/ UNCHANGED <<decisionBar, deciderBar>>
         \/ \E r \in Request, verdict \in Verdict, u \in AdminUser :
              Gate!Decide(r, verdict, u)
<1> DEFINE r == ctx[h].req
           row == [action |-> approval[r].action, target |-> approval[r].target,
                   decision |-> ctx[h].want, actor |-> ctx[h].user]
<1>1. r \in Request /\ ctx[h].want \in Verdict /\ ctx[h].user \in AdminUser
  BY DEF ResolveRequest, IInv, HandlersReady
<1>2. \/ UNCHANGED approval
      \/ approval' = [approval EXCEPT ![r] = row] /\ approval[r].decision = "pending"
  BY DEF ResolveRequest, Resolve
<1>3. row.decision = ctx[h].want /\ row.actor = ctx[h].user
  OBVIOUS
<1> HIDE DEF r, row
<1>4. CASE approval' = [approval EXCEPT ![r] = row] /\ approval[r].decision = "pending"
  <2>1. /\ \A q \in Request : approval'[q] = IF q = r THEN row ELSE approval[q]
        /\ decisionBar[r] = "pending"
    BY <1>1, <1>4 DEF IInv, TypeOK, decisionBar
  <2>2. decisionBar' = [decisionBar EXCEPT ![r] = ctx[h].want]
    BY <1>3, <2>1 DEF decisionBar
  <2>3. deciderBar' = [deciderBar EXCEPT ![r] = ctx[h].user]
    BY <1>3, <2>1 DEF deciderBar
  <2>4. Gate!Decide(r, ctx[h].want, ctx[h].user)
    BY <2>1, <2>2, <2>3 DEF Gate!Decide, decisionBar, deciderBar
  <2> QED
    BY <1>1, <2>4 DEF Gate!Decide
<1> QED
  BY <1>2, <1>4, GateStutters

\* Every step of the system is a step of the gate or a stutter.
LEMMA GateStep ==
  IInv /\ [CrashNext]_vars => [Gate!Next]_<<decisionBar, deciderBar>>
<1> SUFFICES ASSUME IInv, [CrashNext]_vars,
                    ~ UNCHANGED <<decisionBar, deciderBar>>
             PROVE  Gate!Next
  OBVIOUS
<1>1. ~ UNCHANGED approval
  BY GateStutters
<1>2. PICK h \in Handler : \/ OperatorBegin(h) \/ OutboundBegin(h) \/ Step(h)
                           \/ Crash(h)
  BY <1>1 DEF vars, CrashNext, Next
<1>3. CASE ResolveRequest(h)
  BY <1>3, GateDecides DEF Gate!Next, Verdict
<1>4. CASE RequestOutreach(h)
  <2>1. /\ ctx[h].req \in Request /\ ctx[h].lead \in Lead
        /\ CreateRequest(h, ctx[h].req, "outreach_send", ctx[h].lead)
        /\ approval[ctx[h].req].decision = "none" /\ "outreach_send" \in ActionType
    BY <1>4 DEF RequestOutreach, IInv, HandlersReady, ActionType
  <2> QED
    BY <2>1, GateFiles DEF Gate!Next
<1>5. ASSUME NEW l \in Lead, NEW r \in Request, NEW action \in ActionType,
             FileRequest(h, r, action, l)
      PROVE  Gate!Next
  <2>1. CreateRequest(h, r, action, l) /\ approval[r].decision = "none"
    BY <1>5 DEF FileRequest, Fresh, NoApproval
  <2> QED
    BY <2>1, GateFiles DEF Gate!Next
<1> QED
  BY <1>1, <1>2, <1>3, <1>4, <1>5
  DEF OperatorBegin, BeginResolve, OutboundBegin, BeginCadence, BeginContact, Step,
      OperatorStep, ReadLead, SaveContacted, OutboundStep, SaveDraft, EndDraftsOnly,
      SaveReady, SaveContact, LogContact, WriteTimeout, Crash, tables

\* Each request is filed once and decided at most once, by an administrator.
THEOREM GateRefined == CrashSpec => GateHolds
<1>1. Init => Gate!Init
  BY DEF Init, Gate!Init, NoApproval
<1>2. CrashSpec => [][Gate!Next]_<<decisionBar, deciderBar>>
  BY Invariance, GateStep, PTL DEF CrashSpec
<1> QED
  BY <1>1, <1>2, PTL DEF CrashSpec, GateHolds, Gate!Spec, decisionBar, deciderBar

-----------------------------------------------------------------------------
(***************************************************************************)
(* Approval gates the lead.  A handler past its resolve has won it,        *)
(* HandlersReady says, unless a command started it; an approval is final,  *)
(* so the lead it advances later is covered still.                         *)
(***************************************************************************)
ByCommand == \E h \in Handler : /\ pc[h] = "advance" /\ pc'[h] = "idle"
                                /\ ctx[h].via = "command"

\* Leads are written in three places.
LEMMA LeadWriters ==
  ASSUME [CrashNext]_vars, lead' # lead
  PROVE  \E h \in Handler : SaveContacted(h) \/ SaveReady(h) \/ SaveContact(h)
BY DEF vars, CrashNext, Next, OperatorBegin, BeginResolve, OutboundBegin, BeginCadence,
       BeginContact, FileRequest, Step, OperatorStep, ResolveRequest, ReadLead,
       OutboundStep, SaveDraft, RequestOutreach, EndDraftsOnly, LogContact,
       WriteTimeout, Crash, tables

\* An operator that saves the lead of an approved request covers it.
LEMMA ApprovedAdvance ==
  ASSUME IInv, NEW h \in Handler, SaveContacted(h), Approved(ctx[h].req),
         NEW l \in Lead, BecomesContacted(l)
  PROVE  Covered(l)
<1> DEFINE r == ctx[h].req
           row == [ctx[h].copy EXCEPT !.status = "contacted"]
<1>1. /\ r \in Request /\ approval[r].action = "outreach_send" /\ Approved(r)
      /\ lead' = [lead EXCEPT ![approval[r].target] = row]
  BY DEF SaveContacted, SaveLead, IInv, HandlersReady
<1> HIDE DEF r, row
<1>2. approval[r].target = l
  BY <1>1 DEF IInv, TypeOK, BecomesContacted
<1> QED
  BY <1>1, <1>2 DEF Covered, SentFor

\* The other two never make a lead contacted that is not covered: a cadence
\* saves it as ready, and a recorded contact covers it.
LEMMA OutboundAdvance ==
  ASSUME IInv, NEW h \in Handler, SaveReady(h) \/ SaveContact(h),
         NEW l \in Lead, BecomesContacted(l)
  PROVE  Covered(l)
<1>1. CASE SaveReady(h)
  <2> DEFINE row == [ctx[h].copy EXCEPT !.status = "outreach_ready"]
  <2>1. row.status = "outreach_ready"
    BY DEF IInv, TypeOK, Context, LeadRow
  <2>2. lead' = [lead EXCEPT ![ctx[h].lead] = row]
    BY <1>1 DEF SaveReady, SaveLead
  <2> HIDE DEF row
  <2> QED
    BY <2>1, <2>2 DEF IInv, TypeOK, BecomesContacted
<1>2. CASE SaveContact(h)
  BY <1>2 DEF SaveContact, Goto, IInv, TypeOK, Covered
<1> QED
  BY <1>1, <1>2

\* One step, from a state that satisfies the invariant.
LEMMA AdvanceStep ==
  ASSUME IInv, [CrashNext]_vars, NEW l \in Lead, BecomesContacted(l)
  PROVE  Covered(l) \/ ByCommand
<1>1. PICK h \in Handler : SaveContacted(h) \/ SaveReady(h) \/ SaveContact(h)
  BY LeadWriters DEF BecomesContacted
<1>2. CASE SaveContacted(h) /\ ctx[h].via = "command"
  BY <1>2 DEF SaveContacted, Finish, Goto, ByCommand, IInv, TypeOK
<1>3. CASE SaveContacted(h) /\ ctx[h].via # "command"
  <2>1. ctx[h].via = "button"
    BY <1>3 DEF IInv, TypeOK, Context, Via
  <2>2. Approved(ctx[h].req)
    BY <1>3, <2>1 DEF SaveContacted, IInv, HandlersReady
  <2> QED
    BY <1>3, <2>2, ApprovedAdvance
<1> QED
  BY <1>1, <1>2, <1>3, OutboundAdvance

\* A lead becomes CONTACTED on an approved request for it, by a contact a
\* founder recorded, or by a command.
THEOREM ButtonsAreGated == CrashSpec => ButtonsNeedApproval
<1> DEFINE Gated == \A l \in Lead : BecomesContacted(l) =>
             \/ Covered(l)
             \/ \E h \in Handler : /\ pc[h] = "advance" /\ pc'[h] = "idle"
                                   /\ ctx[h].via = "command"
<1>1. IInv /\ [CrashNext]_vars => [Gated]_vars
  BY AdvanceStep DEF ByCommand
<1>2. CrashSpec => [][Gated]_vars
  BY Invariance, <1>1, PTL DEF CrashSpec
<1> QED
  BY <1>2 DEF ButtonsNeedApproval

-----------------------------------------------------------------------------
(***************************************************************************)
(* Commands, too, as long as no two handlers decide one request at once:   *)
(* then whoever read it as pending wins.                                   *)
(***************************************************************************)
\* A decision that is saved is the one that was asked for.
LEMMA DecisionSaved ==
  ASSUME IInv, DecidedApart, DecisionsStand, NEW h \in Handler, ResolveRequest(h)
  PROVE  DecisionsStand'
<1> DEFINE r == ctx[h].req
           row == [action |-> approval[r].action, target |-> approval[r].target,
                   decision |-> ctx[h].want, actor |-> ctx[h].user]
<1>1. /\ pc[h] = "resolve" /\ r \in Request /\ approval[r].decision = "pending"
      /\ approval' = [approval EXCEPT ![r] = row]
  BY DEF ResolveRequest, Resolve, DecisionsStand, IInv, HandlersReady
<1>2. /\ \/ pc' = [pc EXCEPT ![h] = "readLead"] /\ ctx' = ctx /\ ctx[h].want = "approved"
         \/ pc' = [pc EXCEPT ![h] = "idle"] /\ ctx' = [ctx EXCEPT ![h] = NoContext]
  BY DEF ResolveRequest, GoesOn, Advances, Goto, Finish
<1>3. row.decision = ctx[h].want
  OBVIOUS
<1> HIDE DEF row
<1>4. ASSUME NEW k \in Handler \ {h}, pc[k] \in {"resolve", "readLead", "advance"}
      PROVE  approval'[ctx[k].req] = approval[ctx[k].req]
  <2>1. ctx[k].req # r
    BY <1>1, <1>4 DEF DecidedApart, DecisionsStand, Approved
  <2> QED
    BY <1>1, <1>4, <2>1 DEF IInv, TypeOK, HandlersReady
<1>5. ASSUME NEW k \in Handler \ {h} PROVE pc'[k] = pc[k] /\ ctx'[k] = ctx[k]
  BY <1>2, <1>5 DEF IInv, TypeOK
<1>6. \/ pc'[h] = "idle"
      \/ pc'[h] = "readLead" /\ ctx'[h] = ctx[h] /\ approval'[r].decision = "approved"
  BY <1>1, <1>2, <1>3 DEF IInv, TypeOK
<1> QED
  BY <1>4, <1>5, <1>6 DEF DecisionsStand, Approved

\* A request that is filed is not one that anybody decides.
LEMMA DecisionsBeforeFiling ==
  ASSUME IInv, DecisionsStand, NEW r \in Request, approval[r].decision = "none",
         \A q \in Request : q # r => approval'[q] = approval[q],
         \A k \in Handler : ctx'[k] = ctx[k] /\ (pc'[k] = pc[k] \/ pc'[k] = "ready")
  PROVE  DecisionsStand'
<1>1. ASSUME NEW k \in Handler, pc[k] \in {"resolve", "readLead", "advance"}
      PROVE  approval'[ctx[k].req] = approval[ctx[k].req]
  BY <1>1 DEF DecisionsStand, Approved, IInv, HandlersReady
<1> QED
  BY <1>1 DEF DecisionsStand, Approved

\* Every step keeps it.
LEMMA StepDecisions ==
  ASSUME IInv, DecidedApart, DecisionsStand, [CrashNext]_vars
  PROVE  DecisionsStand'
<1>1. CASE UNCHANGED vars
  BY <1>1 DEF vars, DecisionsStand, Approved
<1>2. ASSUME NEW h \in Handler, RequestOutreach(h) PROVE DecisionsStand'
  <2> DEFINE r == ctx[h].req
  <2>1. r \in Request /\ approval[r].decision = "none"
    BY <1>2 DEF RequestOutreach, IInv, HandlersReady
  <2>2. \A q \in Request : q # r => approval'[q] = approval[q]
    BY <1>2 DEF RequestOutreach, CreateRequest, IInv, TypeOK
  <2>3. \A k \in Handler : ctx'[k] = ctx[k] /\ (pc'[k] = pc[k] \/ pc'[k] = "ready")
    BY <1>2 DEF RequestOutreach, Goto, IInv, TypeOK
  <2> HIDE DEF r
  <2> QED BY <2>1, <2>2, <2>3, DecisionsBeforeFiling
<1>3. ASSUME NEW h \in Handler, NEW l \in Lead, NEW r \in Request,
             NEW action \in ActionType, FileRequest(h, r, action, l)
      PROVE  DecisionsStand'
  <2>1. /\ approval[r].decision = "none" /\ UNCHANGED <<pc, ctx>>
        /\ \A q \in Request : q # r => approval'[q] = approval[q]
    BY <1>3 DEF FileRequest, Fresh, NoApproval, CreateRequest, IInv, TypeOK
  <2> QED BY <2>1, DecisionsBeforeFiling
<1>4. ASSUME NEW h \in Handler, UNCHANGED approval,
             pc'[h] \in {"resolve", "readLead", "advance"} =>
               \/ /\ ctx'[h].req = ctx[h].req
                  /\ pc[h] = "readLead" /\ pc'[h] = "advance"
               \/ approval[ctx'[h].req].decision = "pending" /\ pc'[h] = "resolve",
             \A k \in Handler \ {h} : pc'[k] = pc[k] /\ ctx'[k] = ctx[k]
      PROVE  DecisionsStand'
  BY <1>4 DEF DecisionsStand, Approved
<1>5. ASSUME NEW h \in Handler, OperatorBegin(h) PROVE DecisionsStand'
  <2>1. PICK r \in Request : /\ approval[r].decision = "pending" /\ UNCHANGED approval
                             /\ pc'[h] = "resolve" /\ ctx'[h].req = r
                             /\ \A k \in Handler \ {h} : pc'[k] = pc[k] /\ ctx'[k] = ctx[k]
    BY <1>5 DEF OperatorBegin, BeginResolve, Begin, Goto, tables, IInv, TypeOK
  <2> QED BY <1>4, <2>1
<1>6. ASSUME NEW h \in Handler, ReadLead(h) PROVE DecisionsStand'
  <2>1. /\ pc[h] = "readLead" /\ UNCHANGED approval
        /\ \/ pc'[h] = "idle"
           \/ pc'[h] = "advance" /\ ctx'[h].req = ctx[h].req
        /\ \A k \in Handler \ {h} : pc'[k] = pc[k] /\ ctx'[k] = ctx[k]
    BY <1>6 DEF ReadLead, Goto, Finish, tables, IInv, TypeOK, Context
  <2> QED BY <1>4, <2>1
<1>7. ASSUME NEW h \in Handler,
             \/ SaveContacted(h) \/ WriteTimeout(h) \/ Crash(h)
             \/ \E l \in Lead, r \in Request, auto \in BOOLEAN : BeginCadence(h, l, r, auto)
             \/ \E l \in Lead : BeginContact(h, l)
             \/ EndDraftsOnly(h) \/ SaveReady(h) \/ SaveContact(h) \/ LogContact(h)
      PROVE  DecisionsStand'
  <2>1. /\ UNCHANGED approval /\ pc'[h] \in {"idle", "draft", "contact", "log"}
        /\ \A k \in Handler \ {h} : pc'[k] = pc[k] /\ ctx'[k] = ctx[k]
    BY <1>7 DEF SaveContacted, WriteTimeout, Crash, BeginCadence, BeginContact,
                EndDraftsOnly, SaveReady, SaveContact, LogContact, Begin, Goto, Finish,
                tables, IInv, TypeOK
  <2> QED BY <1>4, <2>1
<1>8. ASSUME NEW h \in Handler, SaveDraft(h) PROVE DecisionsStand'
  BY <1>8 DEF SaveDraft, DecisionsStand, Approved
<1> QED
  BY <1>1, <1>2, <1>3, <1>5, <1>6, <1>7, <1>8, DecisionSaved
  DEF CrashNext, Next, Step, OperatorStep, OutboundBegin, OutboundStep

\* As long as no two handlers decide one request at once, a lead becomes
\* CONTACTED only on an approved request for it or by a recorded contact,
\* whether a button or a command advances it (_cmd_direct_resolve).
THEOREM AdvancesAreApproved == CrashSpec /\ []DecidedApart => AdvanceNeedsApproval
<1> DEFINE Gated == \A l \in Lead : BecomesContacted(l) => Covered(l)
<1>1. Init => DecisionsStand
  BY DEF Init, DecisionsStand
<1>2. CrashSpec /\ []DecidedApart => []DecisionsStand
  BY <1>1, Invariance, StepDecisions, PTL DEF CrashSpec
<1>3. IInv /\ DecisionsStand /\ [CrashNext]_vars => [Gated]_vars
  <2> SUFFICES ASSUME IInv, DecisionsStand, [CrashNext]_vars,
                      NEW l \in Lead, BecomesContacted(l)
               PROVE  Covered(l)
    OBVIOUS
  <2>1. PICK h \in Handler : SaveContacted(h) \/ SaveReady(h) \/ SaveContact(h)
    BY LeadWriters DEF BecomesContacted
  <2>2. CASE SaveContacted(h)
    BY <2>2, ApprovedAdvance DEF SaveContacted, DecisionsStand
  <2> QED BY <2>1, <2>2, OutboundAdvance
<1>4. CrashSpec /\ []DecidedApart => [][Gated]_vars
  BY <1>2, <1>3, Invariance, PTL DEF CrashSpec
<1> QED
  BY <1>4 DEF AdvanceNeedsApproval

-----------------------------------------------------------------------------
(***************************************************************************)
(* The handlers do to leads what LeadLifecycle says of them: reading the   *)
(* row is Progress, saving it SaveLead, and what ends them before, Dies.   *)
(***************************************************************************)
leadBar == [l \in Lead |-> [company |-> l, score |-> lead[l]]]
pcBar == [h \in Handler |-> IF Saving(h) THEN "save" ELSE "idle"]
ctxBar == [h \in Handler |-> IF Saving(h) THEN Held(h) ELSE NothingHeld]

\* What is requested for a lead stays so (create_request, resolve).
LEMMA TargetsStay ==
  ASSUME IInv, [CrashNext]_vars, NEW r \in Request, approval[r].decision # "none"
  PROVE  approval'[r].target = approval[r].target
<1>1. ASSUME NEW h \in Handler, ResolveRequest(h)
      PROVE  approval'[r].target = approval[r].target
  BY <1>1 DEF ResolveRequest, Resolve, IInv, TypeOK
<1>2. ASSUME NEW h \in Handler, RequestOutreach(h)
      PROVE  approval'[r] = approval[r]
  BY <1>2 DEF RequestOutreach, CreateRequest, IInv, TypeOK, HandlersReady
<1>3. ASSUME NEW h \in Handler, NEW l \in Lead, NEW q \in Request,
             NEW action \in ActionType, FileRequest(h, q, action, l)
      PROVE  approval'[r] = approval[r]
  BY <1>3 DEF FileRequest, Fresh, NoApproval, CreateRequest, IInv, TypeOK
<1> QED
  BY <1>1, <1>2, <1>3
  DEF vars, CrashNext, Next, OperatorBegin, BeginResolve, OutboundBegin, BeginCadence,
      BeginContact, Step, OperatorStep, ReadLead, SaveContacted, OutboundStep, SaveDraft,
      EndDraftsOnly, SaveReady, SaveContact, LogContact, WriteTimeout, Crash, tables

\* What a handler that does nothing will save stays the same.
LEMMA OthersHold ==
  ASSUME IInv, [CrashNext]_vars, NEW k \in Handler, pc'[k] = pc[k], ctx'[k] = ctx[k]
  PROVE  (Saving(k)' <=> Saving(k)) /\ (Saving(k) => Held(k)' = Held(k))
<1>1. (Saving(k)' <=> Saving(k))
  BY DEF Saving, Saves
<1>2. pc[k] = "advance" => approval'[ctx[k].req].target = approval[ctx[k].req].target
  BY TargetsStay DEF IInv, HandlersReady
<1>3. Held(k)' = Held(k)
  BY <1>2 DEF Held, SavedLead, Saves
<1> QED
  BY <1>1, <1>3

\* One handler's part of the mapping.
LEMMA OneHandlerMoves ==
  ASSUME IInv, [CrashNext]_vars, NEW h \in Handler,
         \A k \in Handler \ {h} : pc'[k] = pc[k] /\ ctx'[k] = ctx[k]
  PROVE  /\ Saving(h)' => /\ pcBar' = [pcBar EXCEPT ![h] = "save"]
                          /\ ctxBar' = [ctxBar EXCEPT ![h] = Held(h)']
         /\ ~Saving(h)' => /\ pcBar' = [pcBar EXCEPT ![h] = "idle"]
                           /\ ctxBar' = [ctxBar EXCEPT ![h] = NothingHeld]
<1>1. \A k \in Handler \ {h} : (Saving(k)' <=> Saving(k)) /\ (Saving(k) => Held(k)' = Held(k))
  BY OthersHold
<1>2. \A k \in Handler \ {h} : pcBar'[k] = pcBar[k] /\ ctxBar'[k] = ctxBar[k]
  BY <1>1 DEF pcBar, ctxBar, NothingHeld, NoRow
<1>3. /\ pcBar'[h] = IF Saving(h)' THEN "save" ELSE "idle"
      /\ ctxBar'[h] = IF Saving(h)' THEN Held(h)' ELSE NothingHeld
  BY DEF pcBar, ctxBar, NothingHeld, NoRow
<1>4. /\ pcBar = [k \in Handler |-> pcBar[k]] /\ ctxBar = [k \in Handler |-> ctxBar[k]]
      /\ pcBar' = [k \in Handler |-> pcBar'[k]] /\ ctxBar' = [k \in Handler |-> ctxBar'[k]]
  BY DEF pcBar, ctxBar
<1> HIDE DEF pcBar, ctxBar
<1> QED
  BY <1>2, <1>3, <1>4

\* Reading a lead, to save it with another status.
LEMMA LifeBegins ==
  ASSUME IInv, [CrashNext]_vars, NEW h \in Handler, ~Saving(h), Saving(h)', UNCHANGED lead,
         \A k \in Handler \ {h} : pc'[k] = pc[k] /\ ctx'[k] = ctx[k],
         NEW l \in Lead, NEW status,
         Held(h)' = [lead |-> l, company |-> l,
                     score |-> [status |-> status, bucket |-> lead[l].bucket],
                     from |-> "row", next |-> "idle"]
  PROVE  Life!Progress(h, l, status)
<1>1. /\ pcBar[h] = "idle"
      /\ leadBar[l].company = l /\ leadBar[l].score = lead[l] /\ l # NoLead
  BY NoneAreDistinct DEF pcBar, leadBar
<1>2. /\ pcBar' = [pcBar EXCEPT ![h] = "save"]
      /\ ctxBar' = [ctxBar EXCEPT ![h] = Held(h)']
      /\ leadBar' = leadBar
  BY OneHandlerMoves DEF leadBar
<1> QED
  BY <1>1, <1>2 DEF Life!Progress, Life!Exists, Life!Plan, Life!Goto, Life!Sc, Life!logs,
                    pcBar, ctxBar, leadBar

\* Saving it.
LEMMA LifeSaves ==
  ASSUME IInv, [CrashNext]_vars, NEW h \in Handler, Saving(h), ~Saving(h)',
         \A k \in Handler \ {h} : pc'[k] = pc[k] /\ ctx'[k] = ctx[k],
         NEW l \in Lead, SavedLead(h) = l, NEW row, lead' = [lead EXCEPT ![l] = row],
         row = [status |-> Saves[pc[h]], bucket |-> ctx[h].copy.bucket]
  PROVE  Life!SaveLead(h)
<1>1. pcBar[h] = "save" /\ ctxBar[h] = Held(h)
  BY DEF pcBar, ctxBar
<1>2. /\ Held(h).lead = l /\ Held(h).company = l /\ Held(h).score = row
      /\ Held(h).from = "row" /\ Held(h).next = "idle"
  BY DEF Held
<1>3. pcBar' = [pcBar EXCEPT ![h] = "idle"] /\ ctxBar' = [ctxBar EXCEPT ![h] = NothingHeld]
  BY OneHandlerMoves
<1>4. leadBar' = [leadBar EXCEPT ![l] = [company |-> l, score |-> row]]
  BY DEF leadBar, IInv, TypeOK
<1>5. NothingHeld = Life!NoContext
  BY DEF NothingHeld, NoRow, Life!NoContext, Life!At, Life!Sc
<1> HIDE DEF Held
<1> QED
  BY <1>1, <1>2, <1>3, <1>4, <1>5
  DEF Life!SaveLead, Life!StoreLead, Life!Finish, Life!Goto, Life!logs, pcBar, ctxBar, leadBar

\* Ending without saving it.
LEMMA LifeEnds ==
  ASSUME IInv, [CrashNext]_vars, NEW h \in Handler, Saving(h), ~Saving(h)', UNCHANGED lead,
         \A k \in Handler \ {h} : pc'[k] = pc[k] /\ ctx'[k] = ctx[k]
  PROVE  Life!Dies(h)
<1>1. pcBar[h] = "save" /\ leadBar' = leadBar
  BY DEF pcBar, leadBar
<1>2. pcBar' = [pcBar EXCEPT ![h] = "idle"] /\ ctxBar' = [ctxBar EXCEPT ![h] = NothingHeld]
  BY OneHandlerMoves
<1>3. NothingHeld = Life!NoContext
  BY DEF NothingHeld, NoRow, Life!NoContext, Life!At, Life!Sc
<1> QED
  BY <1>1, <1>2, <1>3 DEF Life!Dies, Life!Finish, Life!Goto, Life!logs, pcBar, ctxBar, leadBar

\* What leads do not notice.
LEMMA LifeStutters ==
  ASSUME IInv, [CrashNext]_vars, NEW h \in Handler, UNCHANGED lead,
         \A k \in Handler \ {h} : pc'[k] = pc[k] /\ ctx'[k] = ctx[k],
         (Saving(h)' <=> Saving(h)) /\ (Saving(h) => Held(h)' = Held(h))
  PROVE  UNCHANGED Life!vars
<1>1. leadBar' = leadBar
  BY DEF leadBar
<1>2. \A k \in Handler : (Saving(k)' <=> Saving(k)) /\ (Saving(k) => Held(k)' = Held(k))
  BY OthersHold
<1>3. pcBar' = pcBar /\ ctxBar' = ctxBar
  BY <1>2 DEF pcBar, ctxBar, NothingHeld, NoRow
<1> QED
  BY <1>1, <1>3 DEF Life!vars, Life!logs, leadBar, pcBar, ctxBar

\* What an operator's step is to the leads.
LEMMA OperatorLeadStep ==
  ASSUME IInv, [CrashNext]_vars, NEW h \in Handler, OperatorBegin(h) \/ OperatorStep(h)
  PROVE  UNCHANGED Life!vars \/ LeadStep(h)
<1> DEFINE Apart == \A k \in Handler \ {h} : pc'[k] = pc[k] /\ ctx'[k] = ctx[k]
<1>1. CASE OperatorBegin(h) \/ ResolveRequest(h)
  <2>1. /\ Apart /\ UNCHANGED lead
        /\ pc[h] \in {"idle", "resolve"} /\ pc'[h] \in {"resolve", "readLead", "idle"}
    BY <1>1 DEF OperatorBegin, BeginResolve, ResolveRequest, Begin, Goto, Finish, tables,
                IInv, TypeOK
  <2>2. ~Saving(h) /\ ~Saving(h)'
    BY <2>1 DEF Saving, Saves
  <2> QED BY <2>1, <2>2, LifeStutters
<1>2. CASE ReadLead(h)
  <2> DEFINE l == approval[ctx[h].req].target
  <2>1. Apart /\ UNCHANGED <<lead, approval>> /\ pc[h] = "readLead"
    BY <1>2 DEF ReadLead, Goto, Finish, tables, IInv, TypeOK
  <2>2. l \in Lead /\ ~Saving(h)
    BY <2>1 DEF IInv, HandlersReady, RequestsFiled, TypeOK, Saving, Saves
  <2>3. CASE pc'[h] = "idle"
    <3>1. ~Saving(h)'
      BY <2>3 DEF Saving, Saves
    <3> QED BY <2>1, <2>2, <3>1, LifeStutters
  <2>4. CASE pc'[h] # "idle"
    <3>1. /\ lead[l].status = "outreach_ready" /\ pc'[h] = "advance"
          /\ ctx'[h].req = ctx[h].req /\ ctx'[h].copy = lead[l]
      BY <1>2, <2>4 DEF ReadLead, Goto, Finish, IInv, TypeOK, Context
    <3>2. /\ Saving(h)'
          /\ Held(h)' = [lead |-> l, company |-> l,
                         score |-> [status |-> "contacted", bucket |-> lead[l].bucket],
                         from |-> "row", next |-> "idle"]
      BY <2>1, <3>1 DEF Saving, Saves, Held, SavedLead
    <3> HIDE DEF l
    <3>3. Life!Progress(h, l, "contacted")
      BY <2>1, <2>2, <3>2, LifeBegins
    <3>4. Life!AdvanceApproved(h, l)
      BY <2>2, <3>1, <3>3 DEF Life!AdvanceApproved
    <3> QED BY <2>2, <3>4 DEF LeadStep
  <2> QED BY <2>3, <2>4
<1>3. CASE SaveContacted(h)
  <2> DEFINE l == approval[ctx[h].req].target
             row == [ctx[h].copy EXCEPT !.status = "contacted"]
  <2>1. Apart /\ pc[h] = "advance" /\ pc'[h] = "idle" /\ l \in Lead
    BY <1>3 DEF SaveContacted, Finish, Goto, IInv, TypeOK, HandlersReady, RequestsFiled
  <2>2. Saving(h) /\ ~Saving(h)' /\ SavedLead(h) = l
    BY <2>1 DEF Saving, Saves, SavedLead
  <2>3. row = [status |-> Saves[pc[h]], bucket |-> ctx[h].copy.bucket]
    BY <2>1 DEF Saves, IInv, TypeOK, Context, LeadRow
  <2>4. lead' = [lead EXCEPT ![l] = row]
    BY <1>3 DEF SaveContacted, SaveLead
  <2> HIDE DEF l, row
  <2> QED BY <2>1, <2>2, <2>3, <2>4, LifeSaves DEF LeadStep
<1> QED
  BY <1>1, <1>2, <1>3 DEF OperatorStep

\* What the outbound engine's beginning of something is to the leads.
LEMMA OutboundLeadBegin ==
  ASSUME IInv, [CrashNext]_vars, NEW h \in Handler, OutboundBegin(h)
  PROVE  UNCHANGED Life!vars \/ LeadStep(h)
<1> DEFINE Apart == \A k \in Handler \ {h} : pc'[k] = pc[k] /\ ctx'[k] = ctx[k]
<1>1. ASSUME NEW l \in Lead, NEW r \in Request, NEW auto \in BOOLEAN,
             BeginCadence(h, l, r, auto)
      PROVE  LeadStep(h)
  <2>1. /\ Apart /\ UNCHANGED lead /\ pc[h] = "idle" /\ pc'[h] = "draft"
        /\ ctx'[h].lead = l /\ ctx'[h].copy = lead[l]
    BY <1>1 DEF BeginCadence, Begin, Goto, tables, IInv, TypeOK
  <2>2. /\ ~Saving(h) /\ Saving(h)'
        /\ Held(h)' = [lead |-> l, company |-> l,
                       score |-> [status |-> "outreach_ready", bucket |-> lead[l].bucket],
                       from |-> "row", next |-> "idle"]
    BY <2>1 DEF Saving, Saves, Held, SavedLead
  <2>3. Life!GenerateCadence(h, l)
    BY <2>1, <2>2, LifeBegins DEF Life!GenerateCadence
  <2> QED BY <2>3 DEF LeadStep
<1>2. ASSUME NEW l \in Lead, BeginContact(h, l) PROVE LeadStep(h)
  <2>1. /\ Apart /\ UNCHANGED lead /\ pc[h] = "idle" /\ pc'[h] = "contact"
        /\ ctx'[h].lead = l /\ ctx'[h].copy = lead[l]
    BY <1>2 DEF BeginContact, Begin, Goto, tables, IInv, TypeOK
  <2>2. /\ ~Saving(h) /\ Saving(h)'
        /\ Held(h)' = [lead |-> l, company |-> l,
                       score |-> [status |-> "contacted", bucket |-> lead[l].bucket],
                       from |-> "row", next |-> "idle"]
    BY <2>1 DEF Saving, Saves, Held, SavedLead
  <2>3. Life!RecordContact(h, l)
    BY <2>1, <2>2, LifeBegins DEF Life!RecordContact
  <2> QED BY <2>3 DEF LeadStep
<1>3. ASSUME NEW l \in Lead, NEW r \in Request, NEW action \in ActionType,
             FileRequest(h, r, action, l)
      PROVE  UNCHANGED Life!vars
  <2>1. UNCHANGED <<lead, pc, ctx>>
    BY <1>3 DEF FileRequest
  <2> QED BY <2>1, OthersHold, LifeStutters
<1> QED
  BY <1>1, <1>2, <1>3 DEF OutboundBegin

\* What the engine's steps, a timeout or a crash are to the leads.
LEMMA OutboundLeadStep ==
  ASSUME IInv, [CrashNext]_vars, NEW h \in Handler,
         OutboundStep(h) \/ WriteTimeout(h) \/ Crash(h)
  PROVE  UNCHANGED Life!vars \/ LeadStep(h)
<1> DEFINE Apart == \A k \in Handler \ {h} : pc'[k] = pc[k] /\ ctx'[k] = ctx[k]
<1>1. CASE SaveDraft(h)
  <2>1. UNCHANGED <<lead, pc, ctx>>
    BY <1>1 DEF SaveDraft
  <2> QED BY <2>1, OthersHold, LifeStutters
<1>2. CASE RequestOutreach(h)
  <2>1. Apart /\ UNCHANGED <<lead, ctx>> /\ pc[h] = "draft" /\ pc'[h] = "ready"
    BY <1>2 DEF RequestOutreach, Goto, IInv, TypeOK
  <2>2. (Saving(h)' <=> Saving(h)) /\ Held(h)' = Held(h)
    BY <2>1 DEF Saving, Saves, Held, SavedLead
  <2> QED BY <2>1, <2>2, LifeStutters
<1>3. CASE EndDraftsOnly(h) \/ WriteTimeout(h) \/ Crash(h) \/ LogContact(h)
  <2>1. Apart /\ UNCHANGED lead /\ pc'[h] = "idle"
    BY <1>3 DEF EndDraftsOnly, WriteTimeout, Crash, LogContact, Finish, Goto, tables,
                IInv, TypeOK
  <2>2. ~Saving(h)'
    BY <2>1 DEF Saving, Saves
  <2>3. CASE Saving(h)
    BY <2>1, <2>2, <2>3, LifeEnds DEF LeadStep
  <2>4. CASE ~Saving(h)
    BY <2>1, <2>2, <2>4, LifeStutters
  <2> QED BY <2>3, <2>4
<1>4. CASE SaveReady(h)
  <2> DEFINE l == ctx[h].lead
             row == [ctx[h].copy EXCEPT !.status = "outreach_ready"]
  <2>1. Apart /\ pc[h] = "ready" /\ pc'[h] = "idle" /\ l \in Lead
    BY <1>4 DEF SaveReady, Finish, Goto, IInv, TypeOK, HandlersReady
  <2>2. Saving(h) /\ ~Saving(h)' /\ SavedLead(h) = l
    BY <2>1 DEF Saving, Saves, SavedLead
  <2>3. row = [status |-> Saves[pc[h]], bucket |-> ctx[h].copy.bucket]
    BY <2>1 DEF Saves, IInv, TypeOK, Context, LeadRow
  <2>4. lead' = [lead EXCEPT ![l] = row]
    BY <1>4 DEF SaveReady, SaveLead
  <2> HIDE DEF l, row
  <2> QED BY <2>1, <2>2, <2>3, <2>4, LifeSaves DEF LeadStep
<1>5. CASE SaveContact(h)
  <2> DEFINE l == ctx[h].lead
             row == [ctx[h].copy EXCEPT !.status = "contacted"]
  <2>1. Apart /\ pc[h] = "contact" /\ pc'[h] = "log" /\ l \in Lead
    BY <1>5 DEF SaveContact, Goto, IInv, TypeOK, HandlersReady
  <2>2. Saving(h) /\ ~Saving(h)' /\ SavedLead(h) = l
    BY <2>1 DEF Saving, Saves, SavedLead
  <2>3. row = [status |-> Saves[pc[h]], bucket |-> ctx[h].copy.bucket]
    BY <2>1 DEF Saves, IInv, TypeOK, Context, LeadRow
  <2>4. lead' = [lead EXCEPT ![l] = row]
    BY <1>5 DEF SaveContact, SaveLead
  <2> HIDE DEF l, row
  <2> QED BY <2>1, <2>2, <2>3, <2>4, LifeSaves DEF LeadStep
<1> QED
  BY <1>1, <1>2, <1>3, <1>4, <1>5 DEF OutboundStep

\* Whatever overlaps, times out or dies, operators and cadences do to leads
\* only what LeadLifecycle lets them (generate_cadence, handle_callback,
\* _cmd_direct_resolve, record_contact_attempt).
THEOREM OutreachFollowsLifecycle == CrashSpec => LeadsFollowLifecycle
<1> DEFINE Follows == UNCHANGED Life!vars \/ \E h \in Handler : LeadStep(h)
<1>1. IInv /\ [CrashNext]_vars => [Follows]_vars
  <2> SUFFICES ASSUME IInv, [CrashNext]_vars, vars' # vars PROVE Follows
    OBVIOUS
  <2> QED
    BY OperatorLeadStep, OutboundLeadBegin, OutboundLeadStep DEF CrashNext, Next, Step
<1>2. CrashSpec => [][Follows]_vars
  BY <1>1, Invariance, PTL DEF CrashSpec
<1> QED
  BY <1>2 DEF LeadsFollowLifecycle
=============================================================================
