--------------------------- MODULE OutboundEngine ---------------------------
(***************************************************************************)
(* OutboundEngine: generate_cadence drafts three messages for a lead, asks *)
(* for approval and marks the lead OUTREACH_READY; record_contact_attempt  *)
(* records that a founder contacted the lead by hand.  Also the tool       *)
(* request_approval, which files a request without drafts.                 *)
(***************************************************************************)
EXTENDS MarketingStore

\* A domain tool opens a Database of its own; the bot, which runs cadences
\* too, keeps one connection, and with it a transaction left open.
OwnConnection(h) == writer # h

\* get_lead; the row stays in the handler until it is saved back at the end.
BeginCadence(h, l, r, auto) ==
  /\ Fresh(r)
  /\ Begin(h, "draft",
           [req |-> r, want |-> "none", via |-> "button", user |-> NoUser,
            lead |-> l, copy |-> lead[l], auto |-> auto])
  /\ UNCHANGED <<tables, writer>>

\* Mutant of SaveDraft: the loop over the touches does not stop.
SaveDraftForever(h) ==
  LET r == ctx[h].req
  IN  /\ pc[h] = "draft"
      /\ Commit(h)
      /\ draft' = [draft EXCEPT ![r] = @ + 1]
      /\ UNCHANGED <<lead, approval, logged, pc, ctx>>

SaveDraft(h) ==
  LET r == ctx[h].req
  IN  /\ pc[h] = "draft"
      /\ draft[r] < Touches
      /\ Commit(h)
      /\ draft' = [draft EXCEPT ![r] = @ + 1]
      /\ UNCHANGED <<lead, approval, logged, pc, ctx>>

\* Mutant of RequestOutreach: approval is asked for before the drafts are saved.
RequestEarly(h) ==
  /\ pc[h] = "draft"
  /\ ctx[h].auto
  /\ CreateRequest(h, ctx[h].req, "outreach_send", ctx[h].lead)
  /\ Goto(h, "ready")
  /\ UNCHANGED <<lead, draft, logged, ctx>>

RequestOutreach(h) ==
  /\ pc[h] = "draft"
  /\ draft[ctx[h].req] = Touches
  /\ ctx[h].auto
  /\ CreateRequest(h, ctx[h].req, "outreach_send", ctx[h].lead)
  /\ Goto(h, "ready")
  /\ UNCHANGED <<lead, draft, logged, ctx>>

\* Mutant of EndDraftsOnly: the lead is marked ready without a request, too.
ReadyAnyway(h) ==
  /\ pc[h] = "draft"
  /\ draft[ctx[h].req] = Touches
  /\ ~ctx[h].auto
  /\ Goto(h, "ready")
  /\ UNCHANGED <<tables, writer, ctx>>

EndDraftsOnly(h) ==
  /\ pc[h] = "draft"
  /\ draft[ctx[h].req] = Touches
  /\ ~ctx[h].auto
  /\ Finish(h)
  /\ UNCHANGED <<tables, writer>>

SaveReady(h) ==
  /\ pc[h] = "ready"
  /\ SaveLead(h, ctx[h].lead, [ctx[h].copy EXCEPT !.status = "outreach_ready"])
  /\ Finish(h)
  /\ UNCHANGED <<approval, draft, logged>>

BeginContact(h, l) ==
  /\ OwnConnection(h)
  /\ Begin(h, "contact",
           [req |-> NoRequest, want |-> "none", via |-> "button", user |-> NoUser,
            lead |-> l, copy |-> lead[l], auto |-> FALSE])
  /\ UNCHANGED <<tables, writer>>

SaveContact(h) ==
  /\ pc[h] = "contact"
  /\ SaveLead(h, ctx[h].lead, [ctx[h].copy EXCEPT !.status = "contacted"])
  /\ Goto(h, "log")
  /\ UNCHANGED <<approval, draft, logged, ctx>>

LogContact(h) ==
  /\ pc[h] = "log"
  /\ Commit(h)
  /\ logged' = logged \cup {ctx[h].lead}
  /\ Finish(h)
  /\ UNCHANGED <<lead, approval, draft>>

\* request_approval: one insert, nothing read first.
FileRequest(h, r, action, l) ==
  /\ pc[h] = "idle"
  /\ OwnConnection(h)
  /\ Fresh(r)
  /\ CreateRequest(h, r, action, l)
  /\ UNCHANGED <<lead, draft, logged, pc, ctx>>

OutboundStep(h) == \/ SaveDraft(h) \/ RequestOutreach(h) \/ EndDraftsOnly(h)
                   \/ SaveReady(h) \/ SaveContact(h) \/ LogContact(h)

OutboundBegin(h) ==
  \/ \E l \in Lead, r \in Request, auto \in BOOLEAN : BeginCadence(h, l, r, auto)
  \/ \E l \in Lead : BeginContact(h, l)
  \/ \E l \in Lead, r \in Request, action \in ActionType : FileRequest(h, r, action, l)
=============================================================================
