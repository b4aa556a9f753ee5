-------------------------- MODULE TelegramOperator --------------------------
(***************************************************************************)
(* TelegramOperatorService: an admin decides a pending approval, with a    *)
(* button of the approval card (handle_callback) or with /approve and      *)
(* /reject (_cmd_direct_resolve).  Both read the approval, resolve it, and *)
(* for an approved outreach advance the lead to CONTACTED; the command     *)
(* ignores what resolve returned.                                          *)
(***************************************************************************)
EXTENDS MarketingStore

CONSTANTS
  Interface,   \* the interfaces in use, a subset of Via
  Chat,        \* chats an update may come from
  AdminChat,   \* TelegramOperatorConfig.admin_chat_ids; empty: any chat
  NoChat       \* an update that names no chat
ASSUME InterfaceIsVia == Interface \subseteq Via

IsAuthorized(u, chat) == /\ u \in AdminUser
                         /\ chat # NoChat /\ AdminChat # {} => chat \in AdminChat

\* The keyboard offers three decisions, the commands two.  That the parser of
\* callbacks knows "pending" as well is left out: no keyboard has it.
Offered(via) == IF via = "button" THEN Verdict ELSE {"approved", "rejected"}

\* The handler has read a pending row; any other row ends it with a notice.
BeginResolve(h, u, chat, r, via, verdict) ==
  /\ IsAuthorized(u, chat)
  /\ verdict \in Offered(via)
  /\ approval[r].decision = "pending"
  /\ Begin(h, "resolve",
           [req |-> r, want |-> verdict, via |-> via, user |-> u,
            lead |-> NoLead, copy |-> NoRow, auto |-> FALSE])
  /\ UNCHANGED <<tables, writer>>

\* An approved outreach_send on a lead goes on to the lead.
Advances(h) == /\ ctx[h].want = "approved"
               /\ approval[ctx[h].req].action = "outreach_send"

\* Mutant of GoesOn: the button ignores what resolve returned, too.
GoesOnRegardless(h, won) == Advances(h)

GoesOn(h, won) == Advances(h) /\ (won \/ ctx[h].via = "command")

ResolveRequest(h) ==
  LET c == ctx[h]
      won == approval[c.req].decision = "pending"
  IN  /\ pc[h] = "resolve"
      /\ Resolve(h, c.req, c.want, c.user)
      /\ \/ GoesOn(h, won) /\ Goto(h, "readLead") /\ UNCHANGED ctx
         \/ ~GoesOn(h, won) /\ Finish(h)
      /\ UNCHANGED <<lead, draft, logged>>

ReadLead(h) ==
  LET l == approval[ctx[h].req].target
  IN  /\ pc[h] = "readLead"
      /\ \/ /\ lead[l].status = "outreach_ready"
            /\ Goto(h, "advance")
            /\ ctx' = [ctx EXCEPT ![h].copy = lead[l]]
         \/ /\ lead[l].status # "outreach_ready"
            /\ Finish(h)
      /\ UNCHANGED <<tables, writer>>

\* Mutant of SaveContacted: the lead is saved before its status is set.
SaveUnchanged(h) ==
  /\ pc[h] = "advance"
  /\ SaveLead(h, approval[ctx[h].req].target, ctx[h].copy)
  /\ Finish(h)
  /\ UNCHANGED <<approval, draft, logged>>

SaveContacted(h) ==
  /\ pc[h] = "advance"
  /\ SaveLead(h, approval[ctx[h].req].target,
              [ctx[h].copy EXCEPT !.status = "contacted"])
  /\ Finish(h)
  /\ UNCHANGED <<approval, draft, logged>>

OperatorStep(h) == ResolveRequest(h) \/ ReadLead(h) \/ SaveContacted(h)

OperatorBegin(h) ==
  \E u \in User, chat \in Chat \cup {NoChat}, r \in Request,
     via \in Interface, verdict \in Verdict :
    BeginResolve(h, u, chat, r, via, verdict)
=============================================================================
