--------------------------- MODULE MarketingStore ---------------------------
(***************************************************************************)
(* The part of marketing.db that leads and approvals live in, and the      *)
(* handlers (an operator's button or command, a domain tool) that work on  *)
(* it.  A handler owns one SQLite connection.  Every repository operation  *)
(* commits on its own, so a handler is a sequence of atomic steps, between *)
(* which any other handler may run; what it read earlier it keeps in ctx.  *)
(***************************************************************************)
EXTENDS Naturals, FiniteSets

CONSTANTS
  Lead,       \* lead identifiers
  Request,    \* approval identifiers (fresh uuids, each used at most once)
  Handler,    \* connections that may be in the middle of an operation
  User,       \* accounts that talk to the bot
  AdminUser,  \* TelegramOperatorConfig.admin_user_ids
  NoLead, NoRequest, NoHandler, NoUser

ASSUME AdminsAreUsers == AdminUser \subseteq User
ASSUME NoneAreDistinct ==
  /\ NoLead \notin Lead /\ NoRequest \notin Request
  /\ NoHandler \notin Handler /\ NoUser \notin User

VARIABLES
  lead,      \* table leads
  approval,  \* table approvals
  draft,     \* table interactions: drafts saved for the cadence of a request
  logged,    \* table interactions: leads with a human contact on record
  writer,    \* the connection inside an open write transaction, if any
  pc,        \* where each handler is
  ctx        \* what each handler was asked to do and has read so far

tables == <<lead, approval, draft, logged>>
vars == <<lead, approval, draft, logged, writer, pc, ctx>>

(***************************************************************************)
(* Rows.  Only the statuses some code assigns; a bucket is the priority,   *)
(* 1 the highest.  A request with decision "none" has no row yet.          *)
(***************************************************************************)
Status == {"discovered", "qualified", "rejected", "outreach_ready", "contacted"}
LeadRow == [status : Status, bucket : 1..3]

Verdict == {"approved", "rejected", "rewrite_requested"}
Decision == Verdict \cup {"none", "pending"}
ActionType == {"outreach_send", "outreach_reply"}
ApprovalRow == [action   : ActionType \cup {"none"},
                target   : Lead \cup {NoLead},
                decision : Decision,
                actor    : User \cup {NoUser}]
NoApproval ==
  [action |-> "none", target |-> NoLead, decision |-> "none", actor |-> NoUser]

Touches == 3    \* messages of a cadence

\* A lead starts as the scanner (discovered, bucket 3) or the intake
\* service (qualified, bucket 1 for a B2B inquiry) creates it.
NewLeadRow == { [status |-> "discovered", bucket |-> 3],
                [status |-> "qualified",  bucket |-> 1] }

-----------------------------------------------------------------------------
(***************************************************************************)
(* Handlers.                                                               *)
(***************************************************************************)
Via == {"button", "command"}
Context == [req  : Request \cup {NoRequest},
            want : Decision,
            via  : Via,
            user : User \cup {NoUser},
            lead : Lead \cup {NoLead},
            copy : LeadRow,
            auto : BOOLEAN]
NoRow == [status |-> "discovered", bucket |-> 3]
NoContext == [req |-> NoRequest, want |-> "none", via |-> "button", user |-> NoUser,
              lead |-> NoLead, copy |-> NoRow, auto |-> FALSE]

WriteStep == {"resolve", "advance", "draft", "ready", "contact", "log"}
Label == WriteStep \cup {"idle", "readLead"}

Goto(h, label) == pc' = [pc EXCEPT ![h] = label]
Begin(h, label, c) == /\ pc[h] = "idle"
                      /\ Goto(h, label)
                      /\ ctx' = [ctx EXCEPT ![h] = c]
Finish(h) == /\ Goto(h, "idle")
             /\ ctx' = [ctx EXCEPT ![h] = NoContext]

(***************************************************************************)
(* SQLite lets one connection at a time hold a write transaction.  A write *)
(* that commits takes and gives back the lock in one step.                 *)
(***************************************************************************)
CanWrite(h) == writer \in {h, NoHandler}
Commit(h) == CanWrite(h) /\ writer' = NoHandler

\* save_lead writes the whole row the handler holds, whatever is stored now.
SaveLead(h, l, row) == /\ Commit(h)
                       /\ lead' = [lead EXCEPT ![l] = row]

\* create_request inserts a pending row under a fresh identifier.
CreateRequest(h, r, action, l) ==
  /\ Commit(h)
  /\ approval' = [approval EXCEPT ![r] =
       [action |-> action, target |-> l, decision |-> "pending", actor |-> NoUser]]

\* Mutant of Resolve: the UPDATE lost its AND decision = 'pending'.
ResolveAnyway(h, r, verdict, user) ==
  /\ Commit(h)
  /\ approval' = [approval EXCEPT ![r] =
       [action |-> @.action, target |-> @.target, decision |-> verdict, actor |-> user]]

\* resolve updates the row only WHERE decision = 'pending', and commits only
\* when a row was updated: otherwise the implicit transaction stays open.
Resolve(h, r, verdict, user) ==
  /\ CanWrite(h)
  /\ IF approval[r].decision = "pending"
     THEN /\ approval' = [approval EXCEPT ![r] =
               [action |-> @.action, target |-> @.target,
                decision |-> verdict, actor |-> user]]
          /\ writer' = NoHandler
     ELSE /\ writer' = h
          /\ UNCHANGED approval

Fresh(r) == /\ approval[r] = NoApproval
            /\ draft[r] = 0
            /\ \A h \in Handler : ctx[h].req # r

Init == /\ lead \in [Lead -> NewLeadRow]
        /\ approval = [r \in Request |-> NoApproval]
        /\ draft = [r \in Request |-> 0]
        /\ logged = {}
        /\ writer = NoHandler
        /\ pc = [h \in Handler |-> "idle"]
        /\ ctx = [h \in Handler |-> NoContext]

\* Mutant of WriteTimeout: no busy_timeout, a writer waits as long as it takes.
NoTimeout(h) == FALSE

(***************************************************************************)
(* A write that finds the lock taken raises "database is locked" after     *)
(* busy_timeout, which ends the handler.  A process may die at any point;  *)
(* its connection then gives up an open transaction.                       *)
(***************************************************************************)
WriteTimeout(h) == /\ pc[h] \in WriteStep
                   /\ ~CanWrite(h)
                   /\ Finish(h)
                   /\ UNCHANGED <<tables, writer>>

Crash(h) == /\ pc[h] # "idle" \/ writer = h
            /\ Finish(h)
            /\ writer' = IF writer = h THEN NoHandler ELSE writer
            /\ UNCHANGED tables

TypeOK == /\ lead \in [Lead -> LeadRow]
          /\ approval \in [Request -> ApprovalRow]
          /\ draft \in [Request -> 0..Touches]
          /\ logged \subseteq Lead
          /\ writer \in Handler \cup {NoHandler}
          /\ pc \in [Handler -> Label]
          /\ ctx \in [Handler -> Context]
=============================================================================
