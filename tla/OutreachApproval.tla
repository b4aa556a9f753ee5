-------------------------- MODULE OutreachApproval --------------------------
(***************************************************************************)
(* Operators and the outbound engine at work on one store: what the        *)
(* approval gate guarantees while handlers interleave, time out and die.   *)
(***************************************************************************)
EXTENDS TelegramOperator, OutboundEngine

Step(h) == OperatorStep(h) \/ OutboundStep(h) \/ WriteTimeout(h)

Next == \E h \in Handler : OperatorBegin(h) \/ OutboundBegin(h) \/ Step(h)

Spec == Init /\ [][Next]_vars

\* With processes that may die.
CrashNext == Next \/ \E h \in Handler : Crash(h)
CrashSpec == Init /\ [][CrashNext]_vars

\* A running handler is straight-line code: it goes on unless its process
\* dies, and a write that waits for the lock ends in a timeout.  Nobody has
\* to start an operation, and nobody has to die.
Progress == \A h \in Handler : WF_vars(Step(h))
FairSpec == Spec /\ Progress
FairCrashSpec == CrashSpec /\ Progress

-----------------------------------------------------------------------------
SentFor(l) == {r \in Request : /\ approval[r].action = "outreach_send"
                               /\ approval[r].target = l}
Approved(r) == approval[r].decision = "approved"

\* The table seen as the abstract gate.
Gate == INSTANCE ApprovalGate
          WITH decision <- [r \in Request |-> approval[r].decision],
               decider <- [r \in Request |-> approval[r].actor]

\* Whatever operators, tools, timeouts and crashes do, each request is filed
\* once, decided at most once, by an administrator, and never changes again
\* (ApprovalRepository.resolve, is_authorized).
GateHolds == Gate!Spec

\* The handlers seen from the lead: whoever read a row and will save it, and
\* what will be saved; nothing is scored or rejected here.
Saves == [draft |-> "outreach_ready", ready |-> "outreach_ready",
          advance |-> "contacted", contact |-> "contacted"]
Saving(h) == pc[h] \in DOMAIN Saves
SavedLead(h) == IF pc[h] = "advance" THEN approval[ctx[h].req].target ELSE ctx[h].lead
Held(h) == [lead |-> SavedLead(h), company |-> SavedLead(h),
            score |-> [status |-> Saves[pc[h]], bucket |-> ctx[h].copy.bucket],
            from |-> "row", next |-> "idle"]
NothingHeld == [lead |-> NoLead, company |-> NoLead, score |-> NoRow,
                from |-> "row", next |-> "idle"]

\* Each lead as the only one of its company, all of them vetted before.
Life == INSTANCE LeadLifecycle
          WITH Company <- Lead, Own <- [l \in Lead |-> l], NoCompany <- NoLead,
               BaselineBucket <- {2, 3},
               lead <- [l \in Lead |-> [company |-> l, score |-> lead[l]]],
               tainted <- {}, violations <- {}, vetted <- Lead,
               pc <- [h \in Handler |-> IF Saving(h) THEN "save" ELSE "idle"],
               ctx <- [h \in Handler |-> IF Saving(h) THEN Held(h) ELSE NothingHeld]

\* Cadences, approved outreach and recorded contacts do to leads what
\* LeadLifecycle says of them, wherever they time out or die: they save the row
\* they read with another status, in the bucket it was earned in
\* (generate_cadence, handle_callback, record_contact_attempt).
LeadStep(h) == \/ \E l \in Lead : \/ Life!GenerateCadence(h, l) \/ Life!RecordContact(h, l)
                                  \/ Life!AdvanceApproved(h, l)
               \/ Life!SaveLead(h) \/ Life!Dies(h)
LeadsFollowLifecycle ==
  [][UNCHANGED Life!vars \/ \E h \in Handler : LeadStep(h)]_vars

Covered(l) == \/ \E r \in SentFor(l) : Approved(r)
              \/ \E h \in Handler : pc[h] = "contact" /\ pc'[h] = "log"
BecomesContacted(l) == lead[l].status # "contacted" /\ lead'[l].status = "contacted"

\* A lead becomes CONTACTED only on an approved outreach request for it, or
\* by record_contact_attempt ("If outreach is approved", M-01).
AdvanceNeedsApproval ==
  [][\A l \in Lead : BecomesContacted(l) => Covered(l)]_vars

\* The buttons keep to that, whatever overlaps, times out or dies, commands
\* included; a lead contacted without an approval is a command's doing
\* (handle_callback checks what resolve returned).
ButtonsNeedApproval ==
  [][\A l \in Lead : BecomesContacted(l) =>
       \/ Covered(l)
       \/ \E h \in Handler : /\ pc[h] = "advance" /\ pc'[h] = "idle"
                             /\ ctx[h].via = "command"]_vars

\* A founder who sees a cadence's request finds all of its messages: no
\* crash or timeout leaves a request over part of them (generate_cadence).
DraftsPrecedeRequest ==
  \A r \in Request : approval[r].decision # "none" => draft[r] \in {0, Touches}

\* No lead waits for an approval nobody asked for: OUTREACH_READY is saved
\* after the request, and no stale row brings it back early.
ReadyWasRequested ==
  \A l \in Lead : lead[l].status = "outreach_ready" => SentFor(l) # {}

\* Approval reaches the lead: one whose cadences were all approved is
\* CONTACTED in the end (handle_callback and _cmd_direct_resolve, M-01).
ApprovedIsContacted ==
  \A l \in Lead :
    (/\ SentFor(l) # {}
     /\ \A r \in SentFor(l) : draft[r] = Touches /\ Approved(r))
      ~> (lead[l].status = "contacted")

\* Every operation comes to its end, also when it waits for a connection that
\* never commits: busy_timeout is what gets it out.
HandlersFinish == \A h \in Handler : (pc[h] # "idle") ~> (pc[h] = "idle")

-----------------------------------------------------------------------------
(***************************************************************************)
(* The inductive invariant behind the safety properties: what a request    *)
(* row says in each decision, and what a handler may rely on at each label *)
(* although every table may have changed since it read it.                 *)
(***************************************************************************)
RequestsFiled ==
  \A r \in Request :
    IF approval[r].decision = "none"
    THEN approval[r] = NoApproval
    ELSE /\ approval[r].action \in ActionType
         /\ approval[r].target \in Lead
         /\ approval[r].decision \in Verdict => approval[r].actor \in AdminUser
         /\ approval[r].decision = "pending" => approval[r].actor = NoUser

HandlersReady ==
  \A h \in Handler :
    /\ pc[h] = "idle" => ctx[h] = NoContext
    /\ pc[h] \in {"resolve", "readLead", "advance"} =>
         /\ ctx[h].req \in Request
         /\ ctx[h].want \in Verdict
         /\ ctx[h].user \in AdminUser
         /\ approval[ctx[h].req].decision # "none"
    /\ pc[h] \in {"readLead", "advance"} =>
         /\ approval[ctx[h].req].action = "outreach_send"
         /\ ctx[h].via = "button" => Approved(ctx[h].req)
    /\ pc[h] = "draft" => /\ ctx[h].req \in Request
                          /\ approval[ctx[h].req].decision = "none"
    /\ pc[h] = "ready" => /\ ctx[h].req \in Request
                          /\ ctx[h].req \in SentFor(ctx[h].lead)
    /\ pc[h] \in {"draft", "ready", "contact", "log"} =>
         ctx[h].lead \in Lead

\* The request of a cadence in the making is nobody else's.
CadencesApart ==
  \A h1, h2 \in Handler :
    pc[h1] = "draft" /\ ctx[h2].req = ctx[h1].req => h1 = h2

\* What holds in every reachable state.
IInv == /\ TypeOK
        /\ RequestsFiled
        /\ HandlersReady
        /\ CadencesApart
        /\ DraftsPrecedeRequest
        /\ ReadyWasRequested

(***************************************************************************)
(* With AdvanceNeedsApproval, inductive as long as no two handlers decide  *)
(* one request at once: a request is still pending when the decision read  *)
(* as possible is saved, and so a command, too, has won when it goes on.   *)
(***************************************************************************)
DecidedApart ==
  \A g, h \in Handler : /\ pc[g] = "resolve" /\ pc[h] = "resolve"
                        /\ ctx[g].req = ctx[h].req
                        => g = h
DecisionsStand ==
  \A h \in Handler :
    /\ pc[h] = "resolve" => approval[ctx[h].req].decision = "pending"
    /\ pc[h] \in {"readLead", "advance"} => Approved(ctx[h].req)
=============================================================================
