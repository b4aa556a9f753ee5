----------------------------- MODULE Publishing -----------------------------
(***************************************************************************)
(* ContentEngine drafts assets and files a review for each, an operator    *)
(* decides the review, and PublishingService dispatches approved assets:   *)
(* to Postiz, whose answer may get lost, to Telegram, or as an export a    *)
(* founder publishes by hand.  Decisions are taken at the ApprovalGate,    *)
(* which OutreachApproval shows the approvals table to implement.          *)
(***************************************************************************)
EXTENDS Naturals

CONSTANTS
  Asset,      \* content asset identifiers
  Request,    \* approval identifiers
  Handler,    \* invocations of generate_content or publish_content under way
  AdminUser,
  NoAsset, NoUser,
  MaxPosts    \* bound on what Postiz accepts for one asset

ASSUME NoAssetIsNone == NoAsset \notin Asset
ASSUME NoUserIsNone == NoUser \notin AdminUser
ASSUME MaxPostsPositive == MaxPosts \in Nat \ {0}

VARIABLES
  asset,      \* table content_assets
  subject,    \* table approvals, column target_id
  decision,   \* table approvals, column decision
  decider,    \* table approvals, column actor
  posted,     \* posts Postiz accepted for an asset
  exported,   \* assets handed out for publishing by hand
  declared,   \* assets publish_asset called published
  pc, ctx     \* handlers: where they are, and what they hold

approvals == <<subject, decision, decider>>
outside == <<posted, exported, declared>>
vars == <<asset, approvals, outside, pc, ctx>>

Gate == INSTANCE ApprovalGate

Platform == {"social", "telegram"}
Status == {"awaiting_approval", "approved", "scheduled", "published", "failed"}
Row == [status : Status \cup {"none"}, platform : Platform]
NoRow == [status |-> "none", platform |-> "social"]
Context == [asset : Asset \cup {NoAsset}, later : BOOLEAN, mark : Status]
NoContext == [asset |-> NoAsset, later |-> FALSE, mark |-> "failed"]
Label == {"idle", "review", "health", "post", "export", "mark"}

Exists(a) == asset[a].status # "none"
Goto(h, label) == pc' = [pc EXCEPT ![h] = label]
Finish(h) == Goto(h, "idle") /\ ctx' = [ctx EXCEPT ![h] = NoContext]

Init == /\ asset = [a \in Asset |-> NoRow]
        /\ subject = [r \in Request |-> NoAsset]
        /\ Gate!Init
        /\ posted = [a \in Asset |-> 0]
        /\ exported = {} /\ declared = {}
        /\ pc = [h \in Handler |-> "idle"]
        /\ ctx = [h \in Handler |-> NoContext]

-----------------------------------------------------------------------------
(***************************************************************************)
(* Drafting: per platform, an asset and then its review, in two commits.   *)
(***************************************************************************)
SaveAsset(h, a, platform, auto) ==
  /\ pc[h] = "idle"
  /\ ~Exists(a)
  /\ asset' = [asset EXCEPT ![a] = [status |-> "awaiting_approval",
                                    platform |-> platform]]
  /\ IF auto THEN /\ Goto(h, "review")
                  /\ ctx' = [ctx EXCEPT ![h].asset = a]
             ELSE UNCHANGED <<pc, ctx>>
  /\ UNCHANGED <<approvals, outside>>

File(r, a) == Gate!File(r) /\ subject' = [subject EXCEPT ![r] = a]

FileReview(h, r) == /\ pc[h] = "review"
                    /\ File(r, ctx[h].asset)
                    /\ Finish(h)
                    /\ UNCHANGED <<asset, outside>>

\* The tool request_approval, on an asset.
RequestApproval(r, a) == /\ Exists(a)
                         /\ File(r, a)
                         /\ UNCHANGED <<asset, outside, pc, ctx>>

Decide(r, verdict, u) == /\ Gate!Decide(r, verdict, u)
                         /\ UNCHANGED <<asset, subject, outside, pc, ctx>>

-----------------------------------------------------------------------------
(***************************************************************************)
(* Dispatching.  The gate is read once, at the start.                      *)
(***************************************************************************)
\* Mutant of IsAssetApproved: any review that was not turned down will do.
IsNotRejected(a) ==
  \E r \in Request : subject[r] = a /\ decision[r] \in {"pending", "approved"}

IsAssetApproved(a) ==
  \E r \in Request : subject[r] = a /\ decision[r] = "approved"

Out(later) == IF later THEN "scheduled" ELSE "published"

DispatchAsset(h, a, later, manual) ==
  /\ pc[h] = "idle"
  /\ Exists(a) /\ IsAssetApproved(a)
  /\ Goto(h, IF manual THEN "export"
             ELSE IF asset[a].platform = "telegram" THEN "mark" ELSE "health")
  /\ ctx' = [ctx EXCEPT ![h] = [asset |-> a, later |-> later, mark |-> Out(later)]]
  /\ UNCHANGED <<asset, approvals, outside>>

\* Mutant of CheckHealth: an unhealthy Postiz passes for a delivered post.
SkipUnhealthy(h) == /\ pc[h] = "health"
                    /\ Goto(h, "post") \/ Goto(h, "mark")
                    /\ UNCHANGED <<asset, approvals, outside, ctx>>

\* No adapter, or no healthy Postiz behind it: decision R-04, export.
CheckHealth(h) == /\ pc[h] = "health"
                  /\ Goto(h, "post") \/ Goto(h, "export")
                  /\ UNCHANGED <<asset, approvals, outside, ctx>>

Accept(a) == /\ posted[a] < MaxPosts
             /\ posted' = [posted EXCEPT ![a] = @ + 1]

\* Mutant of CreatePost: whatever Postiz answers counts as a success.
CreatePostUnchecked(h) ==
  /\ pc[h] = "post"
  /\ Accept(ctx[h].asset) \/ UNCHANGED posted
  /\ Goto(h, "mark")
  /\ UNCHANGED <<asset, approvals, exported, declared, ctx>>

\* An answer other than success, or none at all, comes back as a failure,
\* whether or not Postiz accepted the post.
CreatePost(h) ==
  /\ pc[h] = "post"
  /\ \/ Accept(ctx[h].asset) /\ UNCHANGED ctx
     \/ /\ Accept(ctx[h].asset) \/ UNCHANGED posted
        /\ ctx' = [ctx EXCEPT ![h].mark = "failed"]
  /\ Goto(h, "mark")
  /\ UNCHANGED <<asset, approvals, exported, declared>>

SetStatus(a, status) == asset' = [asset EXCEPT ![a].status = status]

UpdateAssetStatus(h) == /\ pc[h] = "mark"
                        /\ SetStatus(ctx[h].asset, ctx[h].mark)
                        /\ Finish(h)
                        /\ UNCHANGED <<approvals, outside>>

\* Mutant of CreateManualExport: the result's status goes into the table.
ExportStatus(h) ==
  /\ pc[h] = "export"
  /\ SetStatus(ctx[h].asset, "manual_export")
  /\ exported' = exported \cup {ctx[h].asset}
  /\ Finish(h)
  /\ UNCHANGED <<approvals, posted, declared>>

CreateManualExport(h) ==
  /\ pc[h] = "export"
  /\ SetStatus(ctx[h].asset, IF ctx[h].later THEN "scheduled" ELSE "approved")
  /\ exported' = exported \cup {ctx[h].asset}
  /\ Finish(h)
  /\ UNCHANGED <<approvals, posted, declared>>

\* ContentEngine.publish_asset: the gate, then the status, and nothing is sent.
PublishAsset(a) == /\ Exists(a) /\ IsAssetApproved(a)
                   /\ SetStatus(a, "published")
                   /\ declared' = declared \cup {a}
                   /\ UNCHANGED <<approvals, posted, exported, pc, ctx>>

\* The process dies, or a write gives up waiting for the database.
Dies(h) == /\ pc[h] # "idle"
           /\ Finish(h)
           /\ UNCHANGED <<asset, approvals, outside>>

Next ==
  \/ \E h \in Handler, a \in Asset :
       \/ \E platform \in Platform, auto \in BOOLEAN : SaveAsset(h, a, platform, auto)
       \/ \E later, manual \in BOOLEAN : DispatchAsset(h, a, later, manual)
  \/ \E h \in Handler :
       \/ \E r \in Request : FileReview(h, r)
       \/ CheckHealth(h) \/ CreatePost(h) \/ UpdateAssetStatus(h)
       \/ CreateManualExport(h) \/ Dies(h)
  \/ \E r \in Request, a \in Asset : RequestApproval(r, a)
  \/ \E r \in Request, verdict \in {"approved", "rejected", "rewrite_requested"},
        u \in AdminUser : Decide(r, verdict, u)
  \/ \E a \in Asset : PublishAsset(a)

Spec == Init /\ [][Next]_vars

-----------------------------------------------------------------------------
TypeOK == /\ asset \in [Asset -> Row]
          /\ subject \in [Request -> Asset \cup {NoAsset}]
          /\ decision \in [Request -> {"none", "pending", "approved", "rejected",
                                       "rewrite_requested"}]
          /\ decider \in [Request -> AdminUser \cup {NoUser}]
          /\ posted \in [Asset -> 0..MaxPosts]
          /\ exported \subseteq Asset /\ declared \subseteq Asset
          /\ pc \in [Handler -> Label]
          /\ ctx \in [Handler -> Context]

\* Nothing leaves the system, and no status says it did or tried, unless an
\* administrator approved the asset; that stays true while other reviews of
\* the asset are rejected (I-02, is_asset_approved in dispatch_asset).
Cleared(a) == \E r \in Request : /\ subject[r] = a
                                 /\ decision[r] = "approved"
                                 /\ decider[r] \in AdminUser
LeftReview(a) == \/ posted[a] > 0
                 \/ a \in exported \cup declared
                 \/ asset[a].status \notin {"none", "awaiting_approval"}
OnlyApprovedGoesOut == \A a \in Asset : LeftReview(a) => Cleared(a)

\* What is recorded as published on a social network is there: Postiz said
\* so, or publish_asset declared it, whatever dispatches overlap, lose an
\* answer or die before they record theirs (_dispatch_postiz).
PublishedIsOut ==
  \A a \in Asset : asset[a].status = "published" /\ asset[a].platform = "social"
                     => posted[a] > 0 \/ a \in declared

\* A duplicate approved action cannot publish twice (I-07, dispatch_asset).
PostedOnce == \A a \in Asset : posted[a] <= 1

-----------------------------------------------------------------------------
(***************************************************************************)
(* The inductive invariant: a handler past the gate holds a cleared asset, *)
(* and one about to record a publication holds a posted one.               *)
(***************************************************************************)
DecidedByAdmins ==
  \A r \in Request : decision[r] = "approved" => decider[r] \in AdminUser

HandlersCleared ==
  \A h \in Handler :
    /\ pc[h] # "idle" => ctx[h].asset \in Asset /\ Exists(ctx[h].asset)
    /\ pc[h] \in {"health", "post", "export", "mark"} => Cleared(ctx[h].asset)
    /\ /\ pc[h] = "mark" /\ ctx[h].mark = "published"
       /\ asset[ctx[h].asset].platform = "social"
       => posted[ctx[h].asset] > 0

IInv == /\ TypeOK
        /\ DecidedByAdmins
        /\ HandlersCleared
        /\ OnlyApprovedGoesOut
        /\ PublishedIsOut
=============================================================================
