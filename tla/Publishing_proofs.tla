-------------------------- MODULE Publishing_proofs --------------------------
(***************************************************************************)
(* Nothing goes out unapproved, and nothing is recorded as published that  *)
(* is not out: for every set of assets, reviews and handlers.              *)
(***************************************************************************)
EXTENDS Publishing, TLAPS

\* The initial states satisfy the inductive invariant.
LEMMA InitIInv == Init => IInv
  BY NoAssetIsNone, MaxPostsPositive
  DEF Init, Gate!Init, IInv, TypeOK, Row, NoRow, Platform, Status, Label, Context,
      NoContext, DecidedByAdmins, HandlersCleared, Exists, OnlyApprovedGoesOut,
      LeftReview, PublishedIsOut

\* The context of an idle handler is well typed.
LEMMA NoContextType == NoContext \in Context
  BY DEF NoContext, Context, Status

\* A step that leaves assets, approvals and the outside alone keeps the
\* invariant when the handlers' part and the types of pc and ctx hold after it.
LEMMA HandlerStep ==
  ASSUME IInv, UNCHANGED <<asset, approvals, outside>>,
         pc' \in [Handler -> Label], ctx' \in [Handler -> Context], HandlersCleared'
  PROVE  IInv'
  BY DEF IInv, TypeOK, approvals, outside, DecidedByAdmins, OnlyApprovedGoesOut,
     LeftReview, Cleared, PublishedIsOut

\* A handler that ends there keeps the invariant.
LEMMA FinishStep ==
  ASSUME IInv, NEW h \in Handler, Finish(h), UNCHANGED <<asset, approvals, outside>>
  PROVE  IInv'
<1>1. pc' = [pc EXCEPT ![h] = "idle"] /\ ctx' = [ctx EXCEPT ![h] = NoContext]
  BY DEF Finish, Goto
<1>2. pc' \in [Handler -> Label] /\ ctx' \in [Handler -> Context]
  BY <1>1, NoContextType DEF IInv, TypeOK, Label
<1>3. HandlersCleared'
  BY <1>1 DEF IInv, TypeOK, HandlersCleared, Cleared, Exists, approvals, outside
<1> QED
  BY <1>2, <1>3, HandlerStep

\* A new asset awaits its approval.
LEMMA SaveAssetStep ==
  ASSUME IInv, NEW h \in Handler, NEW a \in Asset, NEW platform \in Platform,
         NEW auto \in BOOLEAN, SaveAsset(h, a, platform, auto)
  PROVE  IInv'
<1> DEFINE row == [status |-> "awaiting_approval", platform |-> platform]
<1>1. /\ asset' = [asset EXCEPT ![a] = row] /\ asset[a].status = "none"
      /\ row \in Row /\ row.status = "awaiting_approval" /\ pc[h] = "idle"
      /\ UNCHANGED <<subject, decision, decider, posted, exported, declared>>
  BY DEF SaveAsset, Exists, Row, Status, approvals, outside
<1> HIDE DEF row
<1>2. /\ pc' \in [Handler -> Label] /\ ctx' \in [Handler -> Context]
      /\ \A k \in Handler : \/ pc'[k] = pc[k] /\ ctx'[k] = ctx[k]
                            \/ pc'[k] = "review" /\ ctx'[k].asset = a
  <2>1. CASE auto
    <3>1. /\ pc' = [pc EXCEPT ![h] = "review"]
          /\ ctx' = [ctx EXCEPT ![h] = [ctx[h] EXCEPT !.asset = a]]
      BY <2>1 DEF SaveAsset, Goto
    <3>2. [ctx[h] EXCEPT !.asset = a] \in Context /\ [ctx[h] EXCEPT !.asset = a].asset = a
      BY DEF IInv, TypeOK, Context
    <3> QED
      BY <3>1, <3>2 DEF IInv, TypeOK, Label
  <2>2. CASE ~auto
    BY <2>2 DEF SaveAsset, IInv, TypeOK
  <2> QED
    BY <2>1, <2>2
<1>3. TypeOK'
  BY <1>1, <1>2 DEF IInv, TypeOK
<1>4. DecidedByAdmins' /\ OnlyApprovedGoesOut' /\ PublishedIsOut'
  BY <1>1 DEF IInv, TypeOK, DecidedByAdmins, OnlyApprovedGoesOut, LeftReview, Cleared,
     PublishedIsOut
<1>5. HandlersCleared'
  BY <1>1, <1>2 DEF IInv, TypeOK, HandlersCleared, Cleared, Exists
<1> QED
  BY <1>3, <1>4, <1>5 DEF IInv

\* Filing a review clears no asset and takes no clearance away.
LEMMA FileStep ==
  ASSUME IInv, NEW r \in Request, NEW a \in Asset, File(r, a),
         UNCHANGED <<asset, outside>>
  PROVE  /\ subject' \in [Request -> Asset \cup {NoAsset}]
         /\ decision' \in [Request -> {"none", "pending", "approved", "rejected",
                                       "rewrite_requested"}]
         /\ UNCHANGED decider
         /\ DecidedByAdmins' /\ OnlyApprovedGoesOut' /\ PublishedIsOut'
         /\ \A b \in Asset : Cleared(b) => Cleared(b)'
<1>1. /\ decision[r] = "none" /\ decision' = [decision EXCEPT ![r] = "pending"]
      /\ subject' = [subject EXCEPT ![r] = a] /\ UNCHANGED decider
  BY DEF File, Gate!File
<1>2. \A b \in Asset : Cleared(b) => Cleared(b)'
  BY <1>1 DEF IInv, TypeOK, Cleared
<1> QED
  BY <1>1, <1>2 DEF IInv, TypeOK, DecidedByAdmins, OnlyApprovedGoesOut, LeftReview,
     PublishedIsOut, outside

LEMMA FileReviewStep ==
  ASSUME IInv, NEW h \in Handler, NEW r \in Request, FileReview(h, r)
  PROVE  IInv'
<1>1. /\ ctx[h].asset \in Asset /\ File(r, ctx[h].asset) /\ UNCHANGED <<asset, outside>>
      /\ pc' = [pc EXCEPT ![h] = "idle"] /\ ctx' = [ctx EXCEPT ![h] = NoContext]
  BY DEF FileReview, Finish, Goto, IInv, HandlersCleared
<1>2. /\ subject' \in [Request -> Asset \cup {NoAsset}]
      /\ decision' \in [Request -> {"none", "pending", "approved", "rejected",
                                    "rewrite_requested"}]
      /\ UNCHANGED decider
      /\ DecidedByAdmins' /\ OnlyApprovedGoesOut' /\ PublishedIsOut'
      /\ \A b \in Asset : Cleared(b) => Cleared(b)'
  BY <1>1, FileStep
<1>3. TypeOK'
  BY <1>1, <1>2, NoContextType DEF IInv, TypeOK, outside, Label
<1>4. HandlersCleared'
  BY <1>1, <1>2 DEF IInv, TypeOK, HandlersCleared, Exists, outside
<1> QED
  BY <1>2, <1>3, <1>4 DEF IInv

LEMMA RequestApprovalStep ==
  ASSUME IInv, NEW r \in Request, NEW a \in Asset, RequestApproval(r, a)
  PROVE  IInv'
<1>1. File(r, a) /\ UNCHANGED <<asset, outside, pc, ctx>>
  BY DEF RequestApproval
<1>2. /\ subject' \in [Request -> Asset \cup {NoAsset}]
      /\ decision' \in [Request -> {"none", "pending", "approved", "rejected",
                                    "rewrite_requested"}]
      /\ UNCHANGED decider
      /\ DecidedByAdmins' /\ OnlyApprovedGoesOut' /\ PublishedIsOut'
      /\ \A b \in Asset : Cleared(b) => Cleared(b)'
  BY <1>1, FileStep
<1>3. TypeOK'
  BY <1>1, <1>2 DEF IInv, TypeOK, outside
<1>4. HandlersCleared'
  BY <1>1, <1>2 DEF IInv, TypeOK, HandlersCleared, Exists, outside
<1> QED
  BY <1>2, <1>3, <1>4 DEF IInv

\* A decision is of an administrator, and no decision takes clearance away.
LEMMA DecideStep ==
  ASSUME IInv, NEW r \in Request,
         NEW verdict \in {"approved", "rejected", "rewrite_requested"},
         NEW u \in AdminUser, Decide(r, verdict, u)
  PROVE  IInv'
<1>1. /\ decision[r] = "pending" /\ decision' = [decision EXCEPT ![r] = verdict]
      /\ decider' = [decider EXCEPT ![r] = u]
      /\ UNCHANGED <<asset, subject, posted, exported, declared, pc, ctx>>
  BY DEF Decide, Gate!Decide, outside
<1>2. \A b \in Asset : Cleared(b) => Cleared(b)'
  BY <1>1 DEF IInv, TypeOK, Cleared
<1>3. TypeOK' /\ DecidedByAdmins'
  BY <1>1 DEF IInv, TypeOK, DecidedByAdmins
<1>4. OnlyApprovedGoesOut' /\ PublishedIsOut'
  BY <1>1, <1>2 DEF IInv, OnlyApprovedGoesOut, LeftReview, PublishedIsOut
<1>5. HandlersCleared'
  BY <1>1, <1>2 DEF IInv, TypeOK, HandlersCleared, Exists
<1> QED
  BY <1>3, <1>4, <1>5 DEF IInv

-----------------------------------------------------------------------------
\* What is_asset_approved finds, an administrator approved.
LEMMA ApprovedIsCleared ==
  ASSUME IInv, NEW a \in Asset, IsAssetApproved(a)
  PROVE  Cleared(a)
  BY DEF IInv, DecidedByAdmins, IsAssetApproved, Cleared

LEMMA DispatchAssetStep ==
  ASSUME IInv, NEW h \in Handler, NEW a \in Asset, NEW later \in BOOLEAN,
         NEW manual \in BOOLEAN, DispatchAsset(h, a, later, manual)
  PROVE  IInv'
<1> DEFINE c == [asset |-> a, later |-> later, mark |-> Out(later)]
           label == IF manual THEN "export"
                    ELSE IF asset[a].platform = "telegram" THEN "mark" ELSE "health"
<1>1. /\ pc' = [pc EXCEPT ![h] = label] /\ ctx' = [ctx EXCEPT ![h] = c]
      /\ UNCHANGED <<asset, approvals, outside>> /\ Exists(a) /\ Cleared(a)
  BY ApprovedIsCleared DEF DispatchAsset, Goto
<1>2. /\ c \in Context /\ c.asset = a
      /\ label \in {"export", "mark", "health"}
      /\ label = "mark" => asset[a].platform # "social"
  BY DEF Context, Out, Status
<1> HIDE DEF c, label
<1>3. pc' \in [Handler -> Label] /\ ctx' \in [Handler -> Context]
  BY <1>1, <1>2 DEF IInv, TypeOK, Label
<1>4. HandlersCleared'
  BY <1>1, <1>2 DEF IInv, TypeOK, HandlersCleared, Cleared, Exists, approvals, outside
<1> QED
  BY <1>1, <1>3, <1>4, HandlerStep

LEMMA CheckHealthStep ==
  ASSUME IInv, NEW h \in Handler, CheckHealth(h)
  PROVE  IInv'
<1>1. PICK label \in {"post", "export"} : pc' = [pc EXCEPT ![h] = label]
  BY DEF CheckHealth, Goto
<1>2. pc[h] = "health" /\ UNCHANGED <<asset, approvals, outside, ctx>>
  BY DEF CheckHealth
<1>3. pc' \in [Handler -> Label] /\ ctx' \in [Handler -> Context]
  BY <1>1, <1>2 DEF IInv, TypeOK, Label
<1>4. HandlersCleared'
  BY <1>1, <1>2 DEF IInv, TypeOK, HandlersCleared, Cleared, Exists, approvals, outside
<1> QED
  BY <1>2, <1>3, <1>4, HandlerStep

\* A post that is answered is accepted; only then does the handler go on to
\* record a publication.
LEMMA CreatePostStep ==
  ASSUME IInv, NEW h \in Handler, CreatePost(h)
  PROVE  IInv'
<1> DEFINE a == ctx[h].asset
<1>1. /\ pc[h] = "post" /\ a \in Asset /\ Cleared(a)
      /\ pc' = [pc EXCEPT ![h] = "mark"]
      /\ UNCHANGED <<asset, subject, decision, decider, exported, declared>>
  BY DEF CreatePost, Goto, IInv, HandlersCleared, approvals
<1>2. /\ posted' \in [Asset -> 0..MaxPosts]
      /\ \A b \in Asset : posted'[b] > 0 => posted[b] > 0 \/ b = a
      /\ \A b \in Asset : posted[b] > 0 => posted'[b] > 0
      /\ \/ posted'[a] > 0 /\ ctx' = ctx
         \/ ctx' = [ctx EXCEPT ![h].mark = "failed"]
  <2>1. CASE Accept(a)
    BY <1>1, <2>1, MaxPostsPositive DEF CreatePost, Accept, IInv, TypeOK
  <2>2. CASE UNCHANGED posted /\ ctx' = [ctx EXCEPT ![h].mark = "failed"]
    BY <2>2 DEF IInv, TypeOK
  <2> QED
    BY <2>1, <2>2 DEF CreatePost
<1>3. /\ ctx' \in [Handler -> Context]
      /\ \A k \in Handler : ctx'[k].asset = ctx[k].asset
      /\ \A k \in Handler : k # h => ctx'[k] = ctx[k]
      /\ ctx'[h].mark = "published" => posted'[a] > 0
  BY <1>2 DEF IInv, TypeOK, Context, Status
<1> HIDE DEF a
<1>4. TypeOK'
  BY <1>1, <1>2, <1>3 DEF IInv, TypeOK, Label
<1>5. DecidedByAdmins' /\ OnlyApprovedGoesOut' /\ PublishedIsOut'
  BY <1>1, <1>2 DEF IInv, TypeOK, DecidedByAdmins, OnlyApprovedGoesOut, LeftReview,
     Cleared, PublishedIsOut
<1>6. HandlersCleared'
  BY <1>1, <1>2, <1>3 DEF IInv, TypeOK, HandlersCleared, Cleared, Exists, a
<1> QED
  BY <1>4, <1>5, <1>6 DEF IInv

\* Writing a status other than "published", or one an asset has earned, on a
\* cleared asset keeps what is said of assets and of the other handlers.
LEMMA SetStatusStep ==
  ASSUME IInv, NEW a \in Asset, NEW status \in Status, SetStatus(a, status),
         Exists(a), Cleared(a), UNCHANGED <<approvals, posted>>,
         NEW more \in SUBSET {a}, exported' \cup declared' = exported \cup declared \cup more,
         exported' \subseteq Asset, declared' \subseteq Asset, declared \subseteq declared',
         /\ status = "published" /\ asset[a].platform = "social"
         => posted[a] > 0 \/ a \in declared'
  PROVE  /\ asset' \in [Asset -> Row]
         /\ DecidedByAdmins' /\ OnlyApprovedGoesOut' /\ PublishedIsOut'
         /\ \A b \in Asset : /\ Exists(b) => Exists(b)'
                             /\ asset'[b].platform = asset[b].platform
                             /\ Cleared(b) => Cleared(b)'
<1>1. /\ asset' \in [Asset -> Row]
      /\ \A b \in Asset : /\ asset'[b].platform = asset[b].platform
                          /\ asset'[b].status = IF b = a THEN status ELSE asset[b].status
  BY DEF SetStatus, IInv, TypeOK, Row
<1>2. \A b \in Asset : Cleared(b) => Cleared(b)'
  BY DEF Cleared, approvals
<1>3. \A b \in Asset : Exists(b) => Exists(b)'
  BY <1>1 DEF Exists, Status
<1>4. DecidedByAdmins' /\ PublishedIsOut'
  BY <1>1 DEF IInv, DecidedByAdmins, PublishedIsOut, approvals
<1>5. OnlyApprovedGoesOut'
  BY <1>1, <1>2 DEF IInv, OnlyApprovedGoesOut, LeftReview
<1> QED
  BY <1>1, <1>2, <1>3, <1>4, <1>5

LEMMA UpdateAssetStatusStep ==
  ASSUME IInv, NEW h \in Handler, UpdateAssetStatus(h)
  PROVE  IInv'
<1> DEFINE a == ctx[h].asset
           status == ctx[h].mark
<1>1. /\ pc[h] = "mark" /\ a \in Asset /\ status \in Status /\ Exists(a) /\ Cleared(a)
      /\ status = "published" /\ asset[a].platform = "social" => posted[a] > 0
  BY DEF UpdateAssetStatus, IInv, TypeOK, HandlersCleared, Context
<1>2. /\ SetStatus(a, status) /\ UNCHANGED <<approvals, posted, exported, declared>>
      /\ pc' = [pc EXCEPT ![h] = "idle"] /\ ctx' = [ctx EXCEPT ![h] = NoContext]
  BY DEF UpdateAssetStatus, Finish, Goto, outside
<1> HIDE DEF a, status
<1>3. /\ asset' \in [Asset -> Row]
      /\ DecidedByAdmins' /\ OnlyApprovedGoesOut' /\ PublishedIsOut'
      /\ \A b \in Asset : /\ Exists(b) => Exists(b)'
                          /\ asset'[b].platform = asset[b].platform
                          /\ Cleared(b) => Cleared(b)'
  <2>1. {} \in SUBSET {a} /\ exported' \cup declared' = exported \cup declared \cup {}
    BY <1>2
  <2>2. exported' \subseteq Asset /\ declared' \subseteq Asset /\ declared \subseteq declared'
    BY <1>2 DEF IInv, TypeOK
  <2> QED
    BY <1>1, <1>2, <2>1, <2>2, SetStatusStep
<1>4. TypeOK'
  BY <1>2, <1>3, NoContextType DEF IInv, TypeOK, Label, approvals
<1>5. HandlersCleared'
  BY <1>2, <1>3 DEF IInv, TypeOK, HandlersCleared
<1> QED
  BY <1>3, <1>4, <1>5 DEF IInv

LEMMA CreateManualExportStep ==
  ASSUME IInv, NEW h \in Handler, CreateManualExport(h)
  PROVE  IInv'
<1> DEFINE a == ctx[h].asset
           status == IF ctx[h].later THEN "scheduled" ELSE "approved"
<1>1. /\ pc[h] = "export" /\ a \in Asset /\ Exists(a) /\ Cleared(a)
      /\ status \in Status /\ status # "published"
  BY DEF CreateManualExport, IInv, TypeOK, HandlersCleared, Status
<1>2. /\ SetStatus(a, status) /\ UNCHANGED <<approvals, posted, declared>>
      /\ exported' = exported \cup {a}
      /\ pc' = [pc EXCEPT ![h] = "idle"] /\ ctx' = [ctx EXCEPT ![h] = NoContext]
  BY DEF CreateManualExport, Finish, Goto
<1> HIDE DEF a, status
<1>3. /\ asset' \in [Asset -> Row]
      /\ DecidedByAdmins' /\ OnlyApprovedGoesOut' /\ PublishedIsOut'
      /\ \A b \in Asset : /\ Exists(b) => Exists(b)'
                          /\ asset'[b].platform = asset[b].platform
                          /\ Cleared(b) => Cleared(b)'
  <2>1. exported' \cup declared' = exported \cup declared \cup {a}
    BY <1>2
  <2>2. exported' \subseteq Asset /\ declared' \subseteq Asset /\ declared \subseteq declared'
    BY <1>1, <1>2 DEF IInv, TypeOK
  <2> QED
    BY <1>1, <1>2, <2>1, <2>2, SetStatusStep
<1>4. TypeOK'
  BY <1>1, <1>2, <1>3, NoContextType DEF IInv, TypeOK, Label, approvals
<1>5. HandlersCleared'
  BY <1>2, <1>3 DEF IInv, TypeOK, HandlersCleared
<1> QED
  BY <1>3, <1>4, <1>5 DEF IInv

LEMMA PublishAssetStep ==
  ASSUME IInv, NEW a \in Asset, PublishAsset(a)
  PROVE  IInv'
<1>1. /\ Exists(a) /\ Cleared(a) /\ SetStatus(a, "published") /\ "published" \in Status
      /\ declared' = declared \cup {a}
      /\ UNCHANGED <<approvals, posted, exported, pc, ctx>>
  BY ApprovedIsCleared DEF PublishAsset, Status
<1>2. /\ asset' \in [Asset -> Row]
      /\ DecidedByAdmins' /\ OnlyApprovedGoesOut' /\ PublishedIsOut'
      /\ \A b \in Asset : /\ Exists(b) => Exists(b)'
                          /\ asset'[b].platform = asset[b].platform
                          /\ Cleared(b) => Cleared(b)'
  <2>1. exported' \cup declared' = exported \cup declared \cup {a}
    BY <1>1
  <2>2. exported' \subseteq Asset /\ declared' \subseteq Asset /\ declared \subseteq declared'
        /\ a \in declared'
    BY <1>1 DEF IInv, TypeOK
  <2> QED
    BY <1>1, <2>1, <2>2, SetStatusStep
<1>3. TypeOK'
  BY <1>1, <1>2 DEF IInv, TypeOK, approvals
<1>4. HandlersCleared'
  BY <1>1, <1>2 DEF IInv, HandlersCleared
<1> QED
  BY <1>2, <1>3, <1>4 DEF IInv

-----------------------------------------------------------------------------
\* Every step keeps the invariant.
LEMMA StepIInv == IInv /\ [Next]_vars => IInv'
<1> SUFFICES ASSUME IInv, [Next]_vars PROVE IInv'
  OBVIOUS
<1>1. CASE UNCHANGED vars
  BY <1>1, HandlerStep DEF vars, IInv, TypeOK, HandlersCleared, Cleared, Exists,
     approvals, outside
<1>2. ASSUME NEW h \in Handler, Dies(h) PROVE IInv'
  BY <1>2, FinishStep DEF Dies
<1> QED
  BY <1>1, <1>2, SaveAssetStep, FileReviewStep, RequestApprovalStep, DecideStep,
     DispatchAssetStep, CheckHealthStep, CreatePostStep, UpdateAssetStatusStep,
     CreateManualExportStep, PublishAssetStep DEF Next

\* The invariant holds in every reachable state.
THEOREM Invariance == Spec => []IInv
  BY InitIInv, StepIInv, PTL DEF Spec

\* The type invariant.
THEOREM TypeSafety == Spec => []TypeOK
  BY Invariance, PTL DEF IInv

\* I-02: no asset goes out, or is recorded as out, without an administrator's
\* approval, however many dispatches overlap, fail or die.
THEOREM NothingOutUnapproved == Spec => []OnlyApprovedGoesOut
  BY Invariance, PTL DEF IInv

\* A social asset is recorded as published only if Postiz accepted it or
\* publish_asset declared it.
THEOREM PublicationsAreReal == Spec => []PublishedIsOut
  BY Invariance, PTL DEF IInv
=============================================================================
