------------------------ MODULE DiscoveryFiling_proofs ------------------------
(***************************************************************************)
(* Proofs about Discovery: where evidence and replies end up, as long as   *)
(* resolutions do not overlap, and how many leads messages make, as long   *)
(* as no two handlers make one for the same company at once.  Everything   *)
(* else may overlap, and stop anywhere.                                    *)
(***************************************************************************)
EXTENDS DiscoveryStages_proofs

-----------------------------------------------------------------------------
(* What a handler has in hand.                                             *)

\* The entity a scan files is the one whose company it saved last (scan).
LEMMA ScanFiles ==
  ASSUME Bookkeeping, NEW h \in Handler, ScanStep(h), UNCHANGED intake
  PROVE  \/ KeepCompany(h)
         \/ stage'[h] \notin Filing \cup Answering
         \/ stage[h] \in Filing /\ stage'[h] \in Filing /\ UNCHANGED <<owner, current>>
<1> USE DEF Reach, Filing, Answering, Bookkeeping, DiscoveryTypeOK
<1>1. CASE BeginScan(h) \/ FetchPage(h) \/ SkipTarget(h) \/ FinishPage(h) \/ EndScan(h)
  BY <1>1 DEF BeginScan, FetchPage, SkipTarget, FinishPage, EndScan
<1>2. ASSUME NEW p \in Profiles, Bootstrap(h, p) PROVE stage'[h] = "bootstrap"
  BY <1>2 DEF Bootstrap
<1>3. ASSUME NEW found \in 0..MaxFound, NEW limit \in 0..MaxFound,
             NEW freelance \in Freelance, NEW failed \in BOOLEAN,
             Discover(h, found, freelance, limit, failed)
      PROVE  stage'[h] = "targets"
  BY <1>3 DEF Discover
<1>4. ASSUME NEW url \in Web!URL, NextTarget(h, url) PROVE stage'[h] \in {"targets", "fetch"}
  BY <1>4 DEF NextTarget
<1>5. ASSUME NEW page \in Page, ExtractEntities(h, page) PROVE stage'[h] = "entities"
  BY <1>5 DEF ExtractEntities
<1>6. ASSUME NEW e \in Entity, ResolveEntity(h, e) PROVE stage'[h] = "company"
  BY <1>6 DEF ResolveEntity
<1>7. CASE LookFurther(h)
  BY <1>7 DEF LookFurther
<1>8. CASE StoreEvidence(h)
  BY <1>8 DEF StoreEvidence, progress
<1>9. CASE EnsureLead(h) \/ SaveNewLead(h) \/ StorageError(h)
  BY <1>9 DEF EnsureLead, SaveNewLead, Filed, StorageError, Done, progress
<1> QED BY <1>1, <1>2, <1>3, <1>4, <1>5, <1>6, <1>7, <1>8, <1>9 DEF ScanStep

\* The letter an intake answers is the one whose sender it saved last
\* (ingest_message).
LEMMA IntakeFiles ==
  ASSUME Bookkeeping, NEW h \in Handler, IntakeStep(h)
  PROVE  \/ KeepSender(h)
         \/ stage'[h] \notin Filing \cup Answering
         \/ stage[h] \in Answering /\ stage'[h] \in Answering /\ UNCHANGED <<owner, letter>>
<1> USE DEF Reach, Filing, Answering, Bookkeeping, DiscoveryTypeOK
<1>1. ASSUME NEW x \in Exchange, NEW who \in Sender, IngestMessage(h, x, who)
      PROVE  stage'[h] = "sender"
  BY <1>1 DEF IngestMessage
<1>2. CASE AttachLead(h)
  BY <1>2 DEF AttachLead
<1>3. CASE CreateLead(h)
  BY <1>3 DEF CreateLead, intake
<1>4. ASSUME NEW violation \in BOOLEAN, LogInbound(h, violation)
      PROVE  \/ stage'[h] = "answered"
             \/ stage[h] = "inbound" /\ stage'[h] = "draft" /\ UNCHANGED <<owner, letter>>
  BY <1>4 DEF LogInbound
<1>5. ASSUME NEW auto \in BOOLEAN, SaveReply(h, auto)
      PROVE  \/ stage'[h] = "answered"
             \/ stage[h] = "draft" /\ stage'[h] = "ask" /\ UNCHANGED <<owner, letter>>
  BY <1>5 DEF SaveReply
<1>6. CASE AskApproval(h) \/ EndIntake(h)
  BY <1>6 DEF AskApproval, EndIntake
<1> QED BY <1>1, <1>2, <1>3, <1>4, <1>5, <1>6 DEF IntakeStep

\* Evidence is stored in one place only.
LEMMA EvidenceChanges ==
  ASSUME [DiscoveryNext]_discoveryVars
  PROVE  UNCHANGED evidence \/ \E h \in Handler : StoreEvidence(h)
<1>1. ASSUME NEW h \in Handler, ScanStep(h), ~StoreEvidence(h) PROVE UNCHANGED evidence
  BY <1>1 DEF ScanStep, BeginScan, Bootstrap, Discover, NextTarget, FetchPage, SkipTarget,
              ExtractEntities, ResolveEntity, LookFurther, KeepCompany, EnsureLead,
              SaveNewLead, StorageError, FinishPage, EndScan, tables
<1>2. ASSUME NEW h \in Handler, IntakeStep(h) PROVE UNCHANGED evidence
  BY <1>2 DEF IntakeStep, IngestMessage, KeepSender, AttachLead, CreateLead, LogInbound,
              SaveReply, AskApproval, EndIntake, tables
<1> QED BY <1>1, <1>2 DEF DiscoveryNext, discoveryVars, Interrupted, tables

\* Messages are logged and replies saved in one place each.
LEMMA InteractionsChange ==
  ASSUME [DiscoveryNext]_discoveryVars
  PROVE  \/ UNCHANGED <<inbound, reply>>
         \/ \E h \in Handler, violation \in BOOLEAN : LogInbound(h, violation)
         \/ \E h \in Handler, auto \in BOOLEAN : SaveReply(h, auto)
<1>1. ASSUME NEW h \in Handler, IntakeStep(h)
      PROVE  \/ UNCHANGED <<inbound, reply>>
             \/ \E violation \in BOOLEAN : LogInbound(h, violation)
             \/ \E auto \in BOOLEAN : SaveReply(h, auto)
  BY <1>1 DEF IntakeStep, IngestMessage, KeepSender, AttachLead, CreateLead,
              AskApproval, EndIntake, interactions, intake
<1> QED BY <1>1 DEF DiscoveryNext, discoveryVars, Interrupted, interactions, intake

-----------------------------------------------------------------------------
(* Where things end up, as long as resolutions do not overlap.             *)

\* No step of discovery takes away what a company is known by (_enrich_company).
LEMMA StillCovers ==
  ASSUME DiscoveryInv, [DiscoveryNext]_discoveryVars, NEW c \in stored, NEW o \in Profile,
         Covers(company[c], o)
  PROVE  c \in stored' /\ Covers(company'[c], o)
<1>1. [Next]_vars
  BY ScanResolves, IntakeResolves, InterruptionResolves DEF DiscoveryNext, discoveryVars, vars
<1>2. TypeOK'
  BY NextBookkeeping DEF DiscoveryInv, Bookkeeping
<1> QED BY <1>1, <1>2, CoversKept DEF DiscoveryInv

\* What is in hand stays covered (resolve, then scan and ingest_message).
LEMMA CompaniesStayKnown ==
  ASSUME DiscoveryInv, [DiscoveryNext]_discoveryVars
  PROVE  CompaniesKnown'
<1>0. /\ Bookkeeping /\ CompaniesKnown /\ IInv /\ TypeOK /\ DiscoveryTypeOK
      /\ \A k \in Handler : HandlerAgrees(k)
  BY DEF DiscoveryInv, Bookkeeping
<1> DEFINE Known(k) ==
      /\ InStage(k, Filing) => Covers(company[owner[k]], current[k].who)
      /\ InStage(k, Answering) => Covers(company[owner[k]], letter[k].who)
<1>1. ASSUME NEW k \in Handler,
             /\ stage[k] \in Filing /\ stage'[k] \in Filing
                /\ owner'[k] = owner[k] /\ current'[k] = current[k]
      PROVE  Known(k)'
  <2>1. current[k].who \in Profile /\ owner[k] \in stored
    BY <1>0, <1>1, EntitiesAreObserved, ObservationsAreProfiles
       DEF HandlerAgrees, StageAgrees, EntityAgrees, InStage, Filing
  <2>2. Covers(company[owner[k]], current[k].who)
    BY <1>0, <1>1 DEF CompaniesKnown, InStage, Filing
  <2>3. Covers(company'[owner[k]], current[k].who)
    BY <2>1, <2>2, StillCovers
  <2> QED BY <1>1, <2>3 DEF InStage, Filing, Answering, Covers, Identifiers, Identifiable
<1>2. ASSUME NEW k \in Handler,
             /\ stage[k] \in Answering /\ stage'[k] \in Answering
                /\ owner'[k] = owner[k] /\ letter'[k] = letter[k]
      PROVE  Known(k)'
  <2>1. letter[k].who \in Profile /\ owner[k] \in stored
    BY <1>0, <1>2 DEF HandlerAgrees, StageAgrees, InStage, DiscoveryTypeOK, Letter
  <2>2. Covers(company[owner[k]], letter[k].who)
    BY <1>0, <1>2 DEF CompaniesKnown, InStage, Filing
  <2>3. Covers(company'[owner[k]], letter[k].who)
    BY <2>1, <2>2, StillCovers
  <2> QED BY <1>2, <2>3 DEF InStage, Filing, Answering, Covers, Identifiers, Identifiable
<1>3. ASSUME NEW k \in Handler, stage'[k] \notin Filing \cup Answering
      PROVE  Known(k)'
  BY <1>3 DEF InStage, Filing
<1>4. ASSUME NEW h \in Handler, KeepCompany(h) PROVE Known(h)'
  <2>1. Covers(company'[match[h]], seen[h])
    BY <1>0, <1>4, SavedCovers DEF KeepCompany
  <2>2. /\ seen[h] = current[h].who /\ owner'[h] = match[h] /\ current'[h] = current[h]
        /\ stage'[h] = "evidence"
    BY <1>0, <1>4 DEF KeepCompany, HandlerAgrees, EntityAgrees, DiscoveryTypeOK, Reach, progress
  <2> QED BY <2>1, <2>2 DEF InStage, Filing, Answering, Covers, Identifiers, Identifiable
<1>5. ASSUME NEW h \in Handler, KeepSender(h) PROVE Known(h)'
  <2>1. Covers(company'[match[h]], seen[h])
    BY <1>0, <1>5, SavedCovers DEF KeepSender
  <2>2. /\ seen[h] = letter[h].who /\ owner'[h] = match[h] /\ letter'[h] = letter[h]
        /\ stage'[h] = "attach"
    BY <1>0, <1>5 DEF KeepSender, HandlerAgrees, LetterAgrees, DiscoveryTypeOK, Reach, intake
  <2> QED BY <2>1, <2>2 DEF InStage, Filing, Answering, Covers, Identifiers, Identifiable
<1>6. ASSUME NEW h \in Handler,
             (ScanStep(h) /\ UNCHANGED intake) \/ IntakeStep(h) \/ Interrupted(h),
             NEW k \in Handler
      PROVE  Known(k)'
  <2>1. CASE k # h
    <3>1. OthersKept(h)
      BY <1>0, <1>6, ScanKeepsOthers, IntakeKeepsOthers, InterruptionKeepsOthers
    <3>2. /\ stage'[k] = stage[k] /\ owner'[k] = owner[k]
          /\ current'[k] = current[k] /\ letter'[k] = letter[k]
      BY <2>1, <3>1 DEF OthersKept
    <3> QED BY <1>1, <1>2, <1>3, <3>2
  <2>2. CASE k = h /\ Interrupted(h)
    <3>1. stage'[h] = "idle"
      BY <1>0, <2>2 DEF Interrupted, Reach, DiscoveryTypeOK
    <3> QED BY <1>3, <2>2, <3>1 DEF Filing, Answering
  <2>3. CASE k = h /\ ScanStep(h) /\ UNCHANGED intake
    BY <1>0, <1>1, <1>3, <1>4, <2>3, ScanFiles
  <2>4. CASE k = h /\ IntakeStep(h)
    BY <1>0, <1>2, <1>3, <1>5, <2>4, IntakeFiles
  <2> QED BY <1>6, <2>1, <2>2, <2>3, <2>4
<1>7. ASSUME UNCHANGED discoveryVars, NEW k \in Handler PROVE Known(k)'
  BY <1>1, <1>2, <1>3, <1>7 DEF discoveryVars, progress, intake
<1>8. \A k \in Handler : Known(k)'
  BY <1>6, <1>7 DEF DiscoveryNext
<1> QED BY <1>8 DEF CompaniesKnown

\* Evidence is filed under a company that is known by what the entity said, and
\* stays with it or moves to another such (save_evidence).
LEMMA EvidenceStillStands ==
  ASSUME DiscoveryInv, [DiscoveryNext]_discoveryVars
  PROVE  EvidenceStands'
<1>0. /\ EvidenceStands /\ CompaniesKnown /\ TypeOK /\ DiscoveryTypeOK
      /\ \A k \in Handler : HandlerAgrees(k)
  BY DEF DiscoveryInv, Bookkeeping
<1>1. known \subseteq known'
  BY ResolvingAdds, ScanResolves, IntakeResolves, InterruptionResolves
     DEF DiscoveryNext, discoveryVars, vars
<1>2. ASSUME NEW c \in stored, NEW f \in Fact, NEW e \in Entity, e.fact = f, e.who \in known,
             Covers(company[c], e.who)
      PROVE  c \in stored' /\ Supports(c, f)'
  <2>1. e.who \in Profile
    BY EntitiesAreObserved, ObservationsAreProfiles
  <2>2. c \in stored' /\ Covers(company'[c], e.who)
    BY <1>2, <2>1, StillCovers
  <2> QED BY <1>1, <1>2, <2>2 DEF Supports, Covers, Identifiers, Identifiable
<1>3. ASSUME NEW f \in Fact, NEW c, evidence[f] = c, c # NoCompany
      PROVE  c \in stored' /\ Supports(c, f)'
  <2>1. c \in stored /\ Supports(c, f)
    BY <1>0, <1>3 DEF EvidenceStands
  <2>2. PICK e \in Entity : e.fact = f /\ e.who \in known /\ Covers(company[c], e.who)
    BY <2>1 DEF Supports
  <2> QED BY <1>2, <2>1, <2>2
<1>4. CASE UNCHANGED evidence
  BY <1>3, <1>4 DEF EvidenceStands
<1>5. ASSUME NEW h \in Handler, StoreEvidence(h) PROVE EvidenceStands'
  <2> DEFINE e == current[h]
  <2>1. /\ e \in Entity /\ e.who \in known /\ owner[h] \in stored
        /\ Covers(company[owner[h]], e.who)
    BY <1>0, <1>5 DEF StoreEvidence, HandlerAgrees, StageAgrees, EntityAgrees, InStage, Filing,
                      CompaniesKnown
  <2>2. e.fact \in Fact
    BY <2>1, EntitiesAreObserved
  <2>3. /\ evidence' = [evidence EXCEPT ![e.fact] = owner[h]]
        /\ UNCHANGED <<stored, company, known>>
    BY <1>5 DEF StoreEvidence, vars
  <2>4. owner[h] \in stored /\ Supports(owner[h], e.fact)
    BY <2>1 DEF Supports
  <2>5. \A f \in Fact : evidence'[f] = IF f = e.fact THEN owner[h] ELSE evidence[f]
    BY <1>0, <2>2, <2>3 DEF DiscoveryTypeOK
  <2> HIDE DEF e
  <2>6. \A f \in Fact : evidence'[f] # NoCompany =>
          evidence'[f] \in stored /\ Supports(evidence'[f], f)
    BY <1>0, <2>4, <2>5 DEF EvidenceStands
  <2> QED BY <2>3, <2>6 DEF EvidenceStands, Supports
<1> QED BY <1>4, <1>5, EvidenceChanges

\* A reply stays with the lead it was drafted for, and its company with whoever
\* wrote (ingest_message).
LEMMA RepliesStillReachSender ==
  ASSUME DiscoveryInv, [DiscoveryNext]_discoveryVars
  PROVE  RepliesReachSender'
<1>0. /\ Bookkeeping /\ RepliesReachSender /\ CompaniesKnown /\ TypeOK /\ DiscoveryTypeOK
      /\ RowsReferToRows /\ RepliesFit /\ \A k \in Handler : HandlerAgrees(k)
  BY DEF DiscoveryInv, Bookkeeping
<1>1. RowsReferToRows' /\ RepliesFit'
  BY <1>0, NextBookkeeping DEF Bookkeeping
<1> SUFFICES ASSUME NEW x \in Exchange, reply'[x] # NoLead
             PROVE  Covers(company'[reply'[x].company], inbound'[x].who)
  BY <1>1 DEF RepliesReachSender, RepliesFit, RowsReferToRows, Covers, Identifiers, Identifiable
<1>2. CASE reply'[x] = reply[x] /\ inbound'[x] = inbound[x]
  <2>1. /\ reply[x].company \in stored /\ inbound[x].who \in Profile
        /\ Covers(company[reply[x].company], inbound[x].who)
    BY <1>0, <1>2 DEF RepliesReachSender, RowsReferToRows, DiscoveryTypeOK, Inbound
  <2> QED BY <1>2, <2>1, StillCovers
<1>3. ASSUME NEW h \in Handler, NEW violation \in BOOLEAN, LogInbound(h, violation)
      PROVE  reply'[x] = reply[x] /\ inbound'[x] = inbound[x]
  <2>1. inbound[letter[h].exchange] = NotLogged
    BY <1>0, <1>3 DEF LogInbound, HandlerAgrees, LetterAgrees, InStage
  <2>2. reply[x] # NoLead /\ reply[x] \in leads /\ reply[x] = inbound[x].lead
    BY <1>0, <1>3 DEF LogInbound, RepliesReachSender
  <2>3. x # letter[h].exchange
    BY <2>1, <2>2 DEF NotLogged
  <2> QED BY <1>0, <1>3, <2>3 DEF LogInbound, DiscoveryTypeOK
<1>4. ASSUME NEW h \in Handler, NEW auto \in BOOLEAN, SaveReply(h, auto)
      PROVE  Covers(company'[reply'[x].company], inbound'[x].who)
  <2>1. CASE x # letter[h].exchange
    BY <1>0, <1>2, <1>4, <2>1 DEF SaveReply, DiscoveryTypeOK
  <2>2. CASE x = letter[h].exchange
    <3>0. stage[h] = "draft" /\ LetterAgrees(h)
      BY <1>0, <1>4 DEF SaveReply, HandlerAgrees
    <3>1. /\ about[h].company = owner[h] /\ inbound[x].who = letter[h].who
          /\ Covers(company[owner[h]], letter[h].who)
      <4>1. about[h].company = owner[h] /\ inbound[x].who = letter[h].who
        BY <2>2, <3>0 DEF LetterAgrees, InStage
      <4>2. Covers(company[owner[h]], letter[h].who)
        BY <1>0, <3>0 DEF CompaniesKnown, InStage, Answering
      <4> QED BY <4>1, <4>2
    <3>2. reply'[x] = about[h] /\ UNCHANGED <<inbound, company>>
      BY <1>0, <1>4, <2>2 DEF SaveReply, DiscoveryTypeOK, vars
    <3> QED BY <3>1, <3>2
  <2> QED BY <2>1, <2>2
<1> QED BY <1>2, <1>3, <1>4, InteractionsChange

\* Nothing is stored and nobody has anything in hand at first.
LEMMA InitDiscovery == DiscoveryInit => DiscoveryInv
<1> SUFFICES ASSUME DiscoveryInit PROVE DiscoveryInv
  OBVIOUS
<1>1. Bookkeeping /\ IInv
  BY InitBookkeeping, InitInv DEF DiscoveryInit
<1>2. CompaniesKnown /\ EvidenceStands /\ RepliesReachSender
  BY DEF DiscoveryInit, InitScan, InitIntake, CompaniesKnown, InStage, Filing, Answering,
         EvidenceStands, RepliesReachSender
<1> QED BY <1>1, <1>2 DEF DiscoveryInv

\* Every step keeps the invariant, whatever else is under way.
LEMMA NextDiscovery ==
  ASSUME DiscoveryInv, OneAtATime, OneAtATime', [DiscoveryNext]_discoveryVars
  PROVE  DiscoveryInv'
<1>1. Bookkeeping'
  BY NextBookkeeping DEF DiscoveryInv
<1>2. IInv'
  BY ScanResolves, IntakeResolves, InterruptionResolves, NextInv
     DEF DiscoveryInv, DiscoveryNext, discoveryVars, vars
<1> QED BY <1>1, <1>2, CompaniesStayKnown, EvidenceStillStands, RepliesStillReachSender
        DEF DiscoveryInv

\* As long as resolutions do not overlap, the invariant holds in every state.
THEOREM DiscoveryInvariance == DiscoverySpec /\ []OneAtATime => []DiscoveryInv
BY InitDiscovery, NextDiscovery, PTL DEF DiscoverySpec

\* As long as resolutions do not overlap, evidence is filed under a stored
\* company that covers something that said this text (scan, save_evidence).
THEOREM EvidenceIsWellFiled == DiscoverySpec /\ []OneAtATime => []EvidenceStands
<1>1. DiscoveryInv => EvidenceStands
  BY DEF DiscoveryInv
<1> QED BY <1>1, DiscoveryInvariance, PTL

\* As long as resolutions do not overlap, a reply is for a lead of a company that
\* covers whoever wrote the message (ingest_message).
THEOREM RepliesAreWellSent == DiscoverySpec /\ []OneAtATime => []RepliesReachSender
<1>1. DiscoveryInv => RepliesReachSender
  BY DEF DiscoveryInv
<1> QED BY <1>1, DiscoveryInvariance, PTL

\* Both the company evidence is filed under and the one it is moved to cover
\* entities that said the text; if these have one domain, so do the companies.
LEMMA PagesStayFiled ==
  ASSUME DiscoveryInv, [DiscoveryNext]_discoveryVars,
         NEW f \in Fact, evidence[f] \notin {NoCompany, evidence'[f]}
  PROVE  ~OfOneDomain(f)
<1>0. /\ EvidenceStands /\ CompaniesKnown /\ OneCompanyPerDomain /\ DiscoveryTypeOK
      /\ \A k \in Handler : HandlerAgrees(k)
  BY DEF DiscoveryInv, Bookkeeping, IInv
<1>1. PICK h \in Handler : StoreEvidence(h)
  BY EvidenceChanges
<1>2. /\ current[h] \in Entity /\ owner[h] \in stored
      /\ Covers(company[owner[h]], current[h].who)
  BY <1>0, <1>1 DEF StoreEvidence, HandlerAgrees, StageAgrees, EntityAgrees, InStage, Filing,
                    CompaniesKnown
<1>3. current[h].fact = f /\ evidence'[f] = owner[h]
  BY <1>0, <1>1, <1>2, EntitiesAreObserved DEF StoreEvidence, DiscoveryTypeOK
<1>4. PICK e \in Entity : e.fact = f /\ Covers(company[evidence[f]], e.who)
  BY <1>0 DEF EvidenceStands, Supports
<1>5. ASSUME NEW d \in Domain, \A o \in Entity : o.fact = f => o.who.domain = d
      PROVE  FALSE
  <2>1. d # NoDomain /\ e.who.domain = d /\ current[h].who.domain = d
    BY <1>2, <1>3, <1>4, <1>5, NonesAreApart
  <2>2. company[evidence[f]].domain = d /\ company[owner[h]].domain = d
    BY <1>2, <1>4, <2>1 DEF Covers
  <2>3. evidence[f] \in stored
    BY <1>0 DEF EvidenceStands
  <2> QED BY <1>0, <1>2, <1>3, <2>1, <2>2, <2>3 DEF OneCompanyPerDomain
<1> QED BY <1>5 DEF OfOneDomain

\* As long as resolutions do not overlap, evidence of pages of one domain is
\* never moved, whatever is resolved, merged and filed besides (save_evidence).
THEOREM PagesKeepEvidence == DiscoverySpec /\ []OneAtATime => PageEvidenceStays
<1>1. DiscoveryInv /\ [DiscoveryNext]_discoveryVars =>
        [\A f \in Fact : evidence[f] \notin {NoCompany, evidence'[f]}
                           => ~OfOneDomain(f)]_discoveryVars
  BY PagesStayFiled
<1> QED BY <1>1, DiscoveryInvariance, PTL DEF DiscoverySpec, PageEvidenceStays

-----------------------------------------------------------------------------
(* How many leads messages make.                                           *)

\* Leads are made in two places.
LEMMA LeadsChange ==
  ASSUME [DiscoveryNext]_discoveryVars
  PROVE  UNCHANGED leads \/ \E h \in Handler : SaveNewLead(h) \/ CreateLead(h)
<1>1. ASSUME NEW h \in Handler, ScanStep(h), ~SaveNewLead(h) PROVE UNCHANGED leads
  BY <1>1 DEF ScanStep, BeginScan, Bootstrap, Discover, NextTarget, FetchPage, SkipTarget,
              ExtractEntities, ResolveEntity, LookFurther, KeepCompany, StoreEvidence,
              EnsureLead, StorageError, FinishPage, EndScan, tables
<1>2. ASSUME NEW h \in Handler, IntakeStep(h), ~CreateLead(h) PROVE UNCHANGED leads
  BY <1>2 DEF IntakeStep, IngestMessage, KeepSender, AttachLead, LogInbound,
              SaveReply, AskApproval, EndIntake, tables
<1> QED BY <1>1, <1>2 DEF DiscoveryNext, discoveryVars, Interrupted, tables

\* Whoever is about to make a lead goes on being so, or has found none a moment
\* ago (_resolve_entity_and_lead).
LEMMA CreateBegins ==
  ASSUME Bookkeeping, [DiscoveryNext]_discoveryVars, NEW k \in Handler, stage'[k] = "create"
  PROVE  \/ stage[k] = "create" /\ owner'[k] = owner[k]
         \/ UNCHANGED <<leads, owner>> /\ LeadsOf(owner[k]) = {}
<1>0. DiscoveryTypeOK
  BY DEF Bookkeeping
<1>1. CASE UNCHANGED discoveryVars
  BY <1>1 DEF discoveryVars
<1>2. ASSUME NEW h \in Handler, OthersKept(h), h # k
      PROVE  stage[k] = "create" /\ owner'[k] = owner[k]
  BY <1>2 DEF OthersKept
<1>3. CASE ScanStep(k) /\ UNCHANGED intake
  <2>1. stage'[k] \in Scanning \cup {"idle", "bootstrap", "sender"}
    <3> USE <1>0 DEF Scanning, Filing, DiscoveryTypeOK, Reach
    <3>1. ASSUME NEW p \in Profiles, Bootstrap(k, p) PROVE stage'[k] = "bootstrap"
      BY <3>1 DEF Bootstrap
    <3>2. ASSUME NEW found \in 0..MaxFound, NEW limit \in 0..MaxFound,
                 NEW freelance \in Freelance, NEW failed \in BOOLEAN,
                 Discover(k, found, freelance, limit, failed)
          PROVE  stage'[k] = "targets"
      BY <3>2 DEF Discover
    <3>3. ASSUME NEW url \in Web!URL, NextTarget(k, url) PROVE stage'[k] \in Scanning
      BY <3>3 DEF NextTarget
    <3>4. ASSUME NEW page \in Page, ExtractEntities(k, page) PROVE stage'[k] = "entities"
      BY <3>4 DEF ExtractEntities
    <3>5. ASSUME NEW e \in Entity, ResolveEntity(k, e) PROVE stage'[k] = "company"
      BY <3>5 DEF ResolveEntity
    <3>6. CASE \/ BeginScan(k) \/ FetchPage(k) \/ SkipTarget(k) \/ LookFurther(k)
               \/ KeepCompany(k) \/ StoreEvidence(k) \/ EnsureLead(k) \/ SaveNewLead(k)
               \/ StorageError(k) \/ FinishPage(k) \/ EndScan(k)
      BY <3>6 DEF BeginScan, FetchPage, SkipTarget, LookFurther, KeepCompany, StoreEvidence,
                  EnsureLead, SaveNewLead, Filed, StorageError, FinishPage, EndScan, Done
    <3> QED BY <1>3, <3>1, <3>2, <3>3, <3>4, <3>5, <3>6 DEF ScanStep
  <2> QED BY <2>1 DEF Scanning, Filing
<1>4. CASE IntakeStep(k)
  <2> USE <1>0 DEF DiscoveryTypeOK, Reach
  <2>1. CASE AttachLead(k)
    BY <2>1 DEF AttachLead, RelevantLeads, tables
  <2>2. ASSUME NEW x \in Exchange, NEW who \in Sender, IngestMessage(k, x, who)
        PROVE  stage'[k] = "sender"
    BY <2>2 DEF IngestMessage
  <2>3. ASSUME NEW violation \in BOOLEAN, LogInbound(k, violation)
        PROVE  stage'[k] \in {"answered", "draft"}
    BY <2>3 DEF LogInbound
  <2>4. ASSUME NEW auto \in BOOLEAN, SaveReply(k, auto) PROVE stage'[k] \in {"answered", "ask"}
    BY <2>4 DEF SaveReply
  <2>5. CASE KeepSender(k) \/ CreateLead(k) \/ AskApproval(k) \/ EndIntake(k)
    BY <2>5 DEF KeepSender, CreateLead, AskApproval, EndIntake
  <2> QED BY <1>4, <2>1, <2>2, <2>3, <2>4, <2>5 DEF IntakeStep
<1>5. CASE Interrupted(k)
  BY <1>0, <1>5 DEF Interrupted, Reach, DiscoveryTypeOK
<1> QED BY <1>1, <1>2, <1>3, <1>4, <1>5, ScanKeepsOthers, IntakeKeepsOthers,
           InterruptionKeepsOthers DEF DiscoveryNext

\* A message's lead is the first of its company to be made for a message.
LEMMA NextOneLead ==
  ASSUME Bookkeeping, OneCreatesAtATime, OneLeadByMessage, CreatesTheFirst,
         [DiscoveryNext]_discoveryVars
  PROVE  OneLeadByMessage' /\ CreatesTheFirst'
<1>0. DiscoveryTypeOK /\ \A k \in Handler : HandlerAgrees(k)
  BY DEF Bookkeeping
<1>1. CASE UNCHANGED leads
  <2>1. CreatesTheFirst'
    BY <1>1, CreateBegins DEF CreatesTheFirst, LeadsOf
  <2> QED BY <1>1, <2>1 DEF OneLeadByMessage
<1>2. ASSUME NEW h \in Handler, SaveNewLead(h) PROVE OneLeadByMessage' /\ CreatesTheFirst'
  <2>1. leads' = leads \cup {OwnLead(owner[h])} /\ OwnLead(owner[h]).name = "own"
    BY <1>2 DEF SaveNewLead, OwnLead
  <2>2. OneLeadByMessage'
    BY <2>1 DEF OneLeadByMessage
  <2>3. CreatesTheFirst'
    BY <2>1, CreateBegins DEF CreatesTheFirst, LeadsOf
  <2> QED BY <2>2, <2>3
<1>3. ASSUME NEW h \in Handler, CreateLead(h) PROVE OneLeadByMessage' /\ CreatesTheFirst'
  <2>1. /\ leads' = leads \cup {about[h]} /\ about[h].company = owner[h]
        /\ stage[h] = "create" /\ stage' = [stage EXCEPT ![h] = "inbound"] /\ owner' = owner
    <3>1. LetterAgrees(h)
      BY <1>0 DEF HandlerAgrees
    <3> QED BY <1>3, <3>1 DEF CreateLead, Reach, LetterAgrees
  <2>2. \A l \in leads : l.company = owner[h] => l.name = "own"
    BY <2>1 DEF CreatesTheFirst
  <2>3. OneLeadByMessage'
    BY <2>1, <2>2 DEF OneLeadByMessage
  <2>4. CreatesTheFirst'
    <3> SUFFICES ASSUME NEW k \in Handler, stage'[k] = "create", NEW l \in leads',
                        l.company = owner'[k]
                 PROVE  l.name = "own"
      BY DEF CreatesTheFirst
    <3>1. k # h
      BY <1>0, <2>1 DEF DiscoveryTypeOK
    <3>2. owner'[k] = owner[k] /\ stage[k] = "create"
      BY <1>0, <2>1, <3>1 DEF DiscoveryTypeOK
    <3>3. owner[k] # owner[h]
      BY <2>1, <3>1, <3>2 DEF OneCreatesAtATime
    <3> QED BY <2>1, <3>2, <3>3 DEF CreatesTheFirst
  <2> QED BY <2>3, <2>4
<1> QED BY <1>1, <1>2, <1>3, LeadsChange

\* As long as no two handlers are at once between not finding a lead of one
\* company and saving one, messages add at most one lead to it, however
\* else scans and intakes overlap and stop (_resolve_entity_and_lead).
THEOREM MessagesMakeOneLead == DiscoverySpec /\ []OneCreatesAtATime => []OneLeadByMessage
<1>1. DiscoveryInit => OneLeadByMessage /\ CreatesTheFirst
  BY DEF DiscoveryInit, InitScan, OneLeadByMessage, CreatesTheFirst
<1> QED BY <1>1, BooksAreKept, NextOneLead, PTL DEF DiscoverySpec

-----------------------------------------------------------------------------
(* What the intake service promises to whoever reads its records.          *)

\* A step that logs no message, drafts no reply and asks for no approval only
\* adds leads.
LEMMA OthersAddLeads ==
  ASSUME [DiscoveryNext]_discoveryVars, UNCHANGED interactions
  PROVE  [Mail!Next]_<<leads, inbound, reply, asked>>
<1>1. leads \subseteq leads'
  BY LeadsChange DEF SaveNewLead, CreateLead
<1> QED BY <1>1 DEF Mail!Next, Mail!AddLeads, interactions

\* Whatever the intake service does next is what Correspondence allows, since
\* nobody else touches what is under a handler's exchange (LetterAgrees).
LEMMA IntakeKeepsRecords ==
  ASSUME Bookkeeping, NEW h \in Handler, IntakeStep(h)
  PROVE  [Mail!Next]_<<leads, inbound, reply, asked>>
<1> DEFINE x == letter[h].exchange
<1>0. /\ DiscoveryTypeOK /\ RowsReferToRows /\ RepliesFit /\ LetterAgrees(h)
      /\ \A l \in leads : l # NoLead
  BY NoneIsNoLead DEF Bookkeeping, HandlerAgrees, DiscoveryTypeOK
<1>1. ASSUME NEW violation \in BOOLEAN, LogInbound(h, violation) PROVE Mail!Next
  <2>1. x \in Exchange /\ inbound[x] = NotLogged /\ about[h] \in leads
    BY <1>0, <1>1 DEF LogInbound, LetterAgrees, InStage, Answering
  <2>2. inbound'[x].lead = about[h] /\ inbound' = [inbound EXCEPT ![x] = inbound'[x]]
    BY <1>0, <1>1, <2>1 DEF LogInbound, DiscoveryTypeOK
  <2>3. Mail!Log(x)
    BY <1>1, <2>1, <2>2 DEF LogInbound, Mail!Log, tables
  <2> QED BY <2>1, <2>3 DEF Mail!Next
<1>2. ASSUME NEW auto \in BOOLEAN, SaveReply(h, auto)
      PROVE  [Mail!Next]_<<leads, inbound, reply, asked>>
  <2>1. /\ x \in Exchange /\ about[h] \in leads
        /\ inbound[x] = [lead |-> about[h], who |-> letter[h].who, violation |-> FALSE]
    BY <1>0, <1>2 DEF SaveReply, LetterAgrees, InStage, Answering
  <2>2. inbound[x] # NotLogged /\ ~inbound[x].violation /\ inbound[x].lead = about[h]
    BY <1>0, <2>1 DEF NotLogged
  <2>3. reply' = [reply EXCEPT ![x] = about[h]] /\ UNCHANGED <<leads, inbound, asked>>
    BY <1>2 DEF SaveReply, tables
  <2>4. CASE reply[x] = NoLead
    BY <2>1, <2>2, <2>3, <2>4 DEF Mail!Next, Mail!Answer
  <2>5. CASE reply[x] # NoLead
    <3>1. reply[x] = about[h]
      BY <1>0, <2>1, <2>2, <2>5 DEF RepliesFit
    <3> QED BY <1>0, <2>3, <3>1 DEF DiscoveryTypeOK
  <2> QED BY <2>4, <2>5
<1>3. CASE AskApproval(h)
  <2>1. x \in Exchange /\ reply[x] # NoLead
    BY <1>0, <1>3 DEF AskApproval, LetterAgrees, InStage, Answering
  <2>2. Mail!Ask(x)
    BY <1>3, <2>1 DEF AskApproval, Mail!Ask, tables
  <2> QED BY <2>1, <2>2 DEF Mail!Next
<1>4. CASE \/ \E y \in Exchange, who \in Sender : IngestMessage(h, y, who)
           \/ KeepSender(h) \/ AttachLead(h) \/ CreateLead(h) \/ EndIntake(h)
  <2>1. UNCHANGED interactions /\ leads \subseteq leads'
    BY <1>4 DEF IngestMessage, KeepSender, AttachLead, CreateLead, EndIntake, tables, intake
  <2> QED BY <2>1 DEF Mail!Next, Mail!AddLeads, interactions
<1> QED BY <1>1, <1>2, <1>3, <1>4 DEF IntakeStep

\* Whatever overlaps and wherever it stops: messages are logged once, on leads
\* that are there, answered at most once and for that lead, asked for
\* afterwards, and never changed (ingest_message).
THEOREM IntakeKeepsItsWord == DiscoverySpec => RecordsAreKept
<1>1. DiscoveryInit => Mail!Init
  BY DEF DiscoveryInit, InitScan, InitIntake, Mail!Init
<1>2. Bookkeeping /\ [DiscoveryNext]_discoveryVars => [Mail!Next]_<<leads, inbound, reply, asked>>
  <2> SUFFICES ASSUME Bookkeeping, [DiscoveryNext]_discoveryVars
               PROVE  [Mail!Next]_<<leads, inbound, reply, asked>>
    OBVIOUS
  <2>1. CASE \E h \in Handler : IntakeStep(h)
    BY <2>1, IntakeKeepsRecords
  <2>2. CASE UNCHANGED interactions
    BY <2>2, OthersAddLeads
  <2> QED BY <2>1, <2>2 DEF DiscoveryNext, discoveryVars, intake, Interrupted
<1> QED BY <1>1, <1>2, BooksAreKept, PTL DEF DiscoverySpec, RecordsAreKept, Mail!Spec
=============================================================================
