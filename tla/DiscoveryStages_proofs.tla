------------------------ MODULE DiscoveryStages_proofs ------------------------
(***************************************************************************)
(* Proofs about Discovery, for any number of scans and intakes that        *)
(* overlap and stop anywhere: Bookkeeping is inductive.  Each step is      *)
(* looked at from the handler that takes it; what the others rely on it    *)
(* leaves as it is (OthersKept).                                           *)
(***************************************************************************)
EXTENDS Discovery_proofs

\* What a step of h leaves to the other handlers.
OthersKept(h) ==
  /\ \A k \in Handler \ {h} :
       /\ stage'[k] = stage[k] /\ pc'[k] = pc[k] /\ seen'[k] = seen[k]
       /\ fetch'[k] = fetch[k] /\ owner'[k] = owner[k]
       /\ todo'[k] = todo[k] /\ current'[k] = current[k]
       /\ clean'[k] = clean[k] /\ unfiled'[k] = unfiled[k]
       /\ letter'[k] = letter[k] /\ about'[k] = about[k]
  /\ profiles \subseteq profiles' /\ profiles' \subseteq Profiles
  /\ stored \subseteq stored' /\ known \subseteq known' /\ leads \subseteq leads'
  /\ \A x \in Exchange : x # letter[h].exchange =>
       inbound'[x] = inbound[x] /\ reply'[x] = reply[x]

\* What the others rely on they still can.
LEMMA OthersAgree ==
  ASSUME Bookkeeping, NEW h \in Handler, OthersKept(h), NEW k \in Handler \ {h}
  PROVE  HandlerAgrees(k)'
<1>1. HandlerAgrees(k)
  BY DEF Bookkeeping
<1>2. letter[k].exchange \in Exchange => letter[k].exchange # letter[h].exchange
  BY NoneIsNoExchange DEF Bookkeeping, LettersApart
<1>3. StageAgrees(k)'
  BY <1>1 DEF HandlerAgrees, StageAgrees, InStage, Filing, OthersKept
<1>4. EntityAgrees(k)'
  BY <1>1 DEF HandlerAgrees, EntityAgrees, InStage, Filing, OthersKept
<1>5. LetterAgrees(k)'
  <2>1. /\ stage'[k] = stage[k] /\ seen'[k] = seen[k] /\ owner'[k] = owner[k]
        /\ letter'[k] = letter[k] /\ about'[k] = about[k] /\ leads \subseteq leads'
    BY DEF OthersKept
  <2>2. letter[k].exchange \in Exchange =>
          /\ inbound'[letter[k].exchange] = inbound[letter[k].exchange]
          /\ reply'[letter[k].exchange] = reply[letter[k].exchange]
    BY <1>2 DEF OthersKept
  <2>3. NotLogged' = NotLogged
    BY DEF NotLogged, NoProfile
  <2>4. LetterAgrees(k)
    BY <1>1 DEF HandlerAgrees
  <2> QED BY <2>1, <2>2, <2>3, <2>4 DEF LetterAgrees, InStage, Answering
<1>6. NothingMissed(k)'
  BY <1>1 DEF HandlerAgrees, NothingMissed, InStage, Filing, OthersKept
<1> QED BY <1>3, <1>4, <1>5, <1>6 DEF HandlerAgrees

\* A step of EntityResolution only adds to what is stored.
LEMMA ResolvingAdds ==
  ASSUME [Next]_vars
  PROVE  stored \subseteq stored' /\ known \subseteq known'
BY DEF Next, vars, Resolve, FindByContacts, FindByName, SaveCompany, Dies

-----------------------------------------------------------------------------
(* What a step leaves to the others.                                       *)

\* A scan works on its own variables and only adds rows (scan).
LEMMA ScanKeepsOthers ==
  ASSUME Bookkeeping, NEW h \in Handler, ScanStep(h), UNCHANGED intake
  PROVE  OthersKept(h)
<1> USE DEF OthersKept, Bookkeeping, TypeOK, DiscoveryTypeOK, Web!FetchInv, Web!FetchOK,
            Reach, vars, tables, progress, intake, interactions
<1>0. stored \subseteq stored' /\ known \subseteq known'
  BY ScanResolves, ResolvingAdds
<1>1. CASE BeginScan(h)
  BY <1>1 DEF BeginScan
<1>2. ASSUME NEW p \in Profiles, Bootstrap(h, p) PROVE OthersKept(h)
  BY <1>2 DEF Bootstrap
<1>3. ASSUME NEW found \in 0..MaxFound, NEW limit \in 0..MaxFound,
             NEW freelance \in Freelance, NEW failed \in BOOLEAN,
             Discover(h, found, freelance, limit, failed)
      PROVE  OthersKept(h)
  BY <1>3 DEF Discover
<1>4. ASSUME NEW url \in Web!URL, NextTarget(h, url) PROVE OthersKept(h)
  BY <1>4 DEF NextTarget, Web!RouteAcquisition
<1>5. CASE FetchPage(h)
  BY <1>5 DEF FetchPage, Web!FetchStep, Web!CheckHop, Web!Answer, Web!Redirect
<1>6. CASE SkipTarget(h)
  BY <1>6 DEF SkipTarget, Web!Forget
<1>7. ASSUME NEW page \in Page, ExtractEntities(h, page) PROVE OthersKept(h)
  BY <1>7 DEF ExtractEntities, Web!Forget
<1>8. ASSUME NEW e \in Entity, ResolveEntity(h, e) PROVE OthersKept(h)
  BY <1>0, <1>8 DEF ResolveEntity, Resolve, WillSave, Goto
<1>9. CASE LookFurther(h)
  BY <1>0, <1>9 DEF LookFurther, FindByContacts, FindByName, WillSave, Goto
<1>10. CASE KeepCompany(h)
  BY <1>0, <1>10 DEF KeepCompany, SaveCompany, Finish, Goto
<1>11. CASE StoreEvidence(h)
  BY <1>11 DEF StoreEvidence
<1>12. CASE EnsureLead(h) \/ SaveNewLead(h)
  BY <1>12 DEF EnsureLead, SaveNewLead, Filed, Done
<1>13. CASE StorageError(h)
  BY <1>0, <1>13 DEF StorageError, Abandon, Dies, Finish, Goto, Done
<1>14. CASE FinishPage(h) \/ EndScan(h)
  BY <1>14 DEF FinishPage, EndScan
<1> QED BY <1>1, <1>2, <1>3, <1>4, <1>5, <1>6, <1>7, <1>8, <1>9, <1>10, <1>11,
           <1>12, <1>13, <1>14 DEF ScanStep

\* A message is logged and answered under its own exchange (ingest_message).
LEMMA IntakeKeepsOthers ==
  ASSUME Bookkeeping, NEW h \in Handler, IntakeStep(h)
  PROVE  OthersKept(h)
<1> USE DEF OthersKept, Bookkeeping, TypeOK, DiscoveryTypeOK,
            Reach, vars, tables, progress, intake, interactions
<1>0. stored \subseteq stored' /\ known \subseteq known'
  BY IntakeResolves, ResolvingAdds
<1>1. ASSUME NEW x \in Exchange, NEW who \in Sender, IngestMessage(h, x, who)
      PROVE  OthersKept(h)
  BY <1>0, <1>1 DEF IngestMessage, Resolve, WillSave, Goto
<1>2. CASE KeepSender(h)
  BY <1>0, <1>2 DEF KeepSender, SaveCompany, Finish, Goto
<1>3. CASE AttachLead(h)
  BY <1>3 DEF AttachLead
<1>4. CASE CreateLead(h)
  BY <1>4 DEF CreateLead
<1>5. ASSUME NEW violation \in BOOLEAN, LogInbound(h, violation) PROVE OthersKept(h)
  BY <1>5 DEF LogInbound
<1>6. ASSUME NEW auto \in BOOLEAN, SaveReply(h, auto) PROVE OthersKept(h)
  BY <1>6 DEF SaveReply
<1>7. CASE AskApproval(h) \/ EndIntake(h)
  BY <1>7 DEF AskApproval, EndIntake
<1> QED BY <1>1, <1>2, <1>3, <1>4, <1>5, <1>6, <1>7 DEF IntakeStep

\* A process that dies leaves the tables as they are.
LEMMA InterruptionKeepsOthers ==
  ASSUME Bookkeeping, NEW h \in Handler, Interrupted(h)
  PROVE  OthersKept(h)
<1>1. stored \subseteq stored' /\ known \subseteq known'
  BY InterruptionResolves, ResolvingAdds
<1> QED
  BY <1>1 DEF Interrupted, Abandon, Dies, Finish, Goto, Web!Forget, OthersKept,
              Bookkeeping, TypeOK, DiscoveryTypeOK, Web!FetchInv, Web!FetchOK,
              Reach, vars, tables, interactions

-----------------------------------------------------------------------------
(* What the handler itself relies on next.                                 *)

\* A scan stores, after a failure or without, what it resolved last (scan).
LEMMA ScanAgrees ==
  ASSUME Bookkeeping, NEW h \in Handler, ScanStep(h), UNCHANGED intake
  PROVE  HandlerAgrees(h)'
<1>0. /\ HandlerAgrees(h) /\ TypeOK /\ HandlersTyped /\ DiscoveryTypeOK
      /\ fetch \in [Handler -> Web!Fetch]
  BY DEF Bookkeeping, Web!FetchInv, Web!FetchOK
<1> USE <1>0 DEF TypeOK, DiscoveryTypeOK, HandlerAgrees, StageAgrees, EntityAgrees,
                 LetterAgrees, NothingMissed, InStage, Filing, Scanning, Answering,
                 Reach, vars, tables, progress, intake, interactions
<1>1. CASE BeginScan(h)
  BY <1>1 DEF BeginScan
<1>2. ASSUME NEW p \in Profiles, Bootstrap(h, p) PROVE HandlerAgrees(h)'
  BY <1>2 DEF Bootstrap
<1>3. ASSUME NEW found \in 0..MaxFound, NEW limit \in 0..MaxFound,
             NEW freelance \in Freelance, NEW failed \in BOOLEAN,
             Discover(h, found, freelance, limit, failed)
      PROVE  HandlerAgrees(h)'
  BY <1>3 DEF Discover
<1>4. ASSUME NEW url \in Web!URL, NextTarget(h, url) PROVE HandlerAgrees(h)'
  BY <1>4 DEF NextTarget, Web!RouteAcquisition, Web!Unrequested
<1>5. CASE FetchPage(h)
  <2>1. fetch'[h].at # "none"
    BY <1>5 DEF FetchPage, Web!FetchStep, Web!CheckHop, Web!Went, Web!Answer, Web!Redirect,
                Web!Requested
  <2> QED BY <1>5, <2>1 DEF FetchPage
<1>6. CASE SkipTarget(h)
  BY <1>6 DEF SkipTarget, Web!Forget, Web!NoFetch, Web!Unrequested
<1>7. ASSUME NEW page \in Page, ExtractEntities(h, page) PROVE HandlerAgrees(h)'
  BY <1>7 DEF ExtractEntities, Web!Forget, Web!NoFetch, Web!Unrequested
<1>8. ASSUME NEW e \in Entity, ResolveEntity(h, e) PROVE HandlerAgrees(h)'
  BY <1>8 DEF ResolveEntity, Resolve, WillSave, Goto
<1>9. CASE LookFurther(h)
  BY <1>9 DEF LookFurther, FindByContacts, FindByName, WillSave, Goto
<1>10. CASE KeepCompany(h)
  BY <1>10 DEF KeepCompany, SaveCompany, Finish, Goto
<1>11. CASE StoreEvidence(h)
  BY <1>11 DEF StoreEvidence
<1>12. CASE EnsureLead(h) \/ SaveNewLead(h)
  BY <1>12 DEF EnsureLead, SaveNewLead, Filed, Done
<1>13. CASE StorageError(h)
  BY <1>13 DEF StorageError, Abandon, Dies, Finish, Goto, Done
<1>14. CASE FinishPage(h)
  BY <1>14 DEF FinishPage
<1>15. CASE EndScan(h)
  BY <1>15 DEF EndScan
<1> HIDE DEF HandlerAgrees
<1> QED BY <1>1, <1>2, <1>3, <1>4, <1>5, <1>6, <1>7, <1>8, <1>9, <1>10, <1>11,
           <1>12, <1>13, <1>14, <1>15 DEF ScanStep

\* An intake answers the letter whose sender it resolved (ingest_message).
LEMMA IntakeAgrees ==
  ASSUME Bookkeeping, NEW h \in Handler, IntakeStep(h)
  PROVE  HandlerAgrees(h)'
<1>0. /\ HandlerAgrees(h) /\ TypeOK /\ HandlersTyped /\ DiscoveryTypeOK
  BY DEF Bookkeeping
<1> USE <1>0 DEF TypeOK, DiscoveryTypeOK, HandlerAgrees, StageAgrees, EntityAgrees,
                 LetterAgrees, NothingMissed, InStage, Filing, Scanning, Answering,
                 Reach, vars, tables, progress, intake, interactions
<1>1. ASSUME NEW x \in Exchange, NEW who \in Sender, IngestMessage(h, x, who)
      PROVE  HandlerAgrees(h)'
  BY <1>1 DEF IngestMessage, Unused, Resolve, WillSave, Goto
<1>2. CASE KeepSender(h)
  BY <1>2 DEF KeepSender, SaveCompany, Finish, Goto
<1>3. CASE AttachLead(h)
  BY <1>3 DEF AttachLead, RelevantLeads, LeadsOf
<1>4. CASE CreateLead(h)
  BY <1>4 DEF CreateLead
<1>5. ASSUME NEW violation \in BOOLEAN, LogInbound(h, violation) PROVE HandlerAgrees(h)'
  BY <1>5 DEF LogInbound
<1>6. ASSUME NEW auto \in BOOLEAN, SaveReply(h, auto) PROVE HandlerAgrees(h)'
  BY <1>6 DEF SaveReply
<1>7. CASE AskApproval(h)
  BY <1>7 DEF AskApproval
<1>8. CASE EndIntake(h)
  BY <1>8 DEF EndIntake
<1> QED BY <1>1, <1>2, <1>3, <1>4, <1>5, <1>6, <1>7, <1>8 DEF IntakeStep

\* A process that died is about to do nothing.
LEMMA InterruptionAgrees ==
  ASSUME Bookkeeping, NEW h \in Handler, Interrupted(h)
  PROVE  HandlerAgrees(h)'
<1>1. /\ stage'[h] = "idle" /\ pc'[h] = "idle" /\ fetch'[h].at = "none"
      /\ todo'[h] = {} /\ clean'[h] /\ unfiled'[h] = {}
  BY DEF Interrupted, Abandon, Dies, Finish, Goto, Web!Forget, Web!NoFetch,
         Web!Unrequested, Bookkeeping, TypeOK, DiscoveryTypeOK, Web!FetchInv, Web!FetchOK,
         Reach, vars
<1> QED BY <1>1 DEF HandlerAgrees, StageAgrees, EntityAgrees, LetterAgrees, NothingMissed,
                    InStage, Filing, Scanning, Answering

-----------------------------------------------------------------------------
(* What the tables say.                                                    *)

\* No step of a scan stores what is not a row.
LEMMA ScanTyped ==
  ASSUME Bookkeeping, NEW h \in Handler, ScanStep(h), UNCHANGED intake
  PROVE  DiscoveryTypeOK'
<1>0. TypeOK /\ HandlersTyped /\ DiscoveryTypeOK /\ HandlerAgrees(h)
  BY DEF Bookkeeping
<1> USE <1>0 DEF TypeOK, DiscoveryTypeOK, Stage, Reach, vars, tables, progress, intake,
                 interactions
<1>1. CASE BeginScan(h) \/ FinishPage(h) \/ EndScan(h)
  BY <1>1 DEF BeginScan, FinishPage, EndScan
<1>2. ASSUME NEW p \in Profiles, Bootstrap(h, p) PROVE DiscoveryTypeOK'
  BY <1>2 DEF Bootstrap
<1>3. ASSUME NEW found \in 0..MaxFound, NEW limit \in 0..MaxFound,
             NEW freelance \in Freelance, NEW failed \in BOOLEAN,
             Discover(h, found, freelance, limit, failed)
      PROVE  DiscoveryTypeOK'
  <2>1. Targets(found, freelance, limit) \in Nat
    BY FoundIsFinite DEF Targets, Freelance
  <2> QED BY <1>3, <2>1 DEF Discover
<1>4. ASSUME NEW url \in Web!URL, NextTarget(h, url) PROVE DiscoveryTypeOK'
  <2>1. left[h] - 1 \in Nat
    BY <1>4 DEF NextTarget
  <2> QED BY <1>4, <2>1 DEF NextTarget
<1>5. CASE FetchPage(h) \/ SkipTarget(h)
  BY <1>5 DEF FetchPage, SkipTarget
<1>6. ASSUME NEW page \in Page, ExtractEntities(h, page) PROVE DiscoveryTypeOK'
  BY <1>6, PagesShowEntities DEF ExtractEntities
<1>7. ASSUME NEW e \in Entity, ResolveEntity(h, e) PROVE DiscoveryTypeOK'
  BY <1>7 DEF ResolveEntity
<1>8. CASE LookFurther(h)
  BY <1>8 DEF LookFurther
<1>9. CASE KeepCompany(h)
  BY <1>9 DEF KeepCompany, SaveCompany, HandlersTyped
<1>10. CASE StoreEvidence(h)
  BY <1>10 DEF StoreEvidence
<1>11. CASE EnsureLead(h) \/ SaveNewLead(h)
  <2>1. owner[h] \in Company
    BY <1>11 DEF EnsureLead, SaveNewLead, HandlerAgrees, StageAgrees, InStage, Filing
  <2>2. CASE EnsureLead(h)
    BY <2>2 DEF EnsureLead, Filed, Done
  <2>3. CASE SaveNewLead(h)
    BY <2>1, <2>3 DEF SaveNewLead, Filed, Done, OwnLead, Lead
  <2> QED BY <1>11, <2>2, <2>3
<1>12. CASE StorageError(h)
  BY <1>12 DEF StorageError, Done
<1> QED BY <1>1, <1>2, <1>3, <1>4, <1>5, <1>6, <1>7, <1>8, <1>9, <1>10, <1>11, <1>12
        DEF ScanStep

\* Nor does a step of an intake.
LEMMA IntakeTyped ==
  ASSUME Bookkeeping, NEW h \in Handler, IntakeStep(h)
  PROVE  DiscoveryTypeOK'
<1>0. TypeOK /\ HandlersTyped /\ DiscoveryTypeOK /\ HandlerAgrees(h)
  BY DEF Bookkeeping
<1>1. stage[h] \in Answering =>
        /\ owner[h] \in Company /\ letter[h].exchange \in Exchange
        /\ letter[h].who \in Profile
  BY <1>0 DEF HandlerAgrees, StageAgrees, LetterAgrees, InStage, TypeOK, DiscoveryTypeOK, Letter
<1> USE <1>0 DEF TypeOK, DiscoveryTypeOK, Stage, Reach, vars, tables, progress, intake,
                 interactions
<1>2. ASSUME NEW x \in Exchange, NEW who \in Sender, IngestMessage(h, x, who)
      PROVE  DiscoveryTypeOK'
  <2>1. [exchange |-> x, who |-> who] \in Letter
    BY SendersAreObserved, ObservationsAreProfiles DEF Letter
  <2> QED BY <1>2, <2>1 DEF IngestMessage
<1>3. CASE KeepSender(h)
  BY <1>3 DEF KeepSender, SaveCompany, HandlersTyped
<1>4. CASE AttachLead(h)
  <2>1. [company |-> owner[h], name |-> letter[h].exchange] \in Lead
    BY <1>1, <1>4 DEF AttachLead, Answering, Lead
  <2>2. \A l \in RelevantLeads(owner[h]) : l \in Lead
    BY DEF RelevantLeads, LeadsOf
  <2>3. about' \in [Handler -> Lead \cup {NoLead}]
    BY <1>4, <2>1, <2>2 DEF AttachLead
  <2> QED BY <1>4, <2>3 DEF AttachLead
<1>5. CASE CreateLead(h)
  <2>1. about[h] \in Lead
    BY <1>0, <1>1, <1>5 DEF CreateLead, HandlerAgrees, LetterAgrees, Lead, Answering
  <2> QED BY <1>5, <2>1 DEF CreateLead
<1>6. ASSUME NEW violation \in BOOLEAN, LogInbound(h, violation) PROVE DiscoveryTypeOK'
  <2>1. [lead |-> about[h], who |-> letter[h].who, violation |-> violation] \in Inbound
    BY <1>1, <1>6 DEF LogInbound, Inbound, Answering
  <2> QED BY <1>6, <2>1 DEF LogInbound
<1>7. ASSUME NEW auto \in BOOLEAN, SaveReply(h, auto) PROVE DiscoveryTypeOK'
  BY <1>7 DEF SaveReply
<1>8. CASE AskApproval(h)
  BY <1>1, <1>8 DEF AskApproval, Answering
<1>9. CASE EndIntake(h)
  <2>1. NoLetter \in Letter
    BY DEF NoLetter, Letter, NoProfile, Profile
  <2> QED BY <1>9, <2>1 DEF EndIntake
<1> QED BY <1>2, <1>3, <1>4, <1>5, <1>6, <1>7, <1>8, <1>9 DEF IntakeStep

\* Nor does a process that dies.
LEMMA InterruptionTyped ==
  ASSUME Bookkeeping, NEW h \in Handler, Interrupted(h)
  PROVE  DiscoveryTypeOK'
<1>1. NoLetter \in Letter
  BY DEF NoLetter, Letter, NoProfile, Profile
<1> QED BY <1>1 DEF Interrupted, Reach, tables, interactions, Bookkeeping,
                    DiscoveryTypeOK, Stage

\* A letter is given an exchange that is nobody else's (_resolve_entity_and_lead
\* names what it makes with uuid4).
LEMMA LettersStayApart ==
  ASSUME Bookkeeping, [DiscoveryNext]_discoveryVars
  PROVE  LettersApart'
<1>0. LettersApart /\ letter \in [Handler -> Letter]
  BY DEF Bookkeeping, DiscoveryTypeOK
<1>1. CASE UNCHANGED letter
  BY <1>0, <1>1 DEF LettersApart
<1>2. ASSUME NEW h \in Handler, letter' = [letter EXCEPT ![h] = NoLetter]
      PROVE  LettersApart'
  BY <1>0, <1>2 DEF LettersApart, NoLetter
<1>3. ASSUME NEW h \in Handler, NEW x \in Exchange, NEW who \in Sender,
             IngestMessage(h, x, who)
      PROVE  LettersApart'
  BY <1>0, <1>3 DEF IngestMessage, Unused, LettersApart
<1>4. ASSUME NEW h \in Handler, IntakeStep(h) PROVE LettersApart'
  BY <1>1, <1>2, <1>3, <1>4 DEF IntakeStep, KeepSender, AttachLead, CreateLead, LogInbound,
                                SaveReply, AskApproval, EndIntake, intake
<1> QED BY <1>1, <1>2, <1>4 DEF DiscoveryNext, discoveryVars, Interrupted, intake

\* A reply is saved for a message that was logged before, and a request after it
\* (ingest_message).
LEMMA RepliesStayFit ==
  ASSUME Bookkeeping, [DiscoveryNext]_discoveryVars
  PROVE  RepliesFit'
<1>0. RepliesFit /\ DiscoveryTypeOK /\ \A h \in Handler : HandlerAgrees(h)
  BY DEF Bookkeeping
<1>1. CASE UNCHANGED interactions
  BY <1>0, <1>1 DEF interactions, RepliesFit
<1>2. ASSUME NEW h \in Handler, NEW violation \in BOOLEAN, LogInbound(h, violation)
      PROVE  RepliesFit'
  <2> DEFINE x == letter[h].exchange
  <2>1. x \in Exchange /\ inbound[x] = NotLogged
    BY <1>0, <1>2 DEF LogInbound, HandlerAgrees, LetterAgrees, InStage, Answering
  <2>2. reply[x] = NoLead
    BY <1>0, <2>1 DEF RepliesFit, NotLogged
  <2> QED BY <1>0, <1>2, <2>2 DEF LogInbound, RepliesFit, DiscoveryTypeOK
<1>3. ASSUME NEW h \in Handler, NEW auto \in BOOLEAN, SaveReply(h, auto)
      PROVE  RepliesFit'
  <2> DEFINE x == letter[h].exchange
  <2>1. /\ x \in Exchange /\ about[h] \in leads
        /\ inbound[x] = [lead |-> about[h], who |-> letter[h].who, violation |-> FALSE]
    BY <1>0, <1>3 DEF SaveReply, HandlerAgrees, LetterAgrees, InStage, Answering
  <2>2. about[h] # NoLead
    BY <1>0, <2>1, NoneIsNoLead DEF DiscoveryTypeOK
  <2> QED BY <1>0, <1>3, <2>1, <2>2 DEF SaveReply, RepliesFit, DiscoveryTypeOK
<1>4. ASSUME NEW h \in Handler, AskApproval(h)
      PROVE  RepliesFit'
  <2>1. reply[letter[h].exchange] = about[h] /\ about[h] \in leads
    BY <1>0, <1>4 DEF AskApproval, HandlerAgrees, LetterAgrees, InStage
  <2>2. reply[letter[h].exchange] # NoLead
    BY <1>0, <2>1, NoneIsNoLead DEF DiscoveryTypeOK
  <2> QED BY <1>0, <1>4, <2>2 DEF AskApproval, RepliesFit
<1>5. ASSUME NEW h \in Handler, IntakeStep(h) PROVE RepliesFit'
  BY <1>1, <1>2, <1>3, <1>4, <1>5 DEF IntakeStep, IngestMessage, KeepSender, AttachLead,
                                      CreateLead, EndIntake, intake
<1> QED BY <1>1, <1>5 DEF DiscoveryNext, discoveryVars, Interrupted, intake

\* A scan refers to rows that are stored (the foreign keys of the schema).
LEMMA ScanRefers ==
  ASSUME Bookkeeping, NEW h \in Handler, ScanStep(h), UNCHANGED intake
  PROVE  RowsReferToRows'
<1>0. RowsReferToRows /\ HandlerAgrees(h) /\ TypeOK /\ DiscoveryTypeOK
  BY DEF Bookkeeping
<1>1. CASE UNCHANGED <<stored, evidence, leads>> /\ profiles \subseteq profiles'
  BY <1>0, <1>1 DEF RowsReferToRows, intake, interactions
<1>2. ASSUME NEW p \in Profiles, Bootstrap(h, p) PROVE RowsReferToRows'
  BY <1>1, <1>2 DEF Bootstrap, vars
<1>3. ASSUME NEW e \in Entity, ResolveEntity(h, e) PROVE RowsReferToRows'
  BY <1>1, <1>3 DEF ResolveEntity, Resolve, tables
<1>4. CASE LookFurther(h)
  BY <1>1, <1>4 DEF LookFurther, FindByContacts, FindByName, tables
<1>5. CASE StorageError(h)
  BY <1>1, <1>5 DEF StorageError, Abandon, Dies, vars, tables
<1>6. CASE KeepCompany(h)
  <2>1. "country" \in profiles
    BY <1>0, <1>6 DEF KeepCompany, HandlerAgrees, StageAgrees, InStage, Scanning, Profiles
  <2> QED BY <1>0, <1>6, <2>1
             DEF KeepCompany, SaveCompany, RowsReferToRows, tables, intake, interactions
<1>7. CASE StoreEvidence(h)
  <2>1. "sources" \in profiles /\ owner[h] \in stored
    BY <1>0, <1>7 DEF StoreEvidence, HandlerAgrees, StageAgrees, InStage, Filing, Scanning, Profiles
  <2> QED BY <1>0, <1>7, <2>1 DEF StoreEvidence, RowsReferToRows, DiscoveryTypeOK,
                                  vars, intake, interactions
<1>8. CASE SaveNewLead(h)
  <2>1. owner[h] \in stored
    BY <1>0, <1>8 DEF SaveNewLead, HandlerAgrees, StageAgrees, InStage, Filing
  <2> QED BY <1>0, <1>8, <2>1 DEF SaveNewLead, OwnLead, RowsReferToRows, vars, intake,
                                  interactions
<1>9. CASE \/ BeginScan(h) \/ FetchPage(h) \/ SkipTarget(h) \/ EnsureLead(h)
             \/ FinishPage(h) \/ EndScan(h)
  BY <1>1, <1>9 DEF BeginScan, FetchPage, SkipTarget, EnsureLead, FinishPage, EndScan,
                    vars, tables
<1>10. ASSUME NEW found \in 0..MaxFound, NEW limit \in 0..MaxFound,
              NEW freelance \in Freelance, NEW failed \in BOOLEAN,
              Discover(h, found, freelance, limit, failed)
       PROVE  RowsReferToRows'
  BY <1>1, <1>10 DEF Discover, vars, tables
<1>11. ASSUME NEW url \in Web!URL, NextTarget(h, url) PROVE RowsReferToRows'
  BY <1>1, <1>11 DEF NextTarget, vars, tables
<1>12. ASSUME NEW page \in Page, ExtractEntities(h, page) PROVE RowsReferToRows'
  BY <1>1, <1>12 DEF ExtractEntities, vars, tables
<1> QED BY <1>2, <1>3, <1>4, <1>5, <1>6, <1>7, <1>8, <1>9, <1>10, <1>11, <1>12
        DEF ScanStep

\* So does an intake.
LEMMA IntakeRefers ==
  ASSUME Bookkeeping, NEW h \in Handler, IntakeStep(h)
  PROVE  RowsReferToRows'
<1>0. RowsReferToRows /\ HandlerAgrees(h) /\ TypeOK /\ DiscoveryTypeOK
  BY DEF Bookkeeping
<1>1. CASE UNCHANGED <<stored, tables, inbound>>
  BY <1>0, <1>1 DEF RowsReferToRows, tables
<1>2. ASSUME NEW x \in Exchange, NEW who \in Sender, IngestMessage(h, x, who)
      PROVE  RowsReferToRows'
  BY <1>1, <1>2 DEF IngestMessage, Resolve, interactions
<1>3. CASE KeepSender(h)
  BY <1>0, <1>3 DEF KeepSender, SaveCompany, RowsReferToRows, tables, intake, interactions
<1>4. CASE CreateLead(h)
  <2>1. about[h].company \in stored
    BY <1>0, <1>4 DEF CreateLead, HandlerAgrees, StageAgrees, LetterAgrees, InStage, Answering
  <2> QED BY <1>0, <1>4, <2>1 DEF CreateLead, RowsReferToRows, vars, intake, interactions
<1>5. ASSUME NEW violation \in BOOLEAN, LogInbound(h, violation) PROVE RowsReferToRows'
  <2>1. about[h] \in leads
    BY <1>0, <1>5 DEF LogInbound, HandlerAgrees, LetterAgrees, InStage
  <2> QED BY <1>0, <1>5, <2>1 DEF LogInbound, RowsReferToRows, DiscoveryTypeOK, vars, tables
<1>6. CASE AttachLead(h) \/ AskApproval(h) \/ EndIntake(h)
  BY <1>1, <1>6 DEF AttachLead, AskApproval, EndIntake, vars, interactions
<1>7. ASSUME NEW auto \in BOOLEAN, SaveReply(h, auto) PROVE RowsReferToRows'
  BY <1>1, <1>7 DEF SaveReply, vars
<1> QED BY <1>2, <1>3, <1>4, <1>5, <1>6, <1>7 DEF IntakeStep

-----------------------------------------------------------------------------
(* The inductive invariant, and what follows from it.                      *)

\* Nothing is stored and nobody does anything at first.
LEMMA InitBookkeeping == DiscoveryInit => Bookkeeping
<1> SUFFICES ASSUME DiscoveryInit PROVE Bookkeeping
  OBVIOUS
<1>1. NoProfile \in Profile
  BY DEF NoProfile, Profile
<1>2. TypeOK /\ HandlersTyped
  BY <1>1 DEF DiscoveryInit, Init, TypeOK, HandlersTyped
<1>3. DiscoveryTypeOK
  <2>1. NoLetter \in Letter /\ NotLogged \in Inbound
    BY <1>1 DEF NoLetter, Letter, NotLogged, Inbound
  <2> QED BY <2>1 DEF DiscoveryInit, InitScan, InitIntake, DiscoveryTypeOK, Stage
<1>4. RowsReferToRows
  BY DEF DiscoveryInit, Init, InitScan, InitIntake, NotLogged, RowsReferToRows
<1>5. LettersApart /\ RepliesFit
  BY DEF DiscoveryInit, InitIntake, NoLetter, LettersApart, RepliesFit
<1>6. ASSUME NEW h \in Handler PROVE HandlerAgrees(h)
  BY DEF DiscoveryInit, Init, InitScan, InitIntake, Web!InitFetch, Web!NoFetch,
         Web!Unrequested, HandlerAgrees, StageAgrees, EntityAgrees, LetterAgrees,
         NothingMissed, InStage, Filing, Scanning, Answering
<1> QED BY <1>2, <1>3, <1>4, <1>5, <1>6, InitFetching DEF Bookkeeping

\* Nothing happens, nothing changes.
LEMMA BookkeepingStutter ==
  ASSUME Bookkeeping, UNCHANGED discoveryVars
  PROVE  /\ DiscoveryTypeOK' /\ RowsReferToRows'
         /\ \A h \in Handler : HandlerAgrees(h)'
<1> USE DEF discoveryVars, vars, tables, progress, intake, interactions, Bookkeeping
<1>1. DiscoveryTypeOK' /\ RowsReferToRows'
  BY DEF DiscoveryTypeOK, RowsReferToRows
<1>2. ASSUME NEW h \in Handler PROVE HandlerAgrees(h)'
  BY DEF HandlerAgrees, StageAgrees, EntityAgrees, LetterAgrees, NothingMissed, InStage, Filing,
         NotLogged, NoProfile
<1> QED BY <1>1, <1>2

\* Every step keeps the invariant, whoever takes it.
LEMMA NextBookkeeping ==
  ASSUME Bookkeeping, [DiscoveryNext]_discoveryVars
  PROVE  Bookkeeping'
<1>1. ASSUME NEW h \in Handler,
             (ScanStep(h) /\ UNCHANGED intake) \/ IntakeStep(h) \/ Interrupted(h)
      PROVE  /\ DiscoveryTypeOK' /\ RowsReferToRows'
             /\ \A k \in Handler : HandlerAgrees(k)'
  <2>1. DiscoveryTypeOK'
    BY <1>1, ScanTyped, IntakeTyped, InterruptionTyped
  <2>2. RowsReferToRows'
    <3>1. CASE Interrupted(h)
      BY <3>1 DEF Interrupted, Abandon, Dies, vars, tables, interactions, Bookkeeping,
                  RowsReferToRows
    <3> QED BY <1>1, <3>1, ScanRefers, IntakeRefers
  <2>3. HandlerAgrees(h)'
    BY <1>1, ScanAgrees, IntakeAgrees, InterruptionAgrees
  <2>4. OthersKept(h)
    BY <1>1, ScanKeepsOthers, IntakeKeepsOthers, InterruptionKeepsOthers
  <2> QED BY <2>1, <2>2, <2>3, <2>4, OthersAgree
<1>2. DiscoveryTypeOK' /\ RowsReferToRows' /\ \A h \in Handler : HandlerAgrees(h)'
  BY <1>1, BookkeepingStutter DEF DiscoveryNext
<1>3. [Next]_vars
  BY ScanResolves, IntakeResolves, InterruptionResolves DEF DiscoveryNext, discoveryVars, vars
<1>4. TypeOK' /\ HandlersTyped'
  BY <1>3, NextTyped DEF Bookkeeping
<1>5. Web!FetchInv'
  BY FetchingStep DEF Bookkeeping
<1> QED BY <1>2, <1>4, <1>5, LettersStayApart, RepliesStayFit DEF Bookkeeping

\* Whatever scans and intakes overlap, and wherever they stop: rows refer to
\* rows, handlers work on what they resolved, and replies fit their messages.
THEOREM BooksAreKept == DiscoverySpec => []Bookkeeping
BY InitBookkeeping, NextBookkeeping, PTL DEF DiscoverySpec

\* Whatever overlaps: a scan that reports no error has stored a company,
\* evidence and a lead for each entity it came across (scan).
THEOREM ScansTellErrors == DiscoverySpec => []ErrorsTellAll
<1>1. Bookkeeping => ErrorsTellAll
  BY DEF Bookkeeping, HandlerAgrees, NothingMissed, InStage, Filing, ErrorsTellAll
<1> QED BY <1>1, BooksAreKept, PTL

\* Whatever overlaps: a reply that awaits approval is there, and the message it
\* answers was no violation (ingest_message).
THEOREM RepliesCanBeApproved == DiscoverySpec => []RequestsAreAnswerable
<1>1. Bookkeeping => RequestsAreAnswerable
  <2> SUFFICES ASSUME Bookkeeping, NEW x \in asked
               PROVE  reply[x] # NoLead /\ ~inbound[x].violation
    BY DEF RequestsAreAnswerable
  <2>1. x \in Exchange /\ RepliesFit
    BY DEF Bookkeeping, DiscoveryTypeOK
  <2> QED BY <2>1 DEF RepliesFit
<1> QED BY <1>1, BooksAreKept, PTL
=============================================================================
