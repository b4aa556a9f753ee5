----------------------------- MODULE Discovery -----------------------------
(***************************************************************************)
(* Where companies and their leads come from: the scanner and the intake   *)
(* service over one resolver and the same tables.  Every step is a step    *)
(* of EntityResolution or leaves its variables alone.                      *)
(***************************************************************************)
EXTENDS ConversationIntake

discoveryVars == <<vars, tables, fetch, stage, owner, progress, intake>>

DiscoveryInit == Init /\ InitScan /\ InitIntake

\* The process dies, or an error nobody catches ends the operation: any while
\* the scanner bootstraps, any in the intake service.
Interrupted(h) ==
  /\ stage[h] # "idle"
  /\ Abandon(h)
  /\ Web!Forget(h)
  /\ Reach(h, "idle")
  /\ owner' = [owner EXCEPT ![h] = NoCompany]
  /\ left' = [left EXCEPT ![h] = 0]
  /\ todo' = [todo EXCEPT ![h] = {}]
  /\ current' = [current EXCEPT ![h] = NoEntity]
  /\ clean' = [clean EXCEPT ![h] = TRUE]
  /\ unfiled' = [unfiled EXCEPT ![h] = {}]
  /\ letter' = [letter EXCEPT ![h] = NoLetter]
  /\ about' = [about EXCEPT ![h] = NoLead]
  /\ UNCHANGED <<tables, interactions>>

DiscoveryNext == \E h \in Handler : \/ ScanStep(h) /\ UNCHANGED intake
                                    \/ IntakeStep(h)
                                    \/ Interrupted(h)

DiscoverySpec == DiscoveryInit /\ [][DiscoveryNext]_discoveryVars

-----------------------------------------------------------------------------
Stage == {"idle", "bootstrap", "targets", "fetch", "entities", "company", "evidence",
          "lead", "newLead", "sender", "attach", "create", "inbound", "draft", "ask",
          "answered"}

DiscoveryTypeOK ==
  /\ profiles \subseteq Profiles
  /\ evidence \in [Fact -> Company \cup {NoCompany}]
  /\ leads \subseteq Lead
  /\ stage \in [Handler -> Stage]
  /\ owner \in [Handler -> Company \cup {NoCompany}]
  /\ left \in [Handler -> Nat]
  /\ todo \in [Handler -> SUBSET Entity]
  /\ current \in [Handler -> Entity \cup {NoEntity}]
  /\ clean \in [Handler -> BOOLEAN]
  /\ unfiled \in [Handler -> SUBSET Entity]
  /\ inbound \in [Exchange -> Inbound]
  /\ reply \in [Exchange -> Lead \cup {NoLead}]
  /\ asked \subseteq Exchange
  /\ letter \in [Handler -> Letter]
  /\ about \in [Handler -> Lead \cup {NoLead}]

\* Evidence is filed under a company that something saying this very text was
\* resolved to, however the company's row was merged since, whatever failed
\* between resolving and filing (scan, save_evidence).
Supports(c, f) == \E e \in Entity : /\ e.fact = f /\ e.who \in known
                                    /\ Covers(company[c], e.who)
EvidenceStands ==
  \A f \in Fact : evidence[f] # NoCompany =>
    evidence[f] \in stored /\ Supports(evidence[f], f)

\* Evidence is not moved to another company once it is stored ("Evidence is
\* immutable per content hash", docs/07).
EvidenceStays ==
  [][\A f \in Fact : evidence[f] # NoCompany => evidence'[f] = evidence[f]]_discoveryVars

\* Only texts that more than one firm says move it: evidence of pages of one
\* domain stays, whatever else is resolved, merged or filed (save_evidence).
OfOneDomain(f) == \E d \in Domain : \A e \in Entity : e.fact = f => e.who.domain = d
PageEvidenceStays ==
  [][\A f \in Fact : evidence[f] \notin {NoCompany, evidence'[f]}
                       => ~OfOneDomain(f)]_discoveryVars

\* No page is asked for that the check refuses, at whatever hop it turns up,
\* and a chain of redirects is given up after MaxRedirects of them
\* (AcquisitionRouter._fetch_direct_http).
RequestsWithinLimits == Web!RequestsWithinLimits

\* A scan that reports no error has stored a company, evidence and a lead for
\* each entity it came across; checked whenever a page is done, so at its end.
ErrorsTellAll ==
  \A h \in Handler : stage[h] = "targets" /\ clean[h] => unfiled[h] = {}

\* A reply goes to the lead of a company that knows its addressee: what the
\* sender is known by was merged into that company and is still there.  What is
\* known of the sender of an e-mail is first of all its domain
\* (ingest_message, _resolve_entity_and_lead).
RepliesReachSender ==
  \A x \in Exchange : reply[x] # NoLead =>
    /\ reply[x] \in leads
    /\ reply[x] = inbound[x].lead
    /\ Covers(company[reply[x].company], inbound[x].who)

\* Whoever approves a reply finds the draft and the message it answers, and
\* a violation is never answered, wherever the intake service stops (A-008).
RequestsAreAnswerable ==
  \A x \in asked : reply[x] # NoLead /\ ~inbound[x].violation

\* Whatever the intake service is doing when it stops, what it recorded is what
\* it promises: messages logged once, answered and asked for in this order, and
\* nothing changed afterwards (ingest_message).
Mail == INSTANCE Correspondence
RecordsAreKept == Mail!Spec

\* Messages add at most one lead to a company, besides the scanner's own
\* (get_lead_by_company against lead_<company>).
OneLeadByMessage ==
  \A k, l \in leads : k.company = l.company /\ "own" \notin {k.name, l.name} => k = l

-----------------------------------------------------------------------------
(***************************************************************************)
(* Inductive whatever overlaps: what a handler may rely on at each stage   *)
(* of its work, although others change the tables under it.                *)
(***************************************************************************)
InStage(h, S) == stage[h] \in S

Scanning == {"targets", "fetch", "entities", "company"} \cup Filing
Answering == {"attach", "create", "inbound", "draft", "ask"}

RowsReferToRows ==
  /\ stored # {} => "country" \in profiles
  /\ \A f \in Fact : evidence[f] # NoCompany =>
       "sources" \in profiles /\ evidence[f] \in stored
  /\ \A l \in leads : l.company \in stored
  /\ \A x \in Exchange : inbound[x].lead \in leads \cup {NoLead}

StageAgrees(h) ==
  /\ pc[h] # "idle" <=> InStage(h, {"company", "sender"})
  /\ fetch[h].at # "none" <=> stage[h] = "fetch"
  /\ InStage(h, Scanning) => profiles = Profiles
  /\ InStage(h, Filing \cup Answering) => owner[h] \in stored

\* The entity a handler stores is the one it resolved.
EntityAgrees(h) ==
  /\ InStage(h, {"company"} \cup Filing) => current[h] \in Entity
  /\ stage[h] = "company" => seen[h] = current[h].who
  /\ InStage(h, Filing) => current[h].who \in known

\* The letter a handler answers is the one whose sender it resolved, and
\* nobody else touches what is stored under its exchange.
LetterAgrees(h) ==
  LET x == letter[h].exchange
  IN  /\ InStage(h, {"sender"} \cup Answering) => x \in Exchange
      /\ stage[h] = "sender" => seen[h] = letter[h].who
      /\ stage[h] = "create" => about[h] = [company |-> owner[h], name |-> x]
      /\ InStage(h, {"inbound", "draft", "ask"}) =>
           about[h] \in leads /\ about[h].company = owner[h]
      /\ InStage(h, {"sender", "attach", "create", "inbound"}) => inbound[x] = NotLogged
      /\ InStage(h, {"draft", "ask"}) =>
           inbound[x] = [lead |-> about[h], who |-> letter[h].who, violation |-> FALSE]
      /\ stage[h] = "ask" => reply[x] = about[h]

\* Entities that are not filed are still to do, or an error says so.
NothingMissed(h) ==
  /\ clean[h] => unfiled[h] \subseteq todo[h] \cup
       (IF InStage(h, {"company"} \cup Filing) THEN {current[h]} ELSE {})
  /\ ~InStage(h, {"entities", "company"} \cup Filing) => todo[h] = {}
  /\ ~InStage(h, Scanning) => clean[h] /\ unfiled[h] = {}

HandlerAgrees(h) == /\ StageAgrees(h) /\ EntityAgrees(h)
                    /\ LetterAgrees(h) /\ NothingMissed(h)

LettersApart ==
  \A g, h \in Handler : g # h /\ letter[g].exchange = letter[h].exchange =>
                          letter[h].exchange = NoExchange
RepliesFit ==
  \A x \in Exchange :
    /\ reply[x] # NoLead => reply[x] = inbound[x].lead /\ ~inbound[x].violation
    /\ x \in asked => reply[x] # NoLead

Bookkeeping == /\ TypeOK /\ HandlersTyped /\ DiscoveryTypeOK /\ Web!FetchInv
               /\ RowsReferToRows /\ LettersApart /\ RepliesFit
               /\ \A h \in Handler : HandlerAgrees(h)

(***************************************************************************)
(* Inductive as long as resolutions do not overlap: what was resolved is   *)
(* covered by the company it was resolved to until it is filed or answered *)
(* and, with what is stored, ever after.                                   *)
(***************************************************************************)
CompaniesKnown ==
  \A h \in Handler :
    /\ InStage(h, Filing) => Covers(company[owner[h]], current[h].who)
    /\ InStage(h, Answering) => Covers(company[owner[h]], letter[h].who)
DiscoveryInv == /\ Bookkeeping /\ IInv /\ CompaniesKnown
                /\ EvidenceStands /\ RepliesReachSender

(***************************************************************************)
(* With OneLeadByMessage, inductive as long as no two handlers are between *)
(* not finding a lead of one company and saving one.                       *)
(***************************************************************************)
OneCreatesAtATime ==
  \A g, h \in Handler : /\ stage[g] = "create" /\ stage[h] = "create"
                        /\ owner[g] = owner[h]
                        => g = h
CreatesTheFirst ==
  \A h \in Handler : stage[h] = "create" =>
    \A l \in leads : l.company = owner[h] => l.name = "own"
=============================================================================
