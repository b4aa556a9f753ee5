----------------------------- MODULE MarketScan -----------------------------
(***************************************************************************)
(* MarketScanner.scan: the rows everything else refers to, the targets,    *)
(* one page after the other, and for each entity on a page its company,    *)
(* its evidence and a lead.  Each of these is a commit of its own; an      *)
(* entity that fails is reported and the next one is taken.  The company   *)
(* is found by EntityResolution, whose steps this module adds to.          *)
(***************************************************************************)
EXTENDS EntityResolution, Naturals

CONSTANTS
  Exchange,      \* messages, for the leads that are made for them
  Fact,          \* texts that evidence is named after, by their hashes
  Entity,        \* who : Observation, fact : Fact
  Page,          \* sets of entities that pages show
  MaxRedirects,
  MaxFound,      \* bound: addresses that a search finds
  NoEntity

ASSUME EntitiesAreObserved == \A e \in Entity : e.who \in Observation /\ e.fact \in Fact
ASSUME PagesShowEntities == Page \subseteq SUBSET Entity
ASSUME NoEntityIsNone == NoEntity \notin Entity
ASSUME OwnIsNoExchange == "own" \notin Exchange
ASSUME RedirectsAreFinite == MaxRedirects \in Nat
ASSUME FoundIsFinite == MaxFound \in Nat

VARIABLES
  profiles,  \* rows of countries, services and sources that are there
  evidence,  \* the company each fact is filed under
  leads,     \* table leads: whose, and how named
  fetch,
  stage,
  owner,     \* the company resolve returned
  left,      \* targets still to do
  todo,      \* entities of the page still to do
  current,   \* the entity being stored
  clean,     \* no error reported so far
  unfiled    \* entities of this scan without evidence or lead

Web == INSTANCE Acquisition

tables == <<profiles, evidence, leads>>
progress == <<left, todo, current, clean, unfiled>>

\* lead_<company>, or a name made up for a message.
Lead == [company : Company, name : {"own"} \cup Exchange]
OwnLead(c) == [company |-> c, name |-> "own"]
LeadsOf(c) == {l \in leads : l.company = c}

Profiles == {"country", "service", "sources"}
Reach(h, s) == stage' = [stage EXCEPT ![h] = s]

InitScan == /\ profiles = {} /\ leads = {}
            /\ evidence = [f \in Fact |-> NoCompany]
            /\ Web!InitFetch
            /\ stage = [h \in Handler |-> "idle"]
            /\ owner = [h \in Handler |-> NoCompany]
            /\ left = [h \in Handler |-> 0]
            /\ todo = [h \in Handler |-> {}]
            /\ current = [h \in Handler |-> NoEntity]
            /\ clean = [h \in Handler |-> TRUE]
            /\ unfiled = [h \in Handler |-> {}]

-----------------------------------------------------------------------------
\* A company's page has a domain and a name, if only "Unknown Enterprise"; of
\* the contacts found on it one of a kind is listed again on its own.
Shown(name, domain, single, many) ==
  [name |-> name, domain |-> domain, single |-> single, many |-> many]
Alone(listed) ==
  {single \in [Slot -> listed \cup {NoContact}] :
     listed # {} => \E s \in Slot : single[s] # NoContact}
WebPages(listed) == {Shown(n, d, single, listed) :
                       n \in Name \cup {NoName}, d \in Domain, single \in Alone(listed)}

\* A platform's listing has an author, or a name made of its title.
Listings == {Shown(n, NoDomain, [s \in Slot |-> NoContact], {}) : n \in Name \cup {NoName}}

\* A page's text names its company, domain and contacts, a listing's does not.
PageEntity(o) == [who |-> o, fact |-> o]
ListingEntity(o, title) == [who |-> o, fact |-> title]

-----------------------------------------------------------------------------
BeginScan(h) == /\ stage[h] = "idle"
                /\ Reach(h, "bootstrap")
                /\ UNCHANGED <<vars, tables, fetch, owner, progress>>

\* What a row of its kind is inserted after: country, service, sources.
Before(p) == CASE p = "country" -> {}
               [] p = "service" -> {"country"}
               [] p = "sources" -> {"country", "service"}

Bootstrap(h, p) == /\ stage[h] = "bootstrap"
                   /\ p \notin profiles /\ Before(p) \subseteq profiles
                   /\ profiles' = profiles \cup {p}
                   /\ UNCHANGED <<vars, evidence, leads, fetch, stage, owner, progress>>

\* The searches of two freelance platforms, of three in Saudi Arabia.
Freelance == {0, 2, 3}
Targets(found, freelance, limit) ==
  IF limit > 0 /\ found + freelance > limit THEN limit ELSE found + freelance

\* found different addresses by searching, each query of which may fail; or
\* those the caller gave, and then nothing is searched.
Discover(h, found, freelance, limit, failed) ==
  /\ stage[h] = "bootstrap"
  /\ profiles = Profiles
  /\ left' = [left EXCEPT ![h] = Targets(found, freelance, limit)]
  /\ clean' = [clean EXCEPT ![h] = ~failed]
  /\ Reach(h, "targets")
  /\ UNCHANGED <<vars, tables, fetch, owner, todo, current, unfiled>>

-----------------------------------------------------------------------------
\* The scanner checks the address as well, before the router does.
NextTarget(h, url) ==
  /\ stage[h] = "targets"
  /\ left[h] > 0
  /\ left' = [left EXCEPT ![h] = @ - 1]
  /\ \/ /\ Web!IsSsrfSafeUrl(url)
        /\ Web!RouteAcquisition(h, url)
        /\ Reach(h, "fetch")
        /\ UNCHANGED clean
     \/ /\ ~Web!IsSsrfSafeUrl(url)
        /\ clean' = [clean EXCEPT ![h] = FALSE]
        /\ UNCHANGED <<fetch, stage>>
  /\ UNCHANGED <<vars, tables, owner, todo, current, unfiled>>

FetchPage(h) == /\ stage[h] = "fetch"
                /\ Web!FetchStep(h)
                /\ UNCHANGED <<vars, tables, stage, owner, progress>>

SkipTarget(h) == /\ stage[h] = "fetch" /\ fetch[h].at = "failed"
                 /\ clean' = [clean EXCEPT ![h] = FALSE]
                 /\ Web!Forget(h)
                 /\ Reach(h, "targets")
                 /\ UNCHANGED <<vars, tables, owner, left, todo, current, unfiled>>

\* A company's page shows one entity, a platform's any number of listings.
ExtractEntities(h, page) ==
  /\ stage[h] = "fetch" /\ fetch[h].at = "page"
  /\ todo' = [todo EXCEPT ![h] = page]
  /\ unfiled' = [unfiled EXCEPT ![h] = @ \cup page]
  /\ Web!Forget(h)
  /\ Reach(h, "entities")
  /\ UNCHANGED <<vars, tables, owner, left, current, clean>>

-----------------------------------------------------------------------------
ResolveEntity(h, e) ==
  /\ stage[h] = "entities"
  /\ e \in todo[h]
  /\ todo' = [todo EXCEPT ![h] = @ \ {e}]
  /\ current' = [current EXCEPT ![h] = e]
  /\ Resolve(h, e.who)
  /\ Reach(h, "company")
  /\ UNCHANGED <<tables, fetch, owner, left, clean, unfiled>>

LookFurther(h) == /\ stage[h] \in {"company", "sender"}
                  /\ FindByContacts(h) \/ FindByName(h)
                  /\ UNCHANGED <<tables, fetch, stage, owner, progress>>

KeepCompany(h) == /\ stage[h] = "company"
                  /\ owner' = [owner EXCEPT ![h] = match[h]]
                  /\ SaveCompany(h)
                  /\ Reach(h, "evidence")
                  /\ UNCHANGED <<tables, fetch, progress>>

\* Mutant of StoreEvidence: the company is looked up again, by its name.
StoreEvidenceByName(h) ==
  /\ stage[h] = "evidence"
  /\ \E c \in stored : /\ company[c].name = current[h].who.name
                      /\ evidence' = [evidence EXCEPT ![current[h].fact] = c]
  /\ Reach(h, "lead")
  /\ UNCHANGED <<vars, profiles, leads, fetch, owner, progress>>

\* The identifier is made of source and text: an upsert, which moves what is
\* already there to the company at hand.
StoreEvidence(h) ==
  /\ stage[h] = "evidence"
  /\ evidence' = [evidence EXCEPT ![current[h].fact] = owner[h]]
  /\ Reach(h, "lead")
  /\ UNCHANGED <<vars, profiles, leads, fetch, owner, progress>>

\* On to the next entity.
Done(h) == /\ owner' = [owner EXCEPT ![h] = NoCompany]
           /\ current' = [current EXCEPT ![h] = NoEntity]
           /\ Reach(h, "entities")

Filed(h) == /\ unfiled' = [unfiled EXCEPT ![h] = @ \ {current[h]}]
            /\ Done(h)
            /\ UNCHANGED <<left, todo, clean>>

\* Somebody else may make the lead between looking for it and saving it.
EnsureLead(h) == /\ stage[h] = "lead"
                 /\ \/ OwnLead(owner[h]) \in leads /\ Filed(h)
                    \/ /\ OwnLead(owner[h]) \notin leads
                       /\ Reach(h, "newLead")
                       /\ UNCHANGED <<owner, progress>>
                 /\ UNCHANGED <<vars, tables, fetch>>

SaveNewLead(h) == /\ stage[h] = "newLead"
                  /\ leads' = leads \cup {OwnLead(owner[h])}
                  /\ Filed(h)
                  /\ UNCHANGED <<vars, profiles, evidence, fetch>>

Filing == {"evidence", "lead", "newLead"}

Abandon(h) == IF pc[h] = "idle" THEN UNCHANGED vars ELSE Dies(h)

\* Mutant of StorageError: the failure is only logged.
StorageErrorUnreported(h) ==
  /\ stage[h] \in {"company"} \cup Filing
  /\ Abandon(h)
  /\ Done(h)
  /\ UNCHANGED <<tables, fetch, left, todo, clean, unfiled>>

\* A statement fails, the database being locked: on to the next entity.
StorageError(h) ==
  /\ stage[h] \in {"company"} \cup Filing
  /\ Abandon(h)
  /\ clean' = [clean EXCEPT ![h] = FALSE]
  /\ Done(h)
  /\ UNCHANGED <<tables, fetch, left, todo, unfiled>>

FinishPage(h) == /\ stage[h] = "entities" /\ todo[h] = {}
                 /\ Reach(h, "targets")
                 /\ UNCHANGED <<vars, tables, fetch, owner, progress>>

\* The summary, and with it the errors, is the caller's.
EndScan(h) == /\ stage[h] = "targets" /\ left[h] = 0
              /\ Reach(h, "idle")
              /\ clean' = [clean EXCEPT ![h] = TRUE]
              /\ unfiled' = [unfiled EXCEPT ![h] = {}]
              /\ UNCHANGED <<vars, tables, fetch, owner, left, todo, current>>

ScanStep(h) ==
  \/ BeginScan(h)
  \/ \E p \in Profiles : Bootstrap(h, p)
  \/ \E found, limit \in 0..MaxFound, freelance \in Freelance, failed \in BOOLEAN :
       Discover(h, found, freelance, limit, failed)
  \/ \E url \in Web!URL : NextTarget(h, url)
  \/ FetchPage(h) \/ SkipTarget(h)
  \/ \E page \in Page : ExtractEntities(h, page)
  \/ \E e \in Entity : ResolveEntity(h, e)
  \/ LookFurther(h) \/ KeepCompany(h) \/ StoreEvidence(h)
  \/ EnsureLead(h) \/ SaveNewLead(h)
  \/ StorageError(h) \/ FinishPage(h) \/ EndScan(h)
=============================================================================
