-------------------------- MODULE EntityResolution --------------------------
(***************************************************************************)
(* EntityResolver.resolve: which company an observation of a page, or the  *)
(* sender of a message, belongs to.  Three lookups in turn, each a query   *)
(* of its own, then the matched row is enriched and saved whole, or a new  *)
(* company created.  The scanner and the intake service run it, each on a  *)
(* connection of its own, so that other saves fall between the queries.    *)
(***************************************************************************)
EXTENDS FiniteSets

CONSTANTS
  Company, Handler,
  Name,         \* normalized names, each in one country
  Domain,       \* normalized domains
  Contact,      \* normalized e-mail addresses and phone numbers
  Slot,         \* contact keys with one value (email, phone, whatsapp)
  Observation,  \* what sources report
  NoName, NoDomain, NoContact, NoCompany

(***************************************************************************)
(* A company's row and an observation say the same things.  The contacts   *)
(* under keys with a list of values are one set, since merging unites them *)
(* key by key.  NoName is a name of which normalization leaves nothing.    *)
(***************************************************************************)
Profile == [name   : Name \cup {NoName},
            domain : Domain \cup {NoDomain},
            single : [Slot -> Contact \cup {NoContact}],
            many   : SUBSET Contact]

ASSUME ObservationsAreProfiles == Observation \subseteq Profile
ASSUME NonesAreApart == /\ NoName \notin Name /\ NoDomain \notin Domain
                        /\ NoContact \notin Contact /\ NoCompany \notin Company

NoProfile == [name |-> NoName, domain |-> NoDomain,
              single |-> [s \in Slot |-> NoContact], many |-> {}]

VARIABLES
  stored,   \* identifiers in table companies
  company,  \* the rows under them
  known,    \* observations resolved so far
  pc,
  seen,     \* what each handler resolves
  match,    \* the company it will save,
  row       \* and the row it will save there

vars == <<stored, company, known, pc, seen, match, row>>

Init == /\ stored = {} /\ company = [c \in Company |-> NoProfile]
        /\ known = {}
        /\ pc = [h \in Handler |-> "idle"]
        /\ seen = [h \in Handler |-> NoProfile]
        /\ match = [h \in Handler |-> NoCompany]
        /\ row = [h \in Handler |-> NoProfile]

-----------------------------------------------------------------------------
Identifiers(p) == (p.many \cup {p.single[s] : s \in Slot}) \ {NoContact}

\* Mutant of Enriched: what the observation says replaces what is known.
Overwritten(old, o) ==
  [name   |-> old.name,
   domain |-> IF o.domain = NoDomain THEN old.domain ELSE o.domain,
   single |-> [s \in Slot |-> IF o.single[s] = NoContact THEN old.single[s]
                                                         ELSE o.single[s]],
   many   |-> old.many \cup o.many]

\* Missing facts are filled in; what is there stays.
Enriched(old, o) ==
  [name   |-> old.name,
   domain |-> IF old.domain = NoDomain THEN o.domain ELSE old.domain,
   single |-> [s \in Slot |-> IF old.single[s] = NoContact THEN o.single[s]
                                                           ELSE old.single[s]],
   many   |-> old.many \cup o.many]

Conflict(o, p) == NoDomain \notin {o.domain, p.domain} /\ o.domain # p.domain

OnDomain(o) == {c \in stored : o.domain # NoDomain /\ company[c].domain = o.domain}
OnContact(o) == {c \in stored : Identifiers(company[c]) \cap Identifiers(o) # {}}
OnName(o) == {c \in stored : /\ o.name # NoName /\ company[c].name = o.name
                             /\ ~Conflict(o, company[c])}

-----------------------------------------------------------------------------
Goto(h, label) == pc' = [pc EXCEPT ![h] = label]

WillSave(h, c, p) == /\ Goto(h, "save")
                     /\ match' = [match EXCEPT ![h] = c]
                     /\ row' = [row EXCEPT ![h] = p]

\* Mutant of Resolve: contacts are looked up before domains.
ResolveContactsFirst(h, o) ==
  /\ pc[h] = "idle"
  /\ seen' = [seen EXCEPT ![h] = o]
  /\ Goto(h, "contacts")
  /\ UNCHANGED <<stored, company, known, match, row>>

\* Rule 1, the domain.
Resolve(h, o) ==
  /\ pc[h] = "idle"
  /\ seen' = [seen EXCEPT ![h] = o]
  /\ \/ \E c \in OnDomain(o) : WillSave(h, c, Enriched(company[c], o))
     \/ OnDomain(o) = {} /\ Goto(h, "contacts") /\ UNCHANGED <<match, row>>
  /\ UNCHANGED <<stored, company, known>>

\* Rule 2, a shared contact.  Only the first row that shares one is looked
\* at, the order of rows decides which; if its domain differs, rule 3 is next.
FindByContacts(h) ==
  LET o == seen[h]
  IN  /\ pc[h] = "contacts"
      /\ \/ \E c \in OnContact(o) : /\ ~Conflict(o, company[c])
                                    /\ WillSave(h, c, Enriched(company[c], o))
         \/ /\ OnContact(o) = {} \/ \E c \in OnContact(o) : Conflict(o, company[c])
            /\ Goto(h, "names")
            /\ UNCHANGED <<match, row>>
      /\ UNCHANGED <<stored, company, known, seen>>

Fresh(c) == c \notin stored /\ \A h \in Handler : match[h] # c

\* Rule 3, the name within the country; rule 4, a new company.
FindByName(h) ==
  LET o == seen[h]
  IN  /\ pc[h] = "names"
      /\ \/ \E c \in OnName(o) : WillSave(h, c, Enriched(company[c], o))
         \/ OnName(o) = {} /\ \E c \in Company : Fresh(c) /\ WillSave(h, c, o)
      /\ UNCHANGED <<stored, company, known, seen>>

Finish(h) == /\ Goto(h, "idle")
             /\ seen' = [seen EXCEPT ![h] = NoProfile]
             /\ match' = [match EXCEPT ![h] = NoCompany]
             /\ row' = [row EXCEPT ![h] = NoProfile]

SaveCompany(h) == /\ pc[h] = "save"
                  /\ stored' = stored \cup {match[h]}
                  /\ company' = [company EXCEPT ![match[h]] = row[h]]
                  /\ known' = known \cup {seen[h]}
                  /\ Finish(h)

\* The process dies, or a write gives up waiting for the database.
Dies(h) == pc[h] # "idle" /\ Finish(h) /\ UNCHANGED <<stored, company, known>>

Next == \E h \in Handler : \/ \E o \in Observation : Resolve(h, o)
                           \/ FindByContacts(h) \/ FindByName(h)
                           \/ SaveCompany(h) \/ Dies(h)

Spec == Init /\ [][Next]_vars

-----------------------------------------------------------------------------
TypeOK == /\ stored \subseteq Company
          /\ company \in [Company -> Profile]
          /\ known \subseteq Observation
          /\ pc \in [Handler -> {"idle", "contacts", "names", "save"}]
          /\ seen \in [Handler -> Profile]
          /\ match \in [Handler -> Company \cup {NoCompany}]
          /\ row \in [Handler -> Profile]

\* No two companies share a domain, although nothing but the order of the
\* rules keeps them apart: the column is not unique (resolve, rule 1).
OneCompanyPerDomain ==
  \A c, d \in stored :
    company[c].domain = company[d].domain /\ company[c].domain # NoDomain => c = d

\* Resolving is non-destructive: existing facts are enriched rather than
\* overwritten (EntityResolver, _enrich_company).
Extends(new, old) ==
  /\ new.name = old.name
  /\ old.domain # NoDomain => new.domain = old.domain
  /\ \A s \in Slot : old.single[s] # NoContact => new.single[s] = old.single[s]
  /\ old.many \subseteq new.many
NothingLost == [][\A c \in stored : Extends(company'[c], company[c])]_vars

\* What was resolved once is never taken for a new company again, whatever
\* was merged into the companies since (rules 1 to 3 against rule 4).
Identifiable(o) == \/ o.name # NoName \/ o.domain # NoDomain \/ Identifiers(o) # {}
Recognised(o) ==
  \/ OnDomain(o) # {}
  \/ OnContact(o) # {} /\ \A c \in OnContact(o) : ~Conflict(o, company[c])
  \/ OnName(o) # {}
StaysRecognised == \A o \in known : Identifiable(o) => Recognised(o)

(***************************************************************************)
(* Inductive as long as resolutions do not overlap: a handler past rule 1  *)
(* knows that no company has its domain, and what it will save enlarges    *)
(* the row that is stored and covers the observation.                      *)
(***************************************************************************)
Covers(p, o) == /\ o.domain # NoDomain => p.domain = o.domain
                /\ o.domain = NoDomain /\ Identifiable(o) =>
                     \/ Identifiers(p) \cap Identifiers(o) # {}
                     \/ o.name # NoName /\ p.name = o.name
KnownCovered == \A o \in known : \E c \in stored : Covers(company[c], o)

ReadyToSave(h) ==
  /\ match[h] \in Company
  /\ match[h] \in stored => Extends(row[h], company[match[h]])
  /\ Covers(row[h], seen[h])
  /\ \A c \in stored \ {match[h]} :
       row[h].domain # NoDomain => company[c].domain # row[h].domain

HandlersReady ==
  \A h \in Handler :
    /\ pc[h] # "idle" => seen[h] \in Observation
    /\ pc[h] \in {"contacts", "names"} => OnDomain(seen[h]) = {}
    /\ pc[h] = "save" => ReadyToSave(h)

\* Holds of any number of overlapping resolutions.
HandlersTyped ==
  \A h \in Handler : /\ pc[h] # "idle" => seen[h] \in Observation
                     /\ pc[h] = "save" => match[h] \in Company

\* No resolution begins before the one under way has saved or died.  Handlers
\* may be many; nothing in the code keeps them apart.
OneAtATime == \A g, h \in Handler : pc[g] # "idle" /\ pc[h] # "idle" => g = h

IInv == TypeOK /\ OneCompanyPerDomain /\ KnownCovered /\ HandlersReady
=============================================================================
