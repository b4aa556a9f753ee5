----------------------- MODULE EntityResolution_proofs -----------------------
(***************************************************************************)
(* Proofs about EntityResolution, for any sets of companies, observations, *)
(* identifiers and handlers, as long as their resolutions do not overlap.  *)
(***************************************************************************)
EXTENDS EntityResolution, TLAPS

-----------------------------------------------------------------------------
(* What enriching and extending do to a row.                               *)

\* Enriching a row yields a row that keeps all it said (_enrich_company).
LEMMA EnrichedExtends ==
  ASSUME NEW old \in Profile, NEW o \in Profile
  PROVE  Enriched(old, o) \in Profile /\ Extends(Enriched(old, o), old)
<1>1. Enriched(old, o) \in Profile
  BY DEF Enriched, Profile
<1>2. Extends(Enriched(old, o), old)
  BY DEF Enriched, Extends, Profile
<1> QED BY <1>1, <1>2

\* A row that keeps all another said has its contacts
\* (_extract_contact_identifiers).
LEMMA ExtendsIdentifiers ==
  ASSUME NEW new \in Profile, NEW old \in Profile, Extends(new, old)
  PROVE  Identifiers(old) \subseteq Identifiers(new)
<1> SUFFICES ASSUME NEW e \in Identifiers(old) PROVE e \in Identifiers(new)
  OBVIOUS
<1>1. e # NoContact
  BY DEF Identifiers
<1>2. CASE e \in old.many
  BY <1>1, <1>2 DEF Identifiers, Extends
<1>3. CASE \E s \in Slot : e = old.single[s]
  BY <1>1, <1>3 DEF Identifiers, Extends
<1> QED BY <1>2, <1>3 DEF Identifiers

\* What recognised an observation before a row was enriched does so after.
LEMMA ExtendsCovers ==
  ASSUME NEW new \in Profile, NEW old \in Profile, NEW o \in Profile,
         Extends(new, old), Covers(old, o)
  PROVE  Covers(new, o)
<1>1. Identifiers(old) \subseteq Identifiers(new)
  BY ExtendsIdentifiers
<1>2. /\ new.name = old.name
      /\ old.domain # NoDomain => new.domain = old.domain
  BY DEF Extends
<1> QED BY <1>1, <1>2 DEF Covers

\* A matched row, enriched, recognises the observation it was matched with
\* (resolve, rules 1 to 3).
LEMMA EnrichedCovers ==
  ASSUME NEW old \in Profile, NEW o \in Profile, ~Conflict(o, old),
         \/ o.domain # NoDomain
         \/ Identifiers(old) \cap Identifiers(o) # {}
         \/ o.name # NoName /\ old.name = o.name
  PROVE  Covers(Enriched(old, o), o)
<1> DEFINE new == Enriched(old, o)
<1>1. new \in Profile /\ Extends(new, old)
  BY EnrichedExtends
<1>2. Identifiers(old) \subseteq Identifiers(new)
  BY <1>1, ExtendsIdentifiers
<1>3. new.name = old.name
  BY DEF Enriched
<1>4. o.domain # NoDomain => new.domain = o.domain
  BY DEF Enriched, Conflict
<1> HIDE DEF new
<1>5. Covers(new, o)
  BY <1>2, <1>3, <1>4 DEF Covers
<1> QED BY <1>5 DEF new

-----------------------------------------------------------------------------
(* The inductive invariant.                                                *)

\* No company and no observation is stored at first.
LEMMA InitInv == Init => IInv
<1> SUFFICES ASSUME Init PROVE IInv
  OBVIOUS
<1>1. NoProfile \in Profile
  BY DEF NoProfile, Profile
<1>2. TypeOK
  BY <1>1 DEF Init, TypeOK
<1>3. OneCompanyPerDomain /\ KnownCovered /\ HandlersReady
  BY DEF Init, OneCompanyPerDomain, KnownCovered, HandlersReady
<1> QED BY <1>2, <1>3 DEF IInv

\* The row a handler is about to save, when it is a stored one enriched, is fit
\* to be saved: it is unique for its domain (resolve, rules 1 to 3).
LEMMA EnrichedReady ==
  ASSUME IInv, NEW h \in Handler, NEW o \in Observation, NEW c \in stored,
         ~Conflict(o, company[c]),
         \/ o.domain # NoDomain
         \/ Identifiers(company[c]) \cap Identifiers(o) # {}
         \/ o.name # NoName /\ company[c].name = o.name,
         \/ OnDomain(o) = {}
         \/ o.domain # NoDomain /\ company[c].domain = o.domain,
         stored' = stored, company' = company, seen'[h] = o,
         match'[h] = c, row'[h] = Enriched(company[c], o)
  PROVE  ReadyToSave(h)'
<1>1. /\ c \in Company /\ company[c] \in Profile /\ o \in Profile
  BY ObservationsAreProfiles DEF IInv, TypeOK
<1>2. Extends(Enriched(company[c], o), company[c])
  BY <1>1, EnrichedExtends
<1>3. Covers(Enriched(company[c], o), o)
  BY <1>1, EnrichedCovers
<1>4. ASSUME NEW d \in stored \ {c},
             Enriched(company[c], o).domain # NoDomain
      PROVE  company[d].domain # Enriched(company[c], o).domain
  <2>1. Enriched(company[c], o).domain =
          IF company[c].domain = NoDomain THEN o.domain ELSE company[c].domain
    BY DEF Enriched
  <2>2. CASE company[c].domain = NoDomain
    BY <1>4, <2>1, <2>2 DEF OnDomain
  <2>3. CASE company[c].domain # NoDomain
    BY <1>4, <2>1, <2>3 DEF IInv, OneCompanyPerDomain
  <2> QED BY <2>2, <2>3
<1> QED BY <1>1, <1>2, <1>3, <1>4 DEF ReadyToSave

\* Looking up the domain keeps the invariant (resolve, rule 1).
LEMMA ResolveStep ==
  ASSUME OneAtATime', IInv, NEW h \in Handler, NEW o \in Observation, Resolve(h, o)
  PROVE  IInv'
<1>1. o \in Profile
  BY ObservationsAreProfiles
<1>2. /\ seen' = [seen EXCEPT ![h] = o]
      /\ UNCHANGED <<stored, company, known>>
  BY DEF Resolve
<1>3. \A k \in Handler \ {h} : pc'[k] = "idle"
  BY DEF Resolve, WillSave, Goto, IInv, TypeOK, OneAtATime
<1>4. CASE OnDomain(o) = {} /\ Goto(h, "contacts") /\ UNCHANGED <<match, row>>
  <2>1. TypeOK'
    BY <1>1, <1>2, <1>4 DEF IInv, TypeOK, Goto
  <2>2. HandlersReady'
    BY <1>2, <1>3, <1>4 DEF IInv, TypeOK, Goto, HandlersReady, OnDomain
  <2> QED BY <1>2, <2>1, <2>2 DEF IInv, OneCompanyPerDomain, KnownCovered
<1>5. ASSUME NEW c \in OnDomain(o), WillSave(h, c, Enriched(company[c], o))
      PROVE  IInv'
  <2>1. c \in stored /\ c \in Company /\ company[c] \in Profile
        /\ o.domain # NoDomain /\ company[c].domain = o.domain
    BY DEF OnDomain, IInv, TypeOK
  <2>2. TypeOK'
    BY <1>1, <1>2, <1>5, <2>1, EnrichedExtends DEF IInv, TypeOK, Goto, WillSave
  <2>3. ReadyToSave(h)'
    <3>1. seen'[h] = o /\ match'[h] = c /\ row'[h] = Enriched(company[c], o)
      BY <1>2, <1>5 DEF IInv, TypeOK, WillSave
    <3>2. ~Conflict(o, company[c])
      BY <2>1 DEF Conflict
    <3> QED BY <1>2, <2>1, <3>1, <3>2, EnrichedReady
  <2>4. HandlersReady'
    BY <1>2, <1>3, <1>5, <2>3 DEF IInv, TypeOK, Goto, WillSave, HandlersReady
  <2> QED BY <1>2, <2>2, <2>4 DEF IInv, OneCompanyPerDomain, KnownCovered
<1> QED BY <1>4, <1>5 DEF Resolve

\* Looking up the contacts keeps it (resolve, rule 2).
LEMMA FindByContactsStep ==
  ASSUME OneAtATime, IInv, NEW h \in Handler, FindByContacts(h)
  PROVE  IInv'
<1> DEFINE o == seen[h]
<1>1. /\ o \in Observation /\ OnDomain(o) = {}
      /\ UNCHANGED <<stored, company, known, seen>>
  BY DEF FindByContacts, IInv, HandlersReady
<1>2. o \in Profile
  BY <1>1, ObservationsAreProfiles
<1>3. \A k \in Handler \ {h} : pc'[k] = "idle"
  BY DEF FindByContacts, WillSave, Goto, IInv, TypeOK, OneAtATime
<1>4. CASE Goto(h, "names") /\ UNCHANGED <<match, row>>
  <2>1. TypeOK'
    BY <1>1, <1>4 DEF IInv, TypeOK, Goto
  <2>2. HandlersReady'
    BY <1>1, <1>3, <1>4 DEF IInv, TypeOK, Goto, HandlersReady, OnDomain
  <2> QED BY <1>1, <2>1, <2>2 DEF IInv, OneCompanyPerDomain, KnownCovered
<1>5. ASSUME NEW c \in OnContact(o), ~Conflict(o, company[c]),
             WillSave(h, c, Enriched(company[c], o))
      PROVE  IInv'
  <2>1. c \in stored /\ c \in Company /\ company[c] \in Profile
        /\ Identifiers(company[c]) \cap Identifiers(o) # {}
    BY DEF OnContact, IInv, TypeOK
  <2>2. TypeOK'
    BY <1>1, <1>2, <1>5, <2>1, EnrichedExtends DEF IInv, TypeOK, Goto, WillSave
  <2>3. ReadyToSave(h)'
    <3>1. seen'[h] = o /\ match'[h] = c /\ row'[h] = Enriched(company[c], o)
      BY <1>1, <1>5 DEF IInv, TypeOK, WillSave
    <3> HIDE DEF o
    <3> QED BY <1>1, <1>5, <2>1, <3>1, EnrichedReady
  <2>4. HandlersReady'
    BY <1>1, <1>3, <1>5, <2>3 DEF IInv, TypeOK, Goto, WillSave, HandlersReady
  <2> QED BY <1>1, <2>2, <2>4 DEF IInv, OneCompanyPerDomain, KnownCovered
<1> QED BY <1>4, <1>5 DEF FindByContacts

\* Looking up the name, or making a company, keeps it (resolve, rules 3 and 4).
LEMMA FindByNameStep ==
  ASSUME OneAtATime, IInv, NEW h \in Handler, FindByName(h)
  PROVE  IInv'
<1> DEFINE o == seen[h]
<1>1. /\ o \in Observation /\ OnDomain(o) = {}
      /\ UNCHANGED <<stored, company, known, seen>>
  BY DEF FindByName, IInv, HandlersReady
<1>2. o \in Profile
  BY <1>1, ObservationsAreProfiles
<1>3. \A k \in Handler \ {h} : pc'[k] = "idle"
  BY DEF FindByName, WillSave, Goto, IInv, TypeOK, OneAtATime
<1>4. ASSUME NEW c \in Company, NEW p \in Profile, WillSave(h, c, p),
             ReadyToSave(h)'
      PROVE  IInv'
  <2>1. TypeOK'
    BY <1>1, <1>4 DEF IInv, TypeOK, Goto, WillSave
  <2>2. HandlersReady'
    BY <1>1, <1>3, <1>4 DEF IInv, TypeOK, Goto, WillSave, HandlersReady
  <2> QED BY <1>1, <2>1, <2>2 DEF IInv, OneCompanyPerDomain, KnownCovered
<1>5. ASSUME NEW c \in OnName(o), WillSave(h, c, Enriched(company[c], o))
      PROVE  IInv'
  <2>1. /\ c \in stored /\ c \in Company /\ company[c] \in Profile
        /\ o.name # NoName /\ company[c].name = o.name /\ ~Conflict(o, company[c])
    BY DEF OnName, IInv, TypeOK
  <2>2. Enriched(company[c], o) \in Profile
    BY <1>2, <2>1, EnrichedExtends
  <2>3. seen'[h] = o /\ match'[h] = c /\ row'[h] = Enriched(company[c], o)
    BY <1>1, <1>5 DEF IInv, TypeOK, WillSave
  <2>4. ReadyToSave(h)'
    <3> HIDE DEF o
    <3> QED BY <1>1, <2>1, <2>3, EnrichedReady
  <2> QED BY <1>4, <1>5, <2>1, <2>2, <2>4
<1>6. ASSUME NEW c \in Company, Fresh(c), WillSave(h, c, o)
      PROVE  IInv'
  <2>1. c \notin stored
    BY <1>6 DEF Fresh
  <2>2. seen'[h] = o /\ match'[h] = c /\ row'[h] = o
    BY <1>1, <1>6 DEF IInv, TypeOK, WillSave
  <2>3. Covers(o, o)
    BY DEF Covers, Identifiable
  <2>4. \A d \in stored : o.domain # NoDomain => company[d].domain # o.domain
    BY <1>1 DEF OnDomain
  <2>5. ReadyToSave(h)'
    <3> HIDE DEF o
    <3> QED BY <1>1, <2>1, <2>2, <2>3, <2>4 DEF ReadyToSave
  <2> QED BY <1>2, <1>4, <1>6, <2>5
<1> QED BY <1>5, <1>6 DEF FindByName

\* Saving a row that is fit to be saved keeps it (CompanyRepository.save_company).
LEMMA SaveCompanyStep ==
  ASSUME OneAtATime, IInv, NEW h \in Handler, SaveCompany(h)
  PROVE  IInv'
<1> DEFINE c == match[h]
           p == row[h]
<1>1. /\ ReadyToSave(h) /\ seen[h] \in Observation /\ c \in Company /\ p \in Profile
  BY DEF SaveCompany, IInv, HandlersReady, TypeOK, ReadyToSave
<1>2. /\ stored' = stored \cup {c} /\ company' = [company EXCEPT ![c] = p]
      /\ known' = known \cup {seen[h]} /\ Finish(h)
  BY DEF SaveCompany
<1>3. NoProfile \in Profile
  BY DEF NoProfile, Profile
<1>4. TypeOK'
  BY <1>1, <1>2, <1>3 DEF IInv, TypeOK, Finish, Goto
<1>5. /\ company'[c] = p
      /\ \A d \in stored : d # c => company'[d] = company[d]
  BY <1>1, <1>2 DEF IInv, TypeOK
<1>6. OneCompanyPerDomain'
  <2>1. \A d \in stored \ {c} : p.domain # NoDomain => company[d].domain # p.domain
    BY <1>1 DEF ReadyToSave
  <2> HIDE DEF c, p
  <2> QED BY <1>2, <1>5, <2>1 DEF IInv, OneCompanyPerDomain
<1>7. KnownCovered'
  <2> SUFFICES ASSUME NEW o \in known' PROVE \E d \in stored' : Covers(company'[d], o)
    BY DEF KnownCovered, Covers, Identifiers, Identifiable
  <2>1. CASE o = seen[h]
    BY <1>1, <1>2, <1>5, <2>1 DEF ReadyToSave
  <2>2. CASE o \in known
    <3>1. PICK d \in stored : Covers(company[d], o)
      BY <2>2 DEF IInv, KnownCovered
    <3>2. CASE d # c
      BY <1>2, <1>5, <3>1, <3>2
    <3>3. CASE d = c
      <4>1. Extends(p, company[d]) /\ company[d] \in Profile /\ o \in Profile
        BY <1>1, <2>2, <3>3, ObservationsAreProfiles DEF ReadyToSave, IInv, TypeOK
      <4>2. Covers(p, o)
        BY <1>1, <3>1, <4>1, ExtendsCovers
      <4> QED BY <1>2, <1>5, <3>3, <4>2
    <3> QED BY <3>2, <3>3
  <2> QED BY <1>2, <2>1, <2>2
<1>8. HandlersReady'
  <2>1. \A k \in Handler : pc'[k] = "idle"
    BY <1>2 DEF SaveCompany, IInv, TypeOK, Finish, Goto, OneAtATime
  <2> QED BY <2>1 DEF HandlersReady
<1> QED BY <1>4, <1>6, <1>7, <1>8 DEF IInv

\* So does a handler that stops in the middle.
LEMMA DiesStep ==
  ASSUME OneAtATime, IInv, NEW h \in Handler, Dies(h)
  PROVE  IInv'
<1>1. NoProfile \in Profile
  BY DEF NoProfile, Profile
<1>2. TypeOK'
  BY <1>1 DEF IInv, TypeOK, Dies, Finish, Goto
<1>3. HandlersReady'
  <2>1. \A k \in Handler : pc'[k] = "idle"
    BY DEF IInv, TypeOK, Dies, Finish, Goto, OneAtATime
  <2> QED BY <2>1 DEF HandlersReady
<1> QED BY <1>2, <1>3 DEF IInv, Dies, OneCompanyPerDomain, KnownCovered

\* Nothing happens, nothing changes.
LEMMA StutterStep ==
  ASSUME IInv, UNCHANGED vars
  PROVE  IInv'
BY DEF vars, IInv, TypeOK, OneCompanyPerDomain, KnownCovered, HandlersReady,
       ReadyToSave, OnDomain

\* Every step keeps the invariant.
LEMMA NextInv ==
  ASSUME OneAtATime, OneAtATime', IInv, [Next]_vars
  PROVE  IInv'
<1>1. CASE UNCHANGED vars
  BY <1>1, StutterStep
<1>2. CASE Next
  BY <1>2, ResolveStep, FindByContactsStep, FindByNameStep, SaveCompanyStep, DiesStep
     DEF Next
<1> QED BY <1>1, <1>2

\* As long as resolutions do not overlap, the invariant holds in every state,
\* whatever is observed in whatever order (EntityResolver.resolve).
THEOREM Invariance == Spec /\ []OneAtATime => []IInv
BY InitInv, NextInv, PTL DEF Spec

-----------------------------------------------------------------------------
(* What follows from it.                                                   *)

\* As long as resolutions do not overlap, no two companies have one domain.
THEOREM DomainsAreUnique == Spec /\ []OneAtATime => []OneCompanyPerDomain
<1>1. IInv => OneCompanyPerDomain
  BY DEF IInv
<1> QED BY <1>1, Invariance, PTL

\* As long as resolutions do not overlap, an observation that was resolved is
\* matched with a company ever after, rather than given a new one.
THEOREM ResolvedIsRecognised == Spec /\ []OneAtATime => []StaysRecognised
<1>1. IInv => StaysRecognised
  <2> SUFFICES ASSUME IInv, NEW o \in known, Identifiable(o) PROVE Recognised(o)
    BY DEF StaysRecognised
  <2>1. PICK c \in stored : Covers(company[c], o)
    BY DEF IInv, KnownCovered
  <2>2. CASE o.domain # NoDomain
    BY <2>1, <2>2 DEF Covers, Recognised, OnDomain
  <2>3. CASE o.domain = NoDomain
    <3>1. \A d \in stored : ~Conflict(o, company[d])
      BY <2>3 DEF Conflict
    <3> QED BY <2>1, <2>3, <3>1 DEF Covers, Recognised, OnContact, OnName
  <2> QED BY <2>2, <2>3
<1> QED BY <1>1, Invariance, PTL

\* A step that keeps the invariant takes no fact away (_enrich_company).
LEMMA NextExtends ==
  ASSUME IInv, [Next]_vars
  PROVE  \A c \in stored : Extends(company'[c], company[c])
<1>1. \A c \in stored : Extends(company[c], company[c])
  BY DEF Extends
<1>2. CASE UNCHANGED company
  BY <1>1, <1>2
<1>3. ASSUME NEW h \in Handler, SaveCompany(h)
      PROVE  \A c \in stored : Extends(company'[c], company[c])
  <2>1. /\ match[h] \in Company
        /\ match[h] \in stored => Extends(row[h], company[match[h]])
        /\ company' = [company EXCEPT ![match[h]] = row[h]]
    BY <1>3 DEF SaveCompany, IInv, HandlersReady, ReadyToSave
  <2>2. \A c \in stored : c # match[h] => company'[c] = company[c]
    BY <2>1 DEF IInv, TypeOK
  <2>3. company'[match[h]] = row[h]
    BY <2>1 DEF IInv, TypeOK
  <2> QED BY <1>1, <2>1, <2>2, <2>3
<1> QED
  BY <1>2, <1>3 DEF Next, vars, Resolve, FindByContacts, FindByName, Dies

\* As long as resolutions do not overlap, no step takes a fact away from a
\* stored company.
THEOREM ResolutionEnriches == Spec /\ []OneAtATime => NothingLost
BY NextExtends, Invariance, PTL DEF Spec, NothingLost

\* What a company covers before a step it covers after, being enriched at most.
LEMMA CoversKept ==
  ASSUME IInv, TypeOK', [Next]_vars, NEW c \in stored, NEW o \in Profile,
         Covers(company[c], o)
  PROVE  c \in stored' /\ Covers(company'[c], o)
<1>1. c \in stored'
  BY DEF Next, vars, Resolve, FindByContacts, FindByName, SaveCompany, Dies
<1>2. company[c] \in Profile /\ company'[c] \in Profile
  BY <1>1 DEF IInv, TypeOK
<1> QED BY <1>1, <1>2, NextExtends, ExtendsCovers

\* What is saved covers what was resolved (resolve, all four rules).
LEMMA SavedCovers ==
  ASSUME IInv, NEW h \in Handler, SaveCompany(h)
  PROVE  Covers(company'[match[h]], seen[h])
BY DEF SaveCompany, IInv, TypeOK, HandlersReady, ReadyToSave

-----------------------------------------------------------------------------
(* What holds even if resolutions overlap.                                 *)

\* Whoever is between two queries resolves an observation and, past them, has
\* a company to save (resolve).
LEMMA NextTyped ==
  ASSUME TypeOK, HandlersTyped, [Next]_vars
  PROVE  TypeOK' /\ HandlersTyped'
<1>1. NoProfile \in Profile
  BY DEF NoProfile, Profile
<1>2. CASE UNCHANGED vars
  BY <1>2 DEF vars, TypeOK, HandlersTyped
<1>3. ASSUME NEW h \in Handler, NEW c \in Company, NEW p \in Profile, WillSave(h, c, p),
             seen[h] \in Observation, UNCHANGED <<stored, company, known, seen>>
      PROVE  TypeOK' /\ HandlersTyped'
  BY <1>3 DEF WillSave, Goto, TypeOK, HandlersTyped
<1>4. ASSUME NEW h \in Handler, NEW o \in Observation, Resolve(h, o)
      PROVE  TypeOK' /\ HandlersTyped'
  <2>1. /\ o \in Profile /\ seen' = [seen EXCEPT ![h] = o]
        /\ UNCHANGED <<stored, company, known>>
    BY <1>4, ObservationsAreProfiles DEF Resolve
  <2>2. CASE OnDomain(o) = {} /\ Goto(h, "contacts") /\ UNCHANGED <<match, row>>
    BY <2>1, <2>2 DEF Goto, TypeOK, HandlersTyped
  <2>3. ASSUME NEW c \in OnDomain(o), WillSave(h, c, Enriched(company[c], o))
        PROVE  TypeOK' /\ HandlersTyped'
    <3>1. c \in Company /\ Enriched(company[c], o) \in Profile
      BY <2>1, EnrichedExtends DEF OnDomain, TypeOK
    <3> QED BY <2>1, <2>3, <3>1 DEF WillSave, Goto, TypeOK, HandlersTyped
  <2> QED BY <1>4, <2>2, <2>3 DEF Resolve
<1>5. ASSUME NEW h \in Handler, FindByContacts(h)
      PROVE  TypeOK' /\ HandlersTyped'
  <2>1. /\ seen[h] \in Observation /\ seen[h] \in Profile
        /\ UNCHANGED <<stored, company, known, seen>>
    BY <1>5, ObservationsAreProfiles DEF FindByContacts, HandlersTyped
  <2>2. CASE Goto(h, "names") /\ UNCHANGED <<match, row>>
    BY <2>1, <2>2 DEF Goto, TypeOK, HandlersTyped
  <2>3. ASSUME NEW c \in OnContact(seen[h]), WillSave(h, c, Enriched(company[c], seen[h]))
        PROVE  TypeOK' /\ HandlersTyped'
    <3>1. c \in Company /\ Enriched(company[c], seen[h]) \in Profile
      BY <2>1, EnrichedExtends DEF OnContact, TypeOK
    <3> QED BY <1>3, <2>1, <2>3, <3>1
  <2> QED BY <1>5, <2>2, <2>3 DEF FindByContacts
<1>6. ASSUME NEW h \in Handler, FindByName(h)
      PROVE  TypeOK' /\ HandlersTyped'
  <2>1. /\ seen[h] \in Observation /\ seen[h] \in Profile
        /\ UNCHANGED <<stored, company, known, seen>>
    BY <1>6, ObservationsAreProfiles DEF FindByName, HandlersTyped
  <2>2. ASSUME NEW c \in OnName(seen[h]), WillSave(h, c, Enriched(company[c], seen[h]))
        PROVE  TypeOK' /\ HandlersTyped'
    <3>1. c \in Company /\ Enriched(company[c], seen[h]) \in Profile
      BY <2>1, EnrichedExtends DEF OnName, TypeOK
    <3> QED BY <1>3, <2>1, <2>2, <3>1
  <2>3. ASSUME NEW c \in Company, WillSave(h, c, seen[h])
        PROVE  TypeOK' /\ HandlersTyped'
    BY <1>3, <2>1, <2>3
  <2> QED BY <1>6, <2>2, <2>3 DEF FindByName
<1>7. ASSUME NEW h \in Handler, SaveCompany(h) \/ Dies(h)
      PROVE  TypeOK' /\ HandlersTyped'
  BY <1>1, <1>7 DEF SaveCompany, Dies, Finish, Goto, TypeOK, HandlersTyped
<1> QED BY <1>2, <1>4, <1>5, <1>6, <1>7 DEF Next

\* However resolutions overlap and stop, what is stored are companies' rows.
THEOREM RowsAreTyped == Spec => []TypeOK
<1>1. Init => TypeOK /\ HandlersTyped
  BY DEF Init, TypeOK, HandlersTyped, NoProfile, Profile
<1> QED BY <1>1, NextTyped, PTL DEF Spec
=============================================================================
