---------------------------- MODULE MCDiscovery ----------------------------
(***************************************************************************)
(* Discovery on small instances: companies' pages, which have a domain and *)
(* may list a contact (_extract_generic_page), listings of one title by    *)
(* different sellers (KhamsatAdapter.extract_listings), and senders by     *)
(* mail, by phone or by handle (_resolve_entity_and_lead).                 *)
(***************************************************************************)
EXTENDS Discovery, TLC

CONSTANT Title

\* Pages that list one contact at most; only a listing's name may be of
\* punctuation alone.
Named(S) == {o \in S : o.name # NoName}
MCPages == Named(WebPages({}) \cup UNION {WebPages({e}) : e \in Contact})
MCSender == Named(Senders)

MCObservation == MCPages \cup Listings \cup MCSender
MCFact == MCPages \cup {Title}
PageEntities == {PageEntity(o) : o \in MCPages}
ListingEntities == {ListingEntity(o, Title) : o \in Listings}
MCEntity == PageEntities \cup ListingEntities
MCPage == {{e} : e \in PageEntities}
            \cup {S \in SUBSET ListingEntities : Cardinality(S) \in {0, 2}}

\* Bound on the observations made and the messages logged in one behaviour.
CONSTANT MaxKnown
Looked == known \cup {seen[h] : h \in {k \in Handler : pc[k] # "idle"}}
                \cup UNION {{e.who : e \in todo[h]} : h \in Handler}
Logged == {x \in Exchange : inbound[x] # NotLogged}
FewKnown == Cardinality(Looked) + Cardinality(Logged) <= MaxKnown
\* Bound on the web: two targets, redirects and failures for what is scanned
\* first, later one target that is answered at once.
ShortScans ==
  \A h \in Handler : /\ left[h] <= IF known = {} THEN 2 ELSE 1
                     /\ known # {} => /\ fetch[h].redirects = 0
                                      /\ fetch[h].at # "failed"
                                      /\ stage[h] = "fetch" => clean[h]

Symmetry == Permutations(Company) \cup Permutations(Handler) \cup Permutations(Name)
              \cup Permutations(Domain) \cup Permutations(Contact)
              \cup Permutations(Exchange)
=============================================================================
