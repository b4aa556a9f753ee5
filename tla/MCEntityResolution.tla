------------------------- MODULE MCEntityResolution -------------------------
(***************************************************************************)
(* EntityResolution on small instances: pages on a domain with contacts    *)
(* (_extract_generic_page), freelance listings with a name only, senders   *)
(* by mail, which has a domain, or by phone (_resolve_entity_and_lead).    *)
(***************************************************************************)
EXTENDS EntityResolution, Naturals, TLC

Only(e) == [s \in Slot |-> e]
Seen(name, domain, e, listed) ==
  [name |-> name, domain |-> domain, single |-> Only(e), many |-> listed]

Pages == {Seen(n, d, NoContact, {}) : n \in Name, d \in Domain}
           \cup {Seen(n, d, e, {e}) : n \in Name, d \in Domain, e \in Contact}
Listings == {Seen(n, NoDomain, NoContact, {}) : n \in Name \cup {NoName}}
Senders == {Seen(n, d, e, {}) : n \in Name, d \in Domain \cup {NoDomain}, e \in Contact}

MCObservation == Pages \cup Listings \cup Senders
\* At most MaxKnown different observations in one behaviour.
MaxKnown == 4
FewKnown == Cardinality(known) <= MaxKnown

Symmetry == Permutations(Company) \cup Permutations(Handler) \cup Permutations(Name)
              \cup Permutations(Domain) \cup Permutations(Contact)
=============================================================================
