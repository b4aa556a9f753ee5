SPECIFICATION Spec
CONSTANTS
  Company = {k1, k2}
  Handler = {h1, h2}
  Name = {n1}
  Domain = {d1, d2}
  Contact = {e1, e2}
  Slot = {"email"}
  Observation <- MCObservation
  NoName = NoName
  NoDomain = NoDomain
  NoContact = NoContact
  NoCompany = NoCompany
PROPERTY
  NothingLost
