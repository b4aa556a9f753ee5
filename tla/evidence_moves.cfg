SPECIFICATION DiscoverySpec
CONSTANTS
  Company = {k1, k2}
  Handler = {h1}
  Name = {n1, n2}
  Domain = {}
  Contact = {}
  Slot = {"email"}
  Exchange = {}
  Title = t1
  Observation <- MCObservation
  Sender <- MCSender
  Fact <- MCFact
  Entity <- MCEntity
  Page <- MCPage
  MaxRedirects = 0
  MaxFound = 1
  MaxKnown = 2
  NoName = NoName
  NoDomain = NoDomain
  NoContact = NoContact
  NoCompany = NoCompany
  NoEntity = NoEntity
  NoExchange = NoExchange
  NoLead = NoLead
CONSTRAINT FewKnown
CONSTRAINT ShortScans
PROPERTY
  EvidenceStays
CHECK_DEADLOCK FALSE
