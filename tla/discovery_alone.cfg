SPECIFICATION DiscoverySpec
CONSTANTS
  Company = {k1, k2}
  Handler = {h1}
  Name = {n1, n2}
  Domain = {d1, d2}
  Contact = {e1, e2}
  Slot = {"email"}
  Exchange = {x1, x2}
  Title = t1
  Observation <- MCObservation
  Sender <- MCSender
  Fact <- MCFact
  Entity <- MCEntity
  Page <- MCPage
  MaxRedirects = 1
  MaxFound = 1
  MaxKnown = 3
  NoName = NoName
  NoDomain = NoDomain
  NoContact = NoContact
  NoCompany = NoCompany
  NoEntity = NoEntity
  NoExchange = NoExchange
  NoLead = NoLead
SYMMETRY Symmetry
CONSTRAINT FewKnown
CONSTRAINT ShortScans
INVARIANTS
  DiscoveryInv
  IInv
  OneCompanyPerDomain
  StaysRecognised
  EvidenceStands
  RequestsWithinLimits
  ErrorsTellAll
  RepliesReachSender
  RequestsAreAnswerable
  OneLeadByMessage
PROPERTIES
  NothingLost
  PageEvidenceStays
  RecordsAreKept
CHECK_DEADLOCK FALSE
