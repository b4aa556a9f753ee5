SPECIFICATION ScoringSpec
CONSTANTS
  c1 = c1
  l1 = l1
  Company = {c1}
  Lead = {l1}
  Own <- MCOwn
  Handler = {h1, h2}
  BaselineBucket = {2, 3}
  Academic = {c1}
  Report <- MCReport
  NoCompany = NoCompany
  NoLead = NoLead
  NoGrade = NoGrade
SYMMETRY Symmetry
INVARIANTS
  ScoringInv
  ZerosQualifyNothing
  HigherScoresRankHigher
  KnowingMoreNeverHurts
PROPERTY
  LifecycleHolds
