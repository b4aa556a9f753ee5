SPECIFICATION Spec
CONSTANTS
  c1 = c1
  l1 = l1
  l2 = l2
  Company = {c1}
  Lead = {l1, l2}
  Own <- MCOwn
  Handler = {h1, h2}
  BaselineBucket = {2, 3}
  NoCompany = NoCompany
  NoLead = NoLead
SYMMETRY Symmetry
INVARIANTS
  TypeOK
  IInv
  QualifiedWasVetted
