SPECIFICATION Spec
CONSTANTS
  Asset = {a1, a2}
  Request = {r1, r2}
  Handler = {h1, h2}
  AdminUser = {u1}
  NoAsset = NoAsset
  NoUser = NoUser
  MaxPosts = 2
SYMMETRY Symmetry
INVARIANTS
  TypeOK
  IInv
  OnlyApprovedGoesOut
  PublishedIsOut
\* Once every identifier is used and every review decided, nothing is left to do.
CHECK_DEADLOCK FALSE
