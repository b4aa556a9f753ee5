SPECIFICATION Spec
CONSTANTS
  Asset = {a1}
  Request = {r1}
  Handler = {h1, h2}
  AdminUser = {u1}
  NoAsset = NoAsset
  NoUser = NoUser
  MaxPosts = 2
INVARIANT
  PostedOnce
\* Once every identifier is used and every review decided, nothing is left to do.
CHECK_DEADLOCK FALSE
