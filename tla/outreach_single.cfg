SPECIFICATION FairSpec
CONSTANTS
  Lead = {l1, l2}
  Request = {r1, r2}
  Handler = {h1}
  User = {u1, u2}
  AdminUser = {u1}
  Interface = {"button", "command"}
  Chat = {c1, c2}
  AdminChat = {c1}
  NoChat = NoChat
  NoLead = NoLead
  NoRequest = NoRequest
  NoHandler = NoHandler
  NoUser = NoUser
PROPERTY
  ApprovedIsContacted
