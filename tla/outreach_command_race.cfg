SPECIFICATION Spec
CONSTANTS
  Lead = {l1}
  Request = {r1}
  Handler = {h1, h2}
  User = {u1, u2}
  AdminUser = {u1, u2}
  Interface = {"button", "command"}
  Chat = {c1, c2}
  AdminChat = {c1}
  NoChat = NoChat
  NoLead = NoLead
  NoRequest = NoRequest
  NoHandler = NoHandler
  NoUser = NoUser
PROPERTY
  AdvanceNeedsApproval
