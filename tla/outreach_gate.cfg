SPECIFICATION FairCrashSpec
CONSTANTS
  Lead = {l1}
  Request = {r1, r2}
  Handler = {h1, h2}
  User = {u1, u2}
  AdminUser = {u1}
  Interface = {"button", "command"}
  Chat = {c1, c2}
  AdminChat = {c1}
  NoChat = NoChat
  NoLead = NoLead
  NoRequest = NoRequest
  NoHandler = NoHandler
  NoUser = NoUser
INVARIANTS
  TypeOK
  IInv
  DraftsPrecedeRequest
  ReadyWasRequested
PROPERTIES
  HandlersFinish
  GateHolds
  LeadsFollowLifecycle
  ButtonsNeedApproval
