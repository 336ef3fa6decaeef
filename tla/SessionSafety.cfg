CONSTANTS
  Sids = {s1}
  Requests = {r1, r2, r3}
  OAuthIds = {u1, u2}
  LinkRefs = {l1}
  Handles = {h1, h2}
  None = None
SPECIFICATION Spec
SYMMETRY Symmetry
INVARIANTS
  OnlyOwnerUses
  OrphansCarryNoIdentity
  BindingsBelongToSessions
PROPERTIES
  ImplementsAuthority
  OthersLeaveNoTrace
