CONSTANTS
  alice = alice
  alias = alias
  carl = carl
  ta = ta
  tc = tc
  Sids = {s1}
  Requests = {r1, r2}
  None = None
  Provided = {ta}
  Local = {tc}
  Identities = {alice, alias, carl}
  IdentityOf <- MCIdentityOf
  Ttl = 2
  MaxIdle = 1
  Forever = 3
SPECIFICATION FairSpec
INVARIANTS
  OnlyOwnerUses
PROPERTIES
  ImplementsAuthority
  OnlyUnexpiredGoOn
  RevocationTakesHold
  UntouchedSessionsAreForgotten
  RevokedTokensAreRefused
