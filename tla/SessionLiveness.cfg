CONSTANTS
  Sids = {s1}
  Requests = {r1, r2}
  OAuthIds = {u1}
  LinkRefs = {l1}
  Handles = {h1}
  None = None
SPECIFICATION FairSpec
PROPERTIES
  UnusedSessionsClose
  RequestsEnd
