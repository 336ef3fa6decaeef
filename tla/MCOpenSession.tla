--------------------------- MODULE MCOpenSession ---------------------------
(***************************************************************************)
(* OpenSession on small instances.  Session ids, requests, identities and   *)
(* link tokens are interchangeable; safety runs use that.                  *)
(***************************************************************************)
EXTENDS OpenSession, TLC

Symmetry ==
  Permutations(Sids) \cup Permutations(Requests)
    \cup Permutations(OAuthIds) \cup Permutations(LinkRefs) \cup Permutations(Handles)

=============================================================================
