-------------------------- MODULE MCPlatformSession --------------------------
(* PlatformSession on a small instance: a token of a provider that may be     *)
(* verified as either of two identities, and one that is verified locally.   *)
EXTENDS PlatformSession
CONSTANTS alice, alias, carl, ta, tc

MCIdentityOf == [t \in {ta, tc} |-> IF t = ta THEN {alice, alias} ELSE {carl}]
=============================================================================
