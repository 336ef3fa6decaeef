------------------------- MODULE LegacyIntentBridge -------------------------
(***************************************************************************)
(* lib/open-legacy-intent-bridge.mjs: clients that still call x402_fetch    *)
(* with a URL get their call rewritten to the intent that x402_check        *)
(* created for that very request.  Every check of a session with an OAuth   *)
(* identity is recorded (open-mcp-server.mjs 1614-1620) and every POST body *)
(* is offered for rewriting (3954-3958); any user's sessions share the one  *)
(* bridge of the process.                                                   *)
(*                                                                         *)
(* A key is what identityKey and exactRequestKey make of an identity and a  *)
(* request: two calls have the same key only if both are the same.         *)
(***************************************************************************)
EXTENDS Integers, FiniteSets

CONSTANTS Keys,       \* identity and request, as hashed together
          Intents,    \* intent ids of dexter-api
          Amounts,    \* atomic amounts
          DefaultTtl, \* DEFAULT_TTL_MS
          MaxTtl,     \* MAX_TTL_MS
          MaxEntries, \* maxEntries
          Horizon,    \* bound of the clock
          None

ASSUME TtlAssumption == DefaultTtl \in Nat \ {0} /\ MaxTtl \in Nat \ {0}
ASSUME SizeAssumption == MaxEntries \in Nat \ {0} /\ Horizon \in Nat
ASSUME NoneIsNothing == None \notin Keys \cup Intents \cup Amounts
ASSUME KeysAreFinite == IsFiniteSet(Keys)

VARIABLES
  now,     \* the clock
  records, \* the map, a function on the keys it holds
  offers,  \* history: key -> what its checks named since none was unexpired
  until,   \* history: key -> when the last of those checks expires, 0 if none
  fetch    \* the retired call just served, or NoFetch

vars == <<now, records, offers, until, fetch>>

Record == [intent : Intents, amount : Amounts, expiresAt : Nat,
           state : {"active", "ambiguous"}]

Fetches == [key : Keys, amount : Amounts, intent : Intents \cup {None}]
NoFetch == [key |-> None, amount |-> None, intent |-> None]

TypeOK ==
  /\ now \in 0..Horizon
  /\ DOMAIN records \subseteq Keys
  /\ records \in [DOMAIN records -> Record]
  /\ offers \in [Keys -> SUBSET (Intents \X Amounts)]
  /\ until \in [Keys -> Nat]
  /\ fetch \in Fetches \cup {NoFetch}

Init ==
  /\ now = 0
  /\ records = [k \in {} |-> None]
  /\ offers = [k \in Keys |-> {}]
  /\ until = [k \in Keys |-> 0]
  /\ fetch = NoFetch

-----------------------------------------------------------------------------
Later(t, u) == IF t >= u THEN t ELSE u
Earlier(t, u) == IF t <= u THEN t ELSE u

(* purge: what is left of the map.                                         *)
Purged == [k \in {j \in DOMAIN records : records[j].expiresAt > now} |-> records[k]]

(* The earliest of the seller's expiries still to come, a default when      *)
(* there is none (here: seller is past), and never more than MaxTtl ahead.  *)
MutantUnbounded(seller) ==
  IF seller > now THEN seller ELSE now + DefaultTtl

BoundedExpiry(seller) ==
  Earlier(IF seller > now THEN seller ELSE now + DefaultTtl, now + MaxTtl)

NewRecord(i, a, e) ==
  [intent |-> i, amount |-> a, expiresAt |-> e, state |-> "active"]

(* A check of a request already recorded: anything but the same intent and  *)
(* amount makes the record ambiguous, for good; both lives are served out.  *)
MutantLastCheckWins(r, i, a, e) ==
  [r EXCEPT !.intent = i, !.amount = a, !.expiresAt = Later(@, e)]

MutantLastExpiryWins(r, i, a, e) ==
  [r EXCEPT !.state = IF r.intent = i /\ r.amount = a THEN @ ELSE "ambiguous",
            !.expiresAt = e]

Merged(r, i, a, e) ==
  [r EXCEPT !.state = IF r.intent = i /\ r.amount = a THEN @ ELSE "ambiguous",
            !.expiresAt = Later(@, e)]

Put(recs, k, r) == [j \in DOMAIN recs \cup {k} |-> IF j = k THEN r ELSE recs[j]]

(* The history: k was checked, and the check was taken.                    *)
Note(k, i, a, e) ==
  /\ offers' = [offers EXCEPT ![k] = @ \cup {<<i, a>>}]
  /\ until' = [until EXCEPT ![k] = Later(@, e)]

(* recordCheck, for a check that names one intent and one amount.          *)
RecordCheck(k, i, a, seller) ==
  LET e == BoundedExpiry(seller) IN
  /\ \/ /\ k \in DOMAIN Purged
        /\ records' = Put(Purged, k, Merged(records[k], i, a, e))
        /\ Note(k, i, a, e)
     \/ /\ k \notin DOMAIN Purged
        /\ Cardinality(DOMAIN Purged) < MaxEntries
        /\ records' = Put(Purged, k, NewRecord(i, a, e))
        /\ Note(k, i, a, e)
     \/ /\ k \notin DOMAIN Purged
        /\ Cardinality(DOMAIN Purged) >= MaxEntries
        /\ records' = Purged
        /\ UNCHANGED <<offers, until>>
  /\ fetch' = NoFetch
  /\ UNCHANGED now

(* The early returns of both functions come after the purge: a check that   *)
(* is quote-only, not ready, or of several amounts; a body that is a batch, *)
(* names an intent, or comes without an identity.                          *)
Untouched ==
  /\ records' = Purged
  /\ fetch' = NoFetch
  /\ UNCHANGED <<now, offers, until>>

(* The record answers a call for this amount.                              *)
Answers(r, a) == r.state = "active" /\ r.amount = a

(* rewriteLegacy, for a well-formed retired call: the intent it is          *)
(* rewritten to, or None when it goes on as it came.                       *)
RewriteLegacy(k, a) ==
  /\ records' = Purged
  /\ fetch' = [key |-> k, amount |-> a,
               intent |-> IF k \in DOMAIN Purged /\ Answers(records[k], a)
                          THEN records[k].intent ELSE None]
  /\ UNCHANGED <<now, offers, until>>

(* Time passes; the checks of a key are history once all have expired.     *)
Tick ==
  /\ now < Horizon
  /\ now' = now + 1
  /\ offers' = [k \in Keys |-> IF until[k] > now' THEN offers[k] ELSE {}]
  /\ until' = [k \in Keys |-> IF until[k] > now' THEN until[k] ELSE 0]
  /\ fetch' = NoFetch
  /\ UNCHANGED records

Sellers == 0..(Horizon + MaxTtl + 1)

Next ==
  \/ \E k \in Keys, i \in Intents, a \in Amounts, s \in Sellers : RecordCheck(k, i, a, s)
  \/ Untouched
  \/ \E k \in Keys, a \in Amounts : RewriteLegacy(k, a)
  \/ Tick

Spec == Init /\ [][Next]_vars

-----------------------------------------------------------------------------
(* A retired call is rewritten to an intent exactly when the checks of this *)
(* identity and request, back to the last time none of them was unexpired,  *)
(* all named that intent and the call's amount (the test "ambiguous and     *)
(* expired checks never translate"; lines 172-191, 219-232).               *)
FetchFollowsChecks ==
  fetch # NoFetch =>
    \A i \in Intents :
      fetch.intent = i <=> offers[fetch.key] = {<<i, fetch.amount>>}

(* The map never holds more than its capacity, and no record outlives the   *)
(* last check of its request by more than MaxTtl (lines 92, 184), however   *)
(* checks, conflicts and calls interleave with time.                       *)
RecordsAreBounded ==
  /\ Cardinality(DOMAIN records) <= MaxEntries
  /\ \A k \in DOMAIN records : records[k].expiresAt <= now + MaxTtl

(* What a check has recorded runs its course: until it expires a record is    *)
(* not dropped for want of room, not cut short by a check that expires       *)
(* sooner, not given another intent, and once ambiguous stays so, whatever    *)
(* is checked or called for in between, of this identity or of others        *)
(* (lines 137-141, 172-191).                                               *)
RunsOn(r, s) ==
  /\ <<s.intent, s.amount>> = <<r.intent, r.amount>>
  /\ s.expiresAt >= r.expiresAt
  /\ r.state = "ambiguous" => s.state = "ambiguous"

ChecksRunTheirCourse ==
  [][\A k \in DOMAIN records :
       records[k].expiresAt > now' => k \in DOMAIN records' /\ RunsOn(records[k], records'[k])]_vars

-----------------------------------------------------------------------------
(* The inductive invariant: an unexpired record tells the history of its    *)
(* key, an expired one, not purged yet, tells nothing.                     *)
Live(k) == k \in DOMAIN records /\ records[k].expiresAt > now

RecordsFollowOffers ==
  \A k \in Keys :
    /\ Live(k) <=> offers[k] # {}
    /\ ~Live(k) => until[k] = 0
    /\ Live(k) =>
         /\ records[k].expiresAt = until[k]
         /\ <<records[k].intent, records[k].amount>> \in offers[k]
         /\ records[k].state = "active" <=>
              offers[k] = {<<records[k].intent, records[k].amount>>}

IInv ==
  /\ TypeOK
  /\ RecordsFollowOffers
  /\ FetchFollowsChecks
  /\ RecordsAreBounded
=============================================================================
