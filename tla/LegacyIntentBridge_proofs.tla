--------------------- MODULE LegacyIntentBridge_proofs ---------------------
(***************************************************************************)
(* LegacyIntentBridge for any number of identities, requests, intents and   *)
(* amounts, any lifetimes and any capacity.                                *)
(***************************************************************************)
EXTENDS LegacyIntentBridge, FiniteSetTheorems, TLAPS

(* An expiry lies ahead of the check, at most MaxTtl.                      *)
LEMMA ExpiryAhead ==
  ASSUME TypeOK, NEW s \in Sellers
  PROVE  /\ BoundedExpiry(s) \in Nat
         /\ BoundedExpiry(s) > now
         /\ BoundedExpiry(s) <= now + MaxTtl
  BY TtlAssumption, SizeAssumption DEF TypeOK, Sellers, BoundedExpiry, Earlier

(* purge keeps exactly the live records, as they are.                      *)
LEMMA PurgedIsLive ==
  ASSUME TypeOK
  PROVE  /\ DOMAIN Purged = {k \in Keys : Live(k)}
         /\ DOMAIN Purged \subseteq DOMAIN records
         /\ \A k \in DOMAIN Purged : Purged[k] = records[k] /\ records[k].expiresAt > now
         /\ Purged \in [DOMAIN Purged -> Record]
  BY DEF TypeOK, Purged, Live, Record

(* The map stays finite, and a purge never makes it larger.                *)
LEMMA DomainsAreFinite ==
  ASSUME TypeOK
  PROVE  /\ IsFiniteSet(DOMAIN records)
         /\ IsFiniteSet(DOMAIN Purged)
         /\ Cardinality(DOMAIN Purged) \in Nat
         /\ Cardinality(DOMAIN records) \in Nat
         /\ Cardinality(DOMAIN Purged) <= Cardinality(DOMAIN records)
<1>1. DOMAIN records \subseteq Keys /\ DOMAIN Purged \subseteq DOMAIN records
  BY PurgedIsLive DEF TypeOK
<1>2. IsFiniteSet(DOMAIN records)
  BY <1>1, KeysAreFinite, FS_Subset
<1>3. QED
  BY <1>1, <1>2, FS_Subset, FS_CardinalityType

-----------------------------------------------------------------------------
(* A purge loses nothing of the history.                                   *)
LEMMA PurgePreserves ==
  ASSUME IInv, records' = Purged, UNCHANGED <<now, offers, until>>,
         fetch' \in Fetches \cup {NoFetch}
  PROVE  TypeOK' /\ RecordsFollowOffers' /\ RecordsAreBounded'
<1> USE DEF IInv
<1>1. TypeOK'
  <2>1. DOMAIN records' \subseteq Keys /\ records' \in [DOMAIN records' -> Record]
    BY PurgedIsLive
  <2>2. QED
    BY <2>1 DEF TypeOK
<1>2. \A k \in Keys : /\ Live(k)' <=> Live(k)
                      /\ Live(k) => records'[k] = records[k]
  BY PurgedIsLive DEF Live
<1>3. RecordsFollowOffers'
  BY <1>2 DEF RecordsFollowOffers
<1>4. RecordsAreBounded'
  <2>1. Cardinality(DOMAIN records') <= MaxEntries
    BY DomainsAreFinite, SizeAssumption DEF RecordsAreBounded
  <2>2. \A k \in DOMAIN records' : records'[k].expiresAt <= now' + MaxTtl
    BY PurgedIsLive DEF RecordsAreBounded
  <2>3. QED
    BY <2>1, <2>2 DEF RecordsAreBounded
<1>5. QED
  BY <1>1, <1>3, <1>4

(* A check of a request on record: the record and the history take it alike.*)
LEMMA MergeStep ==
  ASSUME IInv, NEW k \in Keys, NEW i \in Intents, NEW a \in Amounts, NEW e \in Nat,
         e > now, e <= now + MaxTtl,
         k \in DOMAIN Purged,
         records' = Put(Purged, k, Merged(records[k], i, a, e)),
         Note(k, i, a, e), fetch' = NoFetch, now' = now
  PROVE  IInv'
<1> USE DEF IInv
<1> DEFINE r == records[k]
           m == Merged(r, i, a, e)
<1>1. r \in Record /\ Live(k) /\ now \in Nat /\ until[k] \in Nat
  BY PurgedIsLive, SizeAssumption DEF TypeOK
<1>2. /\ m \in Record
      /\ m.intent = r.intent /\ m.amount = r.amount
      /\ m.expiresAt = Later(r.expiresAt, e)
      /\ m.state = "active" <=> r.state = "active" /\ r.intent = i /\ r.amount = a
  BY <1>1 DEF Merged, Record, Later
<1>3. /\ DOMAIN records' = DOMAIN Purged
      /\ records'[k] = m
      /\ \A j \in DOMAIN Purged \ {k} : records'[j] = records[j]
  BY PurgedIsLive DEF Put
<1>4. TypeOK'
  <2>1. DOMAIN records' \subseteq Keys
    BY <1>3, PurgedIsLive
  <2>2. records' \in [DOMAIN records' -> Record]
    BY <1>2, <1>3, PurgedIsLive DEF Put
  <2>3. /\ offers' \in [Keys -> SUBSET (Intents \X Amounts)]
        /\ until' \in [Keys -> Nat]
    BY <1>1 DEF Note, TypeOK, Later
  <2>4. QED
    BY <2>1, <2>2, <2>3 DEF TypeOK
<1>5. RecordsFollowOffers'
  <2> SUFFICES ASSUME NEW j \in Keys
               PROVE  /\ Live(j)' <=> offers'[j] # {}
                      /\ ~Live(j)' => until'[j] = 0
                      /\ Live(j)' =>
                           /\ records'[j].expiresAt = until'[j]
                           /\ <<records'[j].intent, records'[j].amount>> \in offers'[j]
                           /\ records'[j].state = "active" <=>
                                offers'[j] = {<<records'[j].intent, records'[j].amount>>}
    BY DEF RecordsFollowOffers
  <2>1. CASE j # k
    <3>1. offers'[j] = offers[j] /\ until'[j] = until[j]
      BY <2>1 DEF Note, TypeOK
    <3>2. (Live(j)' <=> Live(j)) /\ (Live(j) => records'[j] = records[j])
      BY <2>1, <1>3, PurgedIsLive DEF Live
    <3>3. QED
      BY <3>1, <3>2 DEF RecordsFollowOffers
  <2>2. CASE j = k
    <3>1. offers'[k] = offers[k] \cup {<<i, a>>} /\ until'[k] = Later(until[k], e)
      BY DEF Note, TypeOK
    <3>2. /\ r.expiresAt = until[k]
          /\ <<r.intent, r.amount>> \in offers[k]
          /\ r.state = "active" <=> offers[k] = {<<r.intent, r.amount>>}
      BY <1>1 DEF RecordsFollowOffers
    <3>3. Live(k)' /\ offers'[k] # {} /\ records'[k].expiresAt = until'[k]
      BY <1>1, <1>2, <1>3, <3>1, <3>2 DEF Live, Later
    <3>4. <<m.intent, m.amount>> \in offers'[k]
      BY <1>2, <3>1, <3>2
    <3>5. m.state = "active" <=> offers'[k] = {<<m.intent, m.amount>>}
      <4>1. CASE r.intent = i /\ r.amount = a
        <5>1. offers'[k] = offers[k]
          BY <4>1, <3>1, <3>2
        <5>2. QED
          BY <4>1, <5>1, <1>2, <3>2
      <4>2. CASE ~(r.intent = i /\ r.amount = a)
        <5>1. m.state # "active"
          BY <4>2, <1>2
        <5>2. <<i, a>> # <<r.intent, r.amount>>
          BY <4>2
        <5>3. <<i, a>> \in offers'[k]
          BY <3>1
        <5>4. QED
          BY <5>1, <5>2, <5>3, <1>2
      <4>3. QED
        BY <4>1, <4>2
    <3>6. QED
      BY <2>2, <1>3, <3>3, <3>4, <3>5
  <2>3. QED
    BY <2>1, <2>2
<1>6. RecordsAreBounded'
  <2>1. Cardinality(DOMAIN records') <= MaxEntries
    BY <1>3, DomainsAreFinite, SizeAssumption DEF RecordsAreBounded
  <2>2. ASSUME NEW j \in DOMAIN records' PROVE records'[j].expiresAt <= now' + MaxTtl
    BY <2>2, <1>1, <1>2, <1>3, PurgedIsLive DEF RecordsAreBounded, Later
  <2>3. QED
    BY <2>1, <2>2 DEF RecordsAreBounded
<1>7. FetchFollowsChecks'
  BY DEF FetchFollowsChecks
<1>8. QED
  BY <1>4, <1>5, <1>6, <1>7

(* The first check of a request: its record and its history begin together. *)
LEMMA NewStep ==
  ASSUME IInv, NEW k \in Keys, NEW i \in Intents, NEW a \in Amounts, NEW e \in Nat,
         e > now, e <= now + MaxTtl,
         k \notin DOMAIN Purged,
         Cardinality(DOMAIN Purged) < MaxEntries,
         records' = Put(Purged, k, NewRecord(i, a, e)),
         Note(k, i, a, e), fetch' = NoFetch, now' = now
  PROVE  IInv'
<1> USE DEF IInv
<1> DEFINE m == NewRecord(i, a, e)
<1>1. ~Live(k) /\ now \in Nat /\ until[k] = 0 /\ offers[k] = {}
  <2>1. ~Live(k)
    BY PurgedIsLive
  <2>2. now \in Nat
    BY SizeAssumption DEF TypeOK
  <2>3. QED
    BY <2>1, <2>2 DEF RecordsFollowOffers
<1>2. m \in Record
  BY DEF NewRecord, Record
<1>3. /\ DOMAIN records' = DOMAIN Purged \cup {k}
      /\ records'[k] = m
      /\ \A j \in DOMAIN Purged : records'[j] = records[j]
  BY PurgedIsLive DEF Put
<1>4. TypeOK'
  <2>1. DOMAIN records' \subseteq Keys
    BY <1>3, PurgedIsLive
  <2>2. records' \in [DOMAIN records' -> Record]
    BY <1>2, <1>3, PurgedIsLive DEF Put
  <2>3. /\ offers' \in [Keys -> SUBSET (Intents \X Amounts)]
        /\ until' \in [Keys -> Nat]
    BY <1>1 DEF Note, TypeOK, Later
  <2>4. QED
    BY <2>1, <2>2, <2>3 DEF TypeOK
<1>5. RecordsFollowOffers'
  <2> SUFFICES ASSUME NEW j \in Keys
               PROVE  /\ Live(j)' <=> offers'[j] # {}
                      /\ ~Live(j)' => until'[j] = 0
                      /\ Live(j)' =>
                           /\ records'[j].expiresAt = until'[j]
                           /\ <<records'[j].intent, records'[j].amount>> \in offers'[j]
                           /\ records'[j].state = "active" <=>
                                offers'[j] = {<<records'[j].intent, records'[j].amount>>}
    BY DEF RecordsFollowOffers
  <2>1. CASE j # k
    <3>1. offers'[j] = offers[j] /\ until'[j] = until[j]
      BY <2>1 DEF Note, TypeOK
    <3>2. (Live(j)' <=> Live(j)) /\ (Live(j) => records'[j] = records[j])
      BY <2>1, <1>3, PurgedIsLive DEF Live
    <3>3. QED
      BY <3>1, <3>2 DEF RecordsFollowOffers
  <2>2. CASE j = k
    <3>1. offers'[k] = {<<i, a>>} /\ until'[k] = e
      BY <1>1 DEF Note, TypeOK, Later
    <3>2. Live(k)' /\ records'[k].expiresAt = e
      BY <1>3 DEF Live, NewRecord
    <3>3. m.intent = i /\ m.amount = a /\ m.state = "active"
      BY DEF NewRecord
    <3>4. QED
      BY <2>2, <1>3, <3>1, <3>2, <3>3
  <2>3. QED
    BY <2>1, <2>2
<1>6. RecordsAreBounded'
  <2>1. Cardinality(DOMAIN records') = Cardinality(DOMAIN Purged) + 1
    BY <1>3, DomainsAreFinite, FS_AddElement
  <2>2. Cardinality(DOMAIN records') <= MaxEntries
    BY <2>1, DomainsAreFinite, SizeAssumption
  <2>3. ASSUME NEW j \in DOMAIN records' PROVE records'[j].expiresAt <= now' + MaxTtl
    BY <2>3, <1>3, PurgedIsLive DEF RecordsAreBounded, NewRecord
  <2>4. QED
    BY <2>2, <2>3 DEF RecordsAreBounded
<1>7. FetchFollowsChecks'
  BY DEF FetchFollowsChecks
<1>8. QED
  BY <1>4, <1>5, <1>6, <1>7

LEMMA CheckStep ==
  ASSUME IInv, NEW k \in Keys, NEW i \in Intents, NEW a \in Amounts, NEW s \in Sellers,
         RecordCheck(k, i, a, s)
  PROVE  IInv'
<1> DEFINE e == BoundedExpiry(s)
<1>1. e \in Nat /\ e > now /\ e <= now + MaxTtl
  BY ExpiryAhead DEF IInv
<1>2. CASE k \in DOMAIN Purged
  BY <1>1, <1>2, MergeStep DEF RecordCheck
<1>3. CASE k \notin DOMAIN Purged /\ Cardinality(DOMAIN Purged) < MaxEntries
  <2>1. records' = Put(Purged, k, NewRecord(i, a, e)) /\ Note(k, i, a, e)
    BY <1>3, DomainsAreFinite, SizeAssumption DEF RecordCheck, IInv
  <2>2. QED
    BY <1>1, <1>3, <2>1, NewStep DEF RecordCheck
<1>4. CASE k \notin DOMAIN Purged /\ ~(Cardinality(DOMAIN Purged) < MaxEntries)
  <2>1. records' = Purged /\ UNCHANGED <<now, offers, until>> /\ fetch' = NoFetch
    BY <1>4 DEF RecordCheck
  <2>2. QED
    BY <2>1, PurgePreserves DEF IInv, FetchFollowsChecks
<1>5. QED
  BY <1>2, <1>3, <1>4

LEMMA RewriteStep ==
  ASSUME IInv, NEW k \in Keys, NEW a \in Amounts, RewriteLegacy(k, a)
  PROVE  IInv'
<1> USE DEF IInv
<1>1. fetch' \in Fetches
  BY PurgedIsLive DEF RewriteLegacy, Fetches, TypeOK, Record
<1>2. TypeOK' /\ RecordsFollowOffers' /\ RecordsAreBounded'
  BY <1>1, PurgePreserves DEF RewriteLegacy
<1>3. fetch'.key = k /\ fetch'.amount = a
  BY DEF RewriteLegacy
<1>4. ASSUME NEW i \in Intents
      PROVE  fetch'.intent = i <=> offers'[k] = {<<i, a>>}
  <2>1. offers' = offers
    BY DEF RewriteLegacy
  <2>2. CASE k \in DOMAIN Purged
    <3>1. /\ Live(k)
          /\ records[k].intent \in Intents /\ records[k].amount \in Amounts
          /\ <<records[k].intent, records[k].amount>> \in offers[k]
          /\ records[k].state = "active" <=>
               offers[k] = {<<records[k].intent, records[k].amount>>}
      BY <2>2, PurgedIsLive DEF RecordsFollowOffers, TypeOK, Record
    <3>2. CASE Answers(records[k], a)
      <4>1. fetch'.intent = records[k].intent
        BY <2>2, <3>2 DEF RewriteLegacy
      <4>2. offers[k] = {<<records[k].intent, a>>}
        BY <3>1, <3>2 DEF Answers
      <4>3. {<<records[k].intent, a>>} = {<<i, a>>} <=> records[k].intent = i
        <5>1. <<records[k].intent, a>> = <<i, a>> <=> records[k].intent = i
          OBVIOUS
        <5>2. QED
          BY <5>1, Zenon
      <4>4. QED
        BY <2>1, <4>1, <4>2, <4>3
    <3>3. CASE ~Answers(records[k], a)
      <4>1. fetch'.intent = None
        BY <3>3 DEF RewriteLegacy
      <4>2. offers[k] # {<<i, a>>}
        BY <3>1, <3>3 DEF Answers
      <4>3. QED
        BY <2>1, <4>1, <4>2, NoneIsNothing
    <3>4. QED
      BY <3>2, <3>3
  <2>3. CASE k \notin DOMAIN Purged
    <3>1. fetch'.intent = None
      BY <2>3 DEF RewriteLegacy
    <3>2. offers[k] = {}
      BY <2>3, PurgedIsLive DEF RecordsFollowOffers
    <3>3. QED
      BY <2>1, <3>1, <3>2, NoneIsNothing
  <2>4. QED
    BY <2>2, <2>3
<1>5. FetchFollowsChecks'
  BY <1>3, <1>4 DEF FetchFollowsChecks
<1>6. QED
  BY <1>2, <1>5

(* Time makes a record tell nothing when its history ends, not before.     *)
LEMMA TickStep ==
  ASSUME IInv, Tick
  PROVE  IInv'
<1> USE DEF IInv
<1>1. now \in Nat /\ now' = now + 1 /\ now' \in 0..Horizon /\ records' = records
  BY SizeAssumption DEF TypeOK, Tick
<1>2. TypeOK'
  BY <1>1 DEF TypeOK, Tick
<1>3. RecordsFollowOffers'
  <2> SUFFICES ASSUME NEW k \in Keys
               PROVE  /\ Live(k)' <=> offers'[k] # {}
                      /\ ~Live(k)' => until'[k] = 0
                      /\ Live(k)' =>
                           /\ records'[k].expiresAt = until'[k]
                           /\ <<records'[k].intent, records'[k].amount>> \in offers'[k]
                           /\ records'[k].state = "active" <=>
                                offers'[k] = {<<records'[k].intent, records'[k].amount>>}
    BY DEF RecordsFollowOffers
  <2>1. /\ offers'[k] = IF until[k] > now' THEN offers[k] ELSE {}
        /\ until'[k] = IF until[k] > now' THEN until[k] ELSE 0
    BY DEF Tick
  <2>2. until[k] \in Nat /\ (k \in DOMAIN records => records[k].expiresAt \in Nat)
    BY DEF TypeOK, Record
  <2>3. Live(k)' <=> until[k] > now'
    <3>1. CASE Live(k)
      <4>1. records[k].expiresAt = until[k]
        BY <3>1 DEF RecordsFollowOffers
      <4>2. QED
        BY <1>1, <3>1, <4>1 DEF Live
    <3>2. CASE ~Live(k)
      <4>1. until[k] = 0
        BY <3>2 DEF RecordsFollowOffers
      <4>2. QED
        BY <1>1, <2>2, <3>2, <4>1 DEF Live
    <3>3. QED
      BY <3>1, <3>2
  <2>4. Live(k)' => Live(k)
    BY <1>1, <2>2 DEF Live
  <2>5. QED
    BY <1>1, <2>1, <2>3, <2>4 DEF RecordsFollowOffers
<1>4. RecordsAreBounded'
  BY <1>1, TtlAssumption DEF RecordsAreBounded, TypeOK, Record
<1>5. FetchFollowsChecks'
  BY DEF FetchFollowsChecks, Tick
<1>6. QED
  BY <1>2, <1>3, <1>4, <1>5

LEMMA InitIInv == Init => IInv
<1> SUFFICES ASSUME Init PROVE IInv
  OBVIOUS
<1>1. TypeOK
  BY SizeAssumption DEF Init, TypeOK
<1>2. RecordsFollowOffers
  BY DEF Init, RecordsFollowOffers, Live
<1>3. FetchFollowsChecks
  BY DEF Init, FetchFollowsChecks
<1>4. RecordsAreBounded
  BY FS_EmptySet, SizeAssumption DEF Init, RecordsAreBounded
<1>5. QED
  BY <1>1, <1>2, <1>3, <1>4 DEF IInv

LEMMA NextIInv == IInv /\ [Next]_vars => IInv'
<1> SUFFICES ASSUME IInv, [Next]_vars PROVE IInv'
  OBVIOUS
<1>1. ASSUME NEW k \in Keys, NEW i \in Intents, NEW a \in Amounts, NEW s \in Sellers,
             RecordCheck(k, i, a, s)
      PROVE  IInv'
  BY <1>1, CheckStep
<1>2. CASE Untouched
  BY <1>2, PurgePreserves DEF IInv, Untouched, FetchFollowsChecks
<1>3. ASSUME NEW k \in Keys, NEW a \in Amounts, RewriteLegacy(k, a) PROVE IInv'
  BY <1>3, RewriteStep
<1>4. CASE Tick
  BY <1>4, TickStep
<1>5. CASE UNCHANGED vars
  BY <1>5 DEF vars, IInv, TypeOK, RecordsFollowOffers, Live, FetchFollowsChecks, RecordsAreBounded
<1>6. QED
  BY <1>1, <1>2, <1>3, <1>4, <1>5 DEF Next

-----------------------------------------------------------------------------
(* An unexpired record always tells the whole history of its request.      *)
THEOREM Invariance == Spec => []IInv
  BY InitIInv, NextIInv, PTL DEF Spec

(* Types of the bridge.                                                    *)
THEOREM TypeCorrect == Spec => []TypeOK
<1>1. IInv => TypeOK
  BY DEF IInv
<1>2. QED
  BY <1>1, Invariance, PTL

(* A retired call becomes an intent exactly when all unexpired checks of    *)
(* the same identity and request agree on it and on the call's amount.     *)
THEOREM FaithfulRewriting == Spec => []FetchFollowsChecks
<1>1. IInv => FetchFollowsChecks
  BY DEF IInv
<1>2. QED
  BY <1>1, Invariance, PTL

(* The map respects its capacity and its lifetimes.                        *)
THEOREM BoundedMemory == Spec => []RecordsAreBounded
<1>1. IInv => RecordsAreBounded
  BY DEF IInv
<1>2. QED
  BY <1>1, Invariance, PTL

(* A record that is not expired stays, with its intent, at least as long and  *)
(* as ambiguous as it was.                                                 *)
THEOREM RecordsRunOn == Spec => ChecksRunTheirCourse
<1> DEFINE Stays(k) == k \in DOMAIN records' /\ RunsOn(records[k], records'[k])
<1>1. ASSUME IInv, NEW k \in DOMAIN records, NEW r \in Record,
             records'[k] = records[k] \/ records'[k] = r, k \in DOMAIN records',
             RunsOn(records[k], r)
      PROVE  Stays(k)
  BY <1>1 DEF IInv, TypeOK, Record, RunsOn
<1>2. ASSUME IInv, records' = Purged \/ records' = records,
             NEW k \in DOMAIN records, records[k].expiresAt > now
      PROVE  Stays(k)
  <2>1. k \in DOMAIN Purged /\ Purged[k] = records[k]
    BY <1>2, PurgedIsLive DEF Purged
  <2>2. RunsOn(records[k], records[k])
    BY <1>2 DEF IInv, TypeOK, Record, RunsOn
  <2> QED
    BY <1>2, <2>1, <2>2
<1>3. ASSUME IInv, NEW j \in Keys, NEW i \in Intents, NEW a \in Amounts, NEW s \in Sellers,
             RecordCheck(j, i, a, s), NEW k \in DOMAIN records, records[k].expiresAt > now
      PROVE  Stays(k)
  <2> DEFINE e == BoundedExpiry(s)
  <2>1. e \in Nat
    BY <1>3, ExpiryAhead DEF IInv
  <2>2. k \in DOMAIN Purged /\ Purged[k] = records[k] /\ records[k] \in Record
    BY <1>3, PurgedIsLive DEF Purged, IInv, TypeOK
  <2>3. CASE records' = Purged
    BY <1>2, <1>3, <2>3
  <2>4. CASE j # k /\ \E r : records' = Put(Purged, j, r)
    <3>1. k \in DOMAIN records' /\ records'[k] = records[k]
      BY <2>2, <2>4 DEF Put
    <3>2. RunsOn(records[k], records[k])
      BY <2>2 DEF Record, RunsOn
    <3> QED
      BY <3>1, <3>2
  <2>5. CASE j = k /\ records' = Put(Purged, j, Merged(records[j], i, a, e))
    <3>1. k \in DOMAIN records' /\ records'[k] = Merged(records[k], i, a, e)
      BY <2>2, <2>5 DEF Put
    <3>2. RunsOn(records[k], Merged(records[k], i, a, e))
      BY <2>1, <2>2 DEF Record, RunsOn, Merged, Later
    <3> QED
      BY <3>1, <3>2
  <2> QED
    BY <1>3, <2>2, <2>3, <2>4, <2>5 DEF RecordCheck
<1>4. ASSUME IInv, Next, NEW k \in DOMAIN records, records[k].expiresAt > now'
      PROVE  Stays(k)
  <2>1. now' = now \/ now' = now + 1
    BY <1>4 DEF Next, RecordCheck, Untouched, RewriteLegacy, Tick
  <2>2. records[k].expiresAt > now
    BY <1>4, <2>1 DEF IInv, TypeOK, Record
  <2>3. CASE Untouched \/ Tick \/ \E j \in Keys, a \in Amounts : RewriteLegacy(j, a)
    BY <1>2, <1>4, <2>2, <2>3 DEF Untouched, Tick, RewriteLegacy
  <2> QED
    BY <1>3, <1>4, <2>2, <2>3 DEF Next
<1>5. IInv /\ [Next]_vars =>
        [\A k \in DOMAIN records :
           records[k].expiresAt > now' =>
             k \in DOMAIN records' /\ RunsOn(records[k], records'[k])]_vars
  BY <1>4
<1> QED
  BY <1>5, Invariance, PTL DEF Spec, ChecksRunTheirCourse
=============================================================================
