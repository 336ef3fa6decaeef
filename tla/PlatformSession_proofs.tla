----------------------- MODULE PlatformSession_proofs -----------------------
(***************************************************************************)
(* Proofs about PlatformSession, for any number of session ids, requests,   *)
(* tokens and identities.                                                  *)
(***************************************************************************)
EXTENDS PlatformSession, TLAPS

(* What a provider's answer leaves in the cache.                            *)
LEMMA VerdictType ==
  ASSUME TypeOK, NEW t \in Tokens, NEW who \in Identities
  PROVE  Verdict(t, who) \in Verdicts \cup {None}
BY PlatformAssumption DEF TypeOK, Verdict, Verdicts, Lesser

(* Whoever is touched, ages stay ages.                                      *)
LEMMA TouchType ==
  ASSUME TypeOK, NEW s, Touch(s)
  PROVE  activity' \in [Sids -> 0..(MaxIdle + 1) \cup {None}]
<1>1. 0 \in 0..(MaxIdle + 1)
  BY PlatformAssumption
<1> QED
  BY <1>1 DEF TypeOK, Touch

(* A request changes, and no session does.                                  *)
LEMMA RequestChanges ==
  ASSUME IInv, NEW r \in Requests, NEW q \in Request, Goto(r, q),
         UNCHANGED <<issued, transports, identity>>,
         Knows(q),
         q.stage = "reading" /\ q.sid \in transports => identity[q.sid] = q.who
  PROVE  /\ req' \in [Requests -> Request]
         /\ IdentitiesAreLive' /\ RequestsKnow' /\ OnlyOwnerUses'
<1>1. req' \in [Requests -> Request]
  BY DEF IInv, TypeOK, Goto
<1>2. \A p \in Requests : req'[p] = IF p = r THEN q ELSE req[p]
  BY DEF IInv, TypeOK, Goto
<1>3. RequestsKnow'
  BY <1>2 DEF IInv, RequestsKnow, Knows
<1>4. OnlyOwnerUses'
  BY <1>2 DEF IInv, OnlyOwnerUses
<1> QED
  BY <1>1, <1>3, <1>4 DEF IInv, IdentitiesAreLive

(* A request that is over relies on nothing.                                *)
LEMMA IdleKnows == Idle \in Request /\ Knows(Idle) /\ Idle.stage = "idle"
BY DEF Idle, Request, Stages, Knows

(* Whatever is decided of a verified request, it goes on as one that may.   *)
LEMMA AdmitStep ==
  ASSUME IInv, NEW r \in Requests, NEW q \in Request, Admit(r, q),
         q.stage \in {"validating", "decided"},
         q.token \in Tokens, q.sid \in issued \cup {None}, q.who # None,
         ~q.known => q.sid \notin transports,
         UNCHANGED <<issued, transports, identity>>
  PROVE  /\ req' \in [Requests -> Request]
         /\ activity' \in [Sids -> 0..(MaxIdle + 1) \cup {None}]
         /\ IdentitiesAreLive' /\ RequestsKnow' /\ OnlyOwnerUses'
<1>1. CASE Refuse(r, q)
  <2>1. Goto(r, Idle) /\ activity' = activity
    BY <1>1 DEF Refuse
  <2> QED
    BY <2>1, IdleKnows, RequestChanges DEF IInv, TypeOK
<1>2. CASE Get(r, q)
  <2>1. Goto(r, Idle) /\ Touch(q.sid)
    BY <1>2 DEF Get
  <2>2. activity' \in [Sids -> 0..(MaxIdle + 1) \cup {None}]
    BY <2>1, TouchType DEF IInv
  <2> QED
    BY <2>1, <2>2, IdleKnows, RequestChanges
<1>3. CASE Post(r, q)
  <2> DEFINE p == [q EXCEPT !.stage = "reading", !.known = FALSE]
  <2>1. p \in Request /\ p.stage = "reading" /\ p.sid = q.sid /\ p.who = q.who /\ p.token = q.token
    BY DEF Request, Stages
  <2>2. Goto(r, p) /\ activity' = activity /\ q.sid \in transports /\ ~Denied(q)
    BY <1>3 DEF Post
  <2>3. Knows(p)
    BY <2>1, <2>2 DEF Knows, IInv, TypeOK
  <2>4. identity[p.sid] = p.who
    BY <2>1, <2>2 DEF Denied
  <2> QED
    BY <2>1, <2>2, <2>3, <2>4, RequestChanges DEF IInv, TypeOK
<1>4. CASE Initialize(r, q)
  <2> DEFINE p == [q EXCEPT !.stage = "initializing"]
  <2>1. p \in Request /\ p.stage = "initializing" /\ p.who = q.who /\ p.token = q.token
    BY DEF Request, Stages
  <2>2. Goto(r, p) /\ activity' = activity
    BY <1>4 DEF Initialize
  <2>3. Knows(p)
    BY <2>1 DEF Knows
  <2> QED
    BY <2>1, <2>2, <2>3, RequestChanges DEF IInv, TypeOK
<1> QED
  BY <1>1, <1>2, <1>3, <1>4 DEF Admit

-----------------------------------------------------------------------------
(* What an arriving request knows.                                          *)
LEMMA ArrivalKnows ==
  ASSUME IInv, NEW t \in Tokens, NEW s \in issued \cup {None}, NEW who \in Identities \cup {None}
  PROVE  /\ Arrival(t, s, who) \in Request
         /\ Arrival(t, s, who).stage = "validating"
         /\ Arrival(t, s, who).token = t
         /\ Arrival(t, s, who).sid = s
         /\ Arrival(t, s, who).who = who
         /\ ~Arrival(t, s, who).known => s \notin transports
<1>1. s \in Sids \cup {None}
  BY DEF IInv, TypeOK
<1>2. (s \in transports) \in BOOLEAN
  OBVIOUS
<1> QED
  BY <1>1, <1>2 DEF Arrival, Request, Stages

(* A token that is verified at once.                                        *)
LEMMA ArriveLocalStep ==
  ASSUME IInv, NEW r \in Requests, NEW t \in Tokens, NEW s \in issued \cup {None},
         ArriveLocal(r, t, s)
  PROVE  IInv'
<1>1. PICK who \in Identities : Admit(r, Arrival(t, s, who))
  BY PlatformAssumption DEF ArriveLocal
<1>2. UNCHANGED <<issued, transports, identity, servers, cache, life, access>>
  BY DEF ArriveLocal
<1>3. who # None
  BY PlatformAssumption
<1> QED
  BY <1>1, <1>2, <1>3, ArrivalKnows, AdmitStep DEF IInv, TypeOK

(* A token whose verdict is in the cache.                                   *)
LEMMA ArriveCachedStep ==
  ASSUME IInv, NEW r \in Requests, NEW t \in Tokens, NEW s \in issued \cup {None},
         ArriveCached(r, t, s)
  PROVE  IInv'
<1>1. t \in Provided /\ Admit(r, Arrival(t, s, cache[t].who))
  BY DEF ArriveCached
<1>2. cache[t].who \in Identities /\ cache[t].who # None
  BY PlatformAssumption DEF ArriveCached, IInv, TypeOK, Verdicts
<1>3. UNCHANGED <<issued, transports, identity, servers, cache, life, access>>
  BY DEF ArriveCached
<1> QED
  BY <1>1, <1>2, <1>3, ArrivalKnows, AdmitStep DEF IInv, TypeOK

(* A token a provider is asked about.                                       *)
LEMMA ArriveUnknownStep ==
  ASSUME IInv, NEW r \in Requests, NEW t \in Tokens, NEW s \in issued \cup {None},
         ArriveUnknown(r, t, s)
  PROVE  IInv'
<1>1. Goto(r, Arrival(t, s, None)) /\ t \in Provided
  BY DEF ArriveUnknown
<1>2. UNCHANGED <<issued, tables, cache, life, access>>
  BY DEF ArriveUnknown
<1>3. Knows(Arrival(t, s, None))
  BY <1>1, ArrivalKnows DEF Knows
<1> QED
  BY <1>1, <1>2, <1>3, ArrivalKnows, RequestChanges DEF IInv, TypeOK, tables

(* The provider's decision changes what the request carries, nothing else.  *)
LEMMA DecideStep ==
  ASSUME IInv, NEW r \in Requests, Decide(r)
  PROVE  IInv'
<1>1. PICK who \in Identities \cup {None} :
        Goto(r, [req[r] EXCEPT !.stage = "decided", !.who = who])
  BY PlatformAssumption DEF Decide, IInv, RequestsKnow, Knows, Tokens
<1> DEFINE p == [req[r] EXCEPT !.stage = "decided", !.who = who]
<1>2. req[r] \in Request
  BY DEF IInv, TypeOK
<1>3. /\ p \in Request /\ p.stage = "decided" /\ p.sid = req[r].sid
      /\ p.token = req[r].token /\ p.known = req[r].known
  BY <1>2 DEF Request, Stages
<1>4. Knows(p)
  BY <1>3 DEF Decide, IInv, RequestsKnow, Knows
<1>5. UNCHANGED <<issued, tables, cache, life, access>>
  BY DEF Decide
<1> QED
  BY <1>1, <1>3, <1>4, <1>5, RequestChanges DEF IInv, TypeOK, tables

(* A request that ends leaves the tables alone.                             *)
LEMMA EndStep ==
  ASSUME IInv, NEW r \in Requests, DeliverRefusal(r) \/ Abort(r)
  PROVE  IInv'
<1>1. Goto(r, Idle) /\ UNCHANGED <<issued, tables, cache, life, access>>
  BY DEF DeliverRefusal, Abort
<1> QED
  BY <1>1, IdleKnows, RequestChanges DEF IInv, TypeOK, tables

(* The provider's answer arrives: the request is admitted as of now.        *)
LEMMA DeliverStep ==
  ASSUME IInv, NEW r \in Requests, Deliver(r)
  PROVE  IInv'
<1>1. req[r] \in Request /\ req[r].stage = "decided" /\ req[r].who \in Identities
      /\ req[r].who # None
  BY DEF Deliver, IInv, TypeOK, Request
<1>2. req[r].token \in Provided /\ req[r].sid \in issued \cup {None}
      /\ (~req[r].known => req[r].sid \notin transports)
  BY <1>1 DEF IInv, RequestsKnow, Knows
<1>3. UNCHANGED <<issued, transports, identity, servers, life, access>>
  BY DEF Deliver
<1>4. cache' \in [Provided -> Verdicts \cup {None}]
  BY <1>1, <1>2, VerdictType DEF Deliver, IInv, TypeOK, Tokens
<1>5. CASE Goto(r, Idle) /\ UNCHANGED activity
  BY <1>3, <1>4, <1>5, IdleKnows, RequestChanges DEF IInv, TypeOK
<1>6. CASE Admit(r, req[r])
  BY <1>1, <1>2, <1>3, <1>4, <1>6, AdmitStep DEF IInv, TypeOK, Tokens
<1> QED
  BY <1>5, <1>6 DEF Deliver

(* A session is touched, whether or not it lives, and the request is over.  *)
LEMMA TouchStep ==
  ASSUME IInv, NEW r \in Requests, Read(r) \/ Seed(r)
  PROVE  IInv'
<1>1. Goto(r, Idle) /\ Touch(req[r].sid)
      /\ UNCHANGED <<issued, transports, identity, servers, cache, life, access>>
  BY DEF Read, Seed
<1>2. activity' \in [Sids -> 0..(MaxIdle + 1) \cup {None}]
  BY <1>1, TouchType DEF IInv
<1> QED
  BY <1>1, <1>2, IdleKnows, RequestChanges DEF IInv, TypeOK

(* A session opens under an id that nobody knows, with its identity.        *)
LEMMA PublishStep ==
  ASSUME IInv, NEW r \in Requests, Publish(r)
  PROVE  IInv'
<1>1. PICK s \in Sids \ issued :
        /\ issued' = issued \cup {s}
        /\ transports' = transports \cup {s}
        /\ identity' = [identity EXCEPT ![s] = req[r].who]
        /\ req' = [req EXCEPT ![r] = [req[r] EXCEPT !.stage = "serving", !.sid = s]]
  BY DEF Publish, Goto
<1>2. req[r] \in Request /\ req[r].who # None /\ req[r].who \in Identities
      /\ req[r].token \in Tokens
  BY DEF Publish, IInv, TypeOK, Request, RequestsKnow, Knows
<1> DEFINE p == [req[r] EXCEPT !.stage = "serving", !.sid = s]
<1>3. p \in Request /\ p.stage = "serving" /\ p.sid = s /\ p.who = req[r].who
      /\ p.token = req[r].token
  BY <1>2 DEF Request, Stages
<1>4. \A q \in Requests : req'[q] = IF q = r THEN p ELSE req[q]
  BY <1>1 DEF IInv, TypeOK
<1>5. TypeOK'
  <2>1. req' \in [Requests -> Request]
    BY <1>1, <1>3 DEF IInv, TypeOK
  <2> QED
    BY <1>1, <1>2, <2>1 DEF IInv, TypeOK, Publish
<1>6. IdentitiesAreLive'
  BY <1>1, <1>2 DEF IInv, TypeOK, IdentitiesAreLive
<1>7. RequestsKnow'
  BY <1>1, <1>2, <1>3, <1>4, PlatformAssumption DEF IInv, RequestsKnow, Knows
<1>8. OnlyOwnerUses'
  BY <1>1, <1>3, <1>4 DEF IInv, TypeOK, OnlyOwnerUses, RequestsKnow, Knows
<1> QED
  BY <1>5, <1>6, <1>7, <1>8 DEF IInv

(* The opened session's server is kept, and its opener goes on.             *)
LEMMA ServeStep ==
  ASSUME IInv, NEW r \in Requests, Serve(r)
  PROVE  IInv'
<1> DEFINE p == [req[r] EXCEPT !.stage = "seeding"]
<1>1. req[r] \in Request /\ req[r].sid \in issued /\ req[r].who # None
      /\ req[r].token \in Tokens
  BY DEF Serve, IInv, TypeOK, RequestsKnow, Knows
<1>2. p \in Request /\ p.stage = "seeding" /\ p.sid = req[r].sid /\ p.who = req[r].who
      /\ p.token = req[r].token
  BY <1>1 DEF Request, Stages
<1>3. Goto(r, p) /\ servers' = servers \cup {req[r].sid}
      /\ UNCHANGED <<issued, transports, identity, activity, cache, life, access>>
  BY DEF Serve
<1>4. Knows(p)
  BY <1>1, <1>2 DEF Knows
<1> QED
  BY <1>1, <1>2, <1>3, <1>4, RequestChanges DEF IInv, TypeOK

-----------------------------------------------------------------------------
(* The reaper takes a session's identity along with its transport.          *)
LEMMA ReapStep ==
  ASSUME IInv, Reap
  PROVE  IInv'
<1>1. TypeOK'
  BY DEF IInv, TypeOK, Reap
<1>2. IdentitiesAreLive'
  BY DEF IInv, TypeOK, IdentitiesAreLive, Reap
<1>3. RequestsKnow'
  BY DEF IInv, RequestsKnow, Knows, Reap
<1>4. OnlyOwnerUses'
  BY DEF IInv, TypeOK, OnlyOwnerUses, Reap
<1> QED
  BY <1>1, <1>2, <1>3, <1>4 DEF IInv

(* Time changes ages and what is left of verdicts and tokens.               *)
LEMMA TickStep ==
  ASSUME IInv, Tick
  PROVE  IInv'
<1>1. activity' \in [Sids -> 0..(MaxIdle + 1) \cup {None}]
  BY PlatformAssumption DEF IInv, TypeOK, Tick, Lesser
<1>2. cache' \in [Provided -> Verdicts \cup {None}]
  BY PlatformAssumption DEF IInv, TypeOK, Tick, Verdicts
<1>3. life' \in [Tokens -> 0..Forever]
  <2>1. \A n \in 0..Forever : n \notin {0, Forever} => n - 1 \in 0..Forever
    BY PlatformAssumption
  <2> QED
    BY <2>1 DEF IInv, TypeOK, Tick
<1> QED
  BY <1>1, <1>2, <1>3 DEF IInv, TypeOK, Tick, IdentitiesAreLive, RequestsKnow, Knows,
     OnlyOwnerUses

(* A revocation changes nothing but the provider.                           *)
LEMMA RevokeStep ==
  ASSUME IInv, NEW t \in Tokens, Revoke(t)
  PROVE  IInv'
BY DEF IInv, TypeOK, Revoke, tables, IdentitiesAreLive, RequestsKnow, Knows, OnlyOwnerUses

(* A restart empties every table and ends every request.                    *)
LEMMA RestartStep ==
  ASSUME IInv, Restart
  PROVE  IInv'
<1>1. TypeOK'
  BY IdleKnows DEF IInv, TypeOK, Restart
<1>2. IdentitiesAreLive'
  BY DEF IdentitiesAreLive, Restart
<1>3. RequestsKnow' /\ OnlyOwnerUses'
  BY DEF RequestsKnow, Knows, OnlyOwnerUses, Restart, Idle
<1> QED
  BY <1>1, <1>2, <1>3 DEF IInv

(* Every step keeps the invariant.                                          *)
LEMMA NextStep ==
  ASSUME IInv, [Next]_vars
  PROVE  IInv'
<1>1. CASE \E r \in Requests, t \in Tokens, s \in issued \cup {None} :
             ArriveLocal(r, t, s) \/ ArriveCached(r, t, s) \/ ArriveUnknown(r, t, s)
  BY <1>1, ArriveLocalStep, ArriveCachedStep, ArriveUnknownStep
<1>2. CASE \E r \in Requests :
             \/ Decide(r) \/ DeliverRefusal(r) \/ Deliver(r)
             \/ Read(r) \/ Abort(r) \/ Publish(r) \/ Serve(r) \/ Seed(r)
  BY <1>2, DecideStep, EndStep, DeliverStep, TouchStep, PublishStep, ServeStep
<1>3. CASE \E t \in Tokens : Revoke(t)
  BY <1>3, RevokeStep
<1>4. CASE Reap \/ Tick \/ Restart
  BY <1>4, ReapStep, TickStep, RestartStep
<1>5. CASE UNCHANGED vars
  BY <1>5 DEF vars, tables, IInv, TypeOK, IdentitiesAreLive, RequestsKnow, Knows, OnlyOwnerUses
<1> QED
  BY <1>1, <1>2, <1>3, <1>4, <1>5 DEF Next

(* IInv holds whatever requests, providers, time and restarts do.           *)
THEOREM Invariance == Spec => []IInv
<1>1. Init => IInv
  BY PlatformAssumption, IdleKnows
     DEF Init, IInv, TypeOK, IdentitiesAreLive, RequestsKnow, Knows, OnlyOwnerUses, Idle
<1>2. IInv /\ [Next]_vars => IInv'
  BY NextStep
<1> QED
  BY <1>1, <1>2, PTL DEF Spec

(* Types of the session tables, the token cache and the requests.           *)
THEOREM TypeCorrect == Spec => []TypeOK
<1>1. IInv => TypeOK
  BY DEF IInv
<1> QED
  BY <1>1, Invariance, PTL

(* A POST that reads its body for a live session is of the identity that     *)
(* opened it (1497-1502), however long ago its token was verified.          *)
THEOREM OwnerOnly == Spec => []OnlyOwnerUses
<1>1. IInv => OnlyOwnerUses
  BY DEF IInv
<1> QED
  BY <1>1, Invariance, PTL

-----------------------------------------------------------------------------
(* A request goes on only by being admitted with a token that is alive.      *)
LEMMA GoingOnStep ==
  ASSUME IInv, [Next]_vars, NEW r \in Requests, GoesOn(r)
  PROVE  life[req'[r].token] > 0
<1> USE DEF IInv, TypeOK
<1>1. \A q \in Requests : req' = [req EXCEPT ![q] = Idle] => q # r
  BY DEF GoesOn, Idle
<1>2. ASSUME NEW q \in Requests, NEW a \in Request, a.stage \in {"validating", "decided"},
             Admit(q, a), life[a.token] > 0
      PROVE  life[req'[r].token] > 0
  <2>1. CASE Goto(q, Idle)
    BY <1>1, <2>1 DEF Goto, GoesOn
  <2>2. CASE Goto(q, [a EXCEPT !.stage = "reading", !.known = FALSE])
    BY <1>2, <2>2 DEF Goto, GoesOn, Request
  <2>3. CASE Goto(q, [a EXCEPT !.stage = "initializing"])
    BY <1>2, <2>3 DEF Goto, GoesOn, Request
  <2> QED
    BY <1>2, <2>1, <2>2, <2>3 DEF Admit, Refuse, Get, Post, Initialize
<1>3. CASE \E q \in Requests, t \in Tokens, s \in issued \cup {None} :
             ArriveLocal(q, t, s) \/ ArriveCached(q, t, s)
  <2>1. PICK q \in Requests, t \in Tokens, s \in issued \cup {None} :
          ArriveLocal(q, t, s) \/ ArriveCached(q, t, s)
    BY <1>3
  <2>2. life[t] > 0
    BY <2>1 DEF ArriveLocal, ArriveCached, Arrives
  <2>3. PICK who \in Identities : Admit(q, Arrival(t, s, who))
    BY <2>1, PlatformAssumption DEF ArriveLocal, ArriveCached, Verdicts
  <2> QED
    BY <1>2, <2>2, <2>3, ArrivalKnows
<1>4. CASE \E q \in Requests : Deliver(q)
  <2>1. PICK q \in Requests : Deliver(q)
    BY <1>4
  <2>2. req[q] \in Request /\ req[q].stage = "decided"
    BY <2>1 DEF Deliver
  <2>3. Admit(q, req[q]) /\ life[req[q].token] > 0
    BY <1>1, <2>1 DEF Deliver, Goto, GoesOn, Idle
  <2> QED
    BY <1>2, <2>2, <2>3
<1>5. CASE ~ (\/ \E q \in Requests, t \in Tokens, s \in issued \cup {None} :
                   ArriveLocal(q, t, s) \/ ArriveCached(q, t, s)
              \/ \E q \in Requests : Deliver(q))
  <2>1. ASSUME NEW q \in Requests, NEW a, Goto(q, a),
               a.stage \notin {"reading", "initializing"}
        PROVE  FALSE
    BY <2>1 DEF Goto, GoesOn
  <2>2. CASE \E q \in Requests, t \in Tokens, s \in issued \cup {None} : ArriveUnknown(q, t, s)
    BY <2>1, <2>2 DEF ArriveUnknown, Arrival
  <2>3. CASE \E q \in Requests : DeliverRefusal(q) \/ Read(q) \/ Abort(q) \/ Seed(q)
    BY <2>1, <2>3 DEF DeliverRefusal, Read, Abort, Seed, Idle
  <2>4. CASE \E q \in Requests : Decide(q) \/ Publish(q) \/ Serve(q)
    <3>1. PICK q \in Requests : Decide(q) \/ Publish(q) \/ Serve(q)
      BY <2>4
    <3>2. req[q] \in Request
      OBVIOUS
    <3>3. \A who : [req[q] EXCEPT !.stage = "decided", !.who = who].stage = "decided"
      BY <3>2 DEF Request
    <3>4. \A s : [req[q] EXCEPT !.stage = "serving", !.sid = s].stage = "serving"
      BY <3>2 DEF Request
    <3>5. [req[q] EXCEPT !.stage = "seeding"].stage = "seeding"
      BY <3>2 DEF Request
    <3> QED
      BY <2>1, <3>1, <3>3, <3>4, <3>5 DEF Decide, Publish, Serve
  <2>5. CASE Restart
    BY <2>5 DEF Restart, GoesOn, Idle
  <2>6. CASE UNCHANGED req
    BY <2>6 DEF GoesOn
  <2> QED
    BY <1>5, <2>2, <2>3, <2>4, <2>5, <2>6 DEF Next, vars, Revoke, Reap, Tick
<1> QED
  BY <1>3, <1>4, <1>5

(* No request goes on with a token that has expired, the expiry passing      *)
(* while its provider is asked included (621, 1465-1494).                   *)
THEOREM LiveTokensOnly == Spec => OnlyUnexpiredGoOn
<1>1. IInv /\ [Next]_vars =>
        [\A r \in Requests : GoesOn(r) => life[req'[r].token] > 0]_vars
  BY GoingOnStep
<1> QED
  BY <1>1, Invariance, PTL DEF Spec, OnlyUnexpiredGoOn

-----------------------------------------------------------------------------
Stage(s) == IF s \in transports THEN "live" ELSE IF s \in issued THEN "gone" ELSE "absent"

(* Sessions close, and lose their identity, together.                       *)
LEMMA ClosingStep ==
  ASSUME IInv, NEW S \in SUBSET transports,
         issued' = issued,
         transports' = transports \ S,
         identity' = [s \in Sids |-> IF s \in S THEN None ELSE identity[s]]
  PROVE  Authority!Next
<1>1. \A s \in S : Stage(s) = "live"
  BY DEF Stage
<1>2. \A s \in Sids : Stage(s)' = IF s \in S THEN "gone" ELSE Stage(s)
  BY DEF Stage, IInv, TypeOK
<1>3. S \in SUBSET Sids
  BY DEF IInv, TypeOK
<1> QED
  BY <1>1, <1>2, <1>3 DEF Authority!Next, Authority!Close, Stage

(* Every step opens one session, closes some or leaves all alone.           *)
LEMMA AuthorityStep ==
  ASSUME IInv, [Next]_vars
  PROVE  [Authority!Next]_(Authority!avars)
<1>1. CASE \E r \in Requests : Publish(r)
  <2>1. PICK r \in Requests, s \in Sids \ issued :
          /\ req[r].stage = "initializing"
          /\ issued' = issued \cup {s}
          /\ transports' = transports \cup {s}
          /\ identity' = [identity EXCEPT ![s] = req[r].who]
    BY <1>1 DEF Publish
  <2>2. req[r].who \in Identities
    BY <2>1 DEF IInv, TypeOK, Request, RequestsKnow, Knows
  <2>3. Stage(s) = "absent" /\ \A t \in Sids : Stage(t)' = IF t = s THEN "live" ELSE Stage(t)
    BY <2>1 DEF Stage, IInv, TypeOK
  <2> QED
    BY <2>1, <2>2, <2>3 DEF Authority!Next, Authority!Open, Stage
<1>2. CASE Reap
  <2> DEFINE S == {s \in transports : IsIdle(s)}
  <2>1. transports' = transports \ S /\ issued' = issued
    BY <1>2 DEF Reap
  <2>2. identity' = [s \in Sids |-> IF s \in S THEN None ELSE identity[s]]
    BY <1>2 DEF Reap, IInv, TypeOK, IdentitiesAreLive
  <2> QED
    BY <2>1, <2>2, ClosingStep
<1>3. CASE Restart
  <2>1. transports' = transports \ transports /\ issued' = issued
    BY <1>3 DEF Restart
  <2>2. identity' = [s \in Sids |-> IF s \in transports THEN None ELSE identity[s]]
    BY <1>3 DEF Restart, IInv, TypeOK, IdentitiesAreLive
  <2> QED
    BY <2>1, <2>2, ClosingStep
<1>4. CASE UNCHANGED <<issued, transports, identity>>
  BY <1>4 DEF Authority!avars
<1> QED
  BY <1>1, <1>2, <1>3, <1>4 DEF Next, vars, tables, ArriveLocal, ArriveCached, ArriveUnknown,
     Decide, DeliverRefusal, Deliver, Read, Abort, Serve, Seed, Revoke, Tick

(* The full-platform server implements SessionAuthority: an id is opened     *)
(* once, keeps its identity while it lives, and never comes back.           *)
THEOREM Refinement == Spec => ImplementsAuthority
<1>1. Init => Authority!Init
  BY DEF Init, Authority!Init
<1>2. IInv /\ [Next]_vars => [Authority!Next]_(Authority!avars)
  BY AuthorityStep
<1> QED
  BY <1>1, <1>2, Invariance, PTL DEF Spec, ImplementsAuthority, Authority!Spec

-----------------------------------------------------------------------------
(* A revoked token: the safety half of RevokedTokensAreRefused.              *)

(* A request that changes on its own neither carries a late answer nor goes  *)
(* on, so it renews nothing.                                               *)
LEMMA QuietRequest ==
  ASSUME IInv, NEW t \in Provided, NEW r \in Requests, NEW q, Goto(r, q),
         UNCHANGED cache,
         r \notin Late(t),
         q.stage = "decided" /\ q.token = t => q.who = None,
         q.stage \in {"reading", "initializing"} /\ q.token = t => Left(t) > 0
  PROVE  RunsOut(t)
<1>1. \A p \in Requests : req'[p] = IF p = r THEN q ELSE req[p]
  BY DEF IInv, TypeOK, Goto
<1>2. Late(t)' \subseteq Late(t)
  BY <1>1 DEF Late
<1>3. Left(t) \in Nat /\ Left(t)' = Left(t)
  BY PlatformAssumption DEF Left, IInv, TypeOK, Verdicts
<1>4. \A p \in Requests : GoesOn(p) => p = r
  BY <1>1 DEF GoesOn
<1>5. \A p \in Requests : GoesOn(p) /\ req'[p].token = t => Left(t) > 0
  BY <1>1, <1>4 DEF GoesOn
<1> QED
  BY <1>2, <1>3, <1>5 DEF RunsOut

(* An admitted request carries no answer any more.                          *)
LEMMA AdmitEnds ==
  ASSUME NEW r \in Requests, NEW a \in Request, Admit(r, a)
  PROVE  \E q : /\ Goto(r, q) /\ q.stage \in {"idle", "reading", "initializing"}
                /\ q.stage # "idle" => q.token = a.token
<1>1. CASE Goto(r, Idle)
  BY <1>1 DEF Idle
<1>2. CASE Goto(r, [a EXCEPT !.stage = "reading", !.known = FALSE])
  <2> DEFINE q == [a EXCEPT !.stage = "reading", !.known = FALSE]
  <2>1. q.stage = "reading" /\ q.token = a.token
    BY DEF Request
  <2> QED
    BY <1>2, <2>1
<1>3. CASE Goto(r, [a EXCEPT !.stage = "initializing"])
  <2> DEFINE q == [a EXCEPT !.stage = "initializing"]
  <2>1. q.stage = "initializing" /\ q.token = a.token
    BY DEF Request
  <2> QED
    BY <1>3, <2>1
<1> QED
  BY <1>1, <1>2, <1>3 DEF Admit, Refuse, Get, Post, Initialize

(* Who arrives finds a verdict that is left, or has no answer yet.          *)
LEMMA ArrivalRunsOut ==
  ASSUME IInv, NEW t \in Provided, NEW r \in Requests, NEW u \in Tokens,
         NEW s \in issued \cup {None},
         ArriveLocal(r, u, s) \/ ArriveCached(r, u, s) \/ ArriveUnknown(r, u, s)
  PROVE  RunsOut(t)
<1>1. UNCHANGED cache /\ req[r] = Idle
  BY DEF ArriveLocal, ArriveCached, ArriveUnknown, Arrives
<1>2. r \notin Late(t)
  BY <1>1 DEF Late, Idle
<1>3. CASE ArriveUnknown(r, u, s)
  <2>1. Goto(r, Arrival(u, s, None)) /\ Arrival(u, s, None).stage = "validating"
    BY <1>3, ArrivalKnows DEF ArriveUnknown
  <2> QED
    BY <1>1, <1>2, <2>1, QuietRequest
<1>4. CASE ArriveLocal(r, u, s) \/ ArriveCached(r, u, s)
  <2>1. PICK who \in Identities : Admit(r, Arrival(u, s, who))
    BY <1>4, PlatformAssumption DEF ArriveLocal, ArriveCached, IInv, TypeOK, Verdicts
  <2>2. Arrival(u, s, who) \in Request /\ Arrival(u, s, who).token = u
    BY ArrivalKnows
  <2>3. PICK q : /\ Goto(r, q) /\ q.stage \in {"idle", "reading", "initializing"}
                 /\ q.stage # "idle" => q.token = u
    BY <2>1, <2>2, AdmitEnds
  <2>4. u = t => Left(t) > 0
    BY <1>4, PlatformAssumption DEF ArriveLocal, ArriveCached, Left, IInv, TypeOK, Verdicts
  <2> QED
    BY <1>1, <1>2, <2>3, <2>4, QuietRequest
<1> QED
  BY <1>3, <1>4

(* A provider that has changed its mind answers nobody for the token.       *)
LEMMA DecideRunsOut ==
  ASSUME IInv, NEW t \in Provided \ access, NEW r \in Requests, Decide(r)
  PROVE  RunsOut(t)
<1>1. PICK who \in (IF req[r].token \in access THEN IdentityOf[req[r].token] ELSE {}) \cup {None} :
        Goto(r, [req[r] EXCEPT !.stage = "decided", !.who = who])
  BY DEF Decide
<1> DEFINE q == [req[r] EXCEPT !.stage = "decided", !.who = who]
<1>2. q.stage = "decided" /\ q.token = req[r].token /\ q.who = who
  BY DEF IInv, TypeOK, Request
<1>3. req[r].token = t => who = None
  BY <1>1
<1>4. UNCHANGED cache /\ r \notin Late(t)
  BY DEF Decide, Late
<1> HIDE DEF q
<1> QED
  BY <1>1, <1>2, <1>3, <1>4, QuietRequest DEF q

(* A late answer is used up by its delivery; others are not touched.        *)
LEMMA DeliverRunsOut ==
  ASSUME IInv, NEW t \in Provided, NEW r \in Requests, Deliver(r)
  PROVE  RunsOut(t)
<1>1. req[r] \in Request /\ req[r].stage = "decided" /\ req[r].who # None
  BY DEF Deliver, IInv, TypeOK
<1>2. PICK q : /\ Goto(r, q) /\ q.stage \in {"idle", "reading", "initializing"}
               /\ q.stage # "idle" => q.token = req[r].token
  <2>1. CASE Goto(r, Idle)
    BY <2>1 DEF Idle
  <2>2. CASE Admit(r, req[r])
    BY <1>1, <2>2, AdmitEnds
  <2> QED
    BY <2>1, <2>2 DEF Deliver
<1>3. \A p \in Requests : req'[p] = IF p = r THEN q ELSE req[p]
  BY <1>2 DEF IInv, TypeOK, Goto
<1>4. Late(t)' = Late(t) \ {r}
  BY <1>2, <1>3 DEF Late
<1>5. CASE req[r].token = t
  <2>1. r \in Late(t)
    BY <1>1, <1>5 DEF Late
  <2> QED
    BY <1>4, <2>1 DEF RunsOut
<1>6. CASE req[r].token # t
  <2>1. Left(t)' = Left(t) /\ Left(t) \in Nat
    BY <1>6, PlatformAssumption DEF Deliver, Left, IInv, TypeOK, Verdicts
  <2>2. \A p \in Requests : GoesOn(p) => req'[p].token # t
    BY <1>2, <1>3, <1>6 DEF GoesOn
  <2> QED
    BY <1>4, <2>1, <2>2 DEF RunsOut
<1> QED
  BY <1>5, <1>6

(* The rest of a request asks nobody.                                       *)
LEMMA RestRunsOut ==
  ASSUME IInv, NEW t \in Provided, NEW r \in Requests,
         DeliverRefusal(r) \/ Read(r) \/ Abort(r) \/ Publish(r) \/ Serve(r) \/ Seed(r)
  PROVE  RunsOut(t)
<1>1. UNCHANGED cache /\ r \notin Late(t)
  BY DEF DeliverRefusal, Read, Abort, Publish, Serve, Seed, Late
<1>2. CASE Goto(r, Idle)
  BY <1>1, <1>2, QuietRequest DEF Idle
<1>3. CASE \E s : Goto(r, [req[r] EXCEPT !.stage = "serving", !.sid = s])
  <2>1. PICK s : Goto(r, [req[r] EXCEPT !.stage = "serving", !.sid = s])
    BY <1>3
  <2>2. [req[r] EXCEPT !.stage = "serving", !.sid = s].stage = "serving"
    BY DEF IInv, TypeOK, Request
  <2> QED
    BY <1>1, <2>1, <2>2, QuietRequest
<1>4. CASE Goto(r, [req[r] EXCEPT !.stage = "seeding"])
  <2>1. [req[r] EXCEPT !.stage = "seeding"].stage = "seeding"
    BY DEF IInv, TypeOK, Request
  <2> QED
    BY <1>1, <1>4, <2>1, QuietRequest
<1> QED
  BY <1>2, <1>3, <1>4 DEF DeliverRefusal, Read, Abort, Publish, Serve, Seed

(* Time and restarts only take verdicts away.                               *)
LEMMA TimeRunsOut ==
  ASSUME IInv, NEW t \in Provided, Tick \/ Restart
  PROVE  RunsOut(t)
<1>1. Left(t) \in Nat /\ Left(t)' \in Nat /\ Left(t)' <= Left(t)
  BY PlatformAssumption DEF Left, Tick, Restart, IInv, TypeOK, Verdicts
<1>2. Late(t)' \subseteq Late(t) /\ \A r \in Requests : ~GoesOn(r)
  BY DEF Late, GoesOn, Tick, Restart, Idle
<1> QED
  BY <1>1, <1>2 DEF RunsOut

(* Every step.                                                              *)
LEMMA StepRunsOut ==
  ASSUME IInv, [Next]_vars, NEW t \in Provided \ access
  PROVE  RunsOut(t)
<1>1. CASE \E r \in Requests, u \in Tokens, s \in issued \cup {None} :
             ArriveLocal(r, u, s) \/ ArriveCached(r, u, s) \/ ArriveUnknown(r, u, s)
  BY <1>1, ArrivalRunsOut
<1>2. CASE \E r \in Requests :
             \/ Decide(r) \/ DeliverRefusal(r) \/ Deliver(r)
             \/ Read(r) \/ Abort(r) \/ Publish(r) \/ Serve(r) \/ Seed(r)
  BY <1>2, DecideRunsOut, DeliverRunsOut, RestRunsOut
<1>3. CASE Tick \/ Restart
  BY <1>3, TimeRunsOut
<1>4. CASE (\E u \in Tokens : Revoke(u)) \/ Reap \/ UNCHANGED vars
  <2>1. UNCHANGED <<cache, req>>
    BY <1>4 DEF Revoke, Reap, vars
  <2>2. Left(t) \in Nat
    BY PlatformAssumption DEF Left, IInv, TypeOK, Verdicts
  <2> QED
    BY <2>1, <2>2 DEF RunsOut, Late, Left, GoesOn
<1> QED
  BY <1>1, <1>2, <1>3, <1>4 DEF Next

(* However a token is used after its provider has withdrawn it, what it is   *)
(* still good for only runs out: no step renews a verdict but the delivery   *)
(* of an answer given before (1038-1123), of which there are finitely many.  *)
THEOREM RevocationHolds == Spec => RevocationTakesHold
<1>1. IInv /\ [Next]_vars => [\A t \in Provided \ access : RunsOut(t)]_vars
  BY StepRunsOut
<1> QED
  BY <1>1, Invariance, PTL DEF Spec, RevocationTakesHold

-----------------------------------------------------------------------------
(* Whatever keeps a session, keeps its activity: the safety half of          *)
(* UntouchedSessionsAreForgotten.                                          *)

(* A request that opens no session changes nothing of one but its activity.  *)
LEMMA OthersAreSeen ==
  ASSUME IInv, ReaperSeesAll, NEW r \in Requests, NEW q, Goto(r, q),
         req[r].stage \notin {"serving", "seeding"},
         UNCHANGED <<transports, servers>>,
         UNCHANGED activity \/ \E s : Touch(s)
  PROVE  ReaperSeesAll'
<1>1. \A p \in Requests : p # r => req'[p] = req[p]
  BY DEF IInv, TypeOK, Goto
<1>2. \A s \in Sids : activity[s] # None => activity'[s] # None
  <2>1. 0 # None
    BY PlatformAssumption
  <2> QED
    BY <2>1 DEF IInv, TypeOK, Touch
<1>3. \A s : Opening(s) => Opening(s)'
  BY <1>1 DEF Opening
<1> QED
  BY <1>2, <1>3 DEF ReaperSeesAll, IInv, TypeOK

(* Every step.                                                              *)
LEMMA SeenStep ==
  ASSUME IInv, ReaperSeesAll, [Next]_vars
  PROVE  ReaperSeesAll'
<1> USE DEF IInv, TypeOK
<1>1. CASE \E r \in Requests, t \in Tokens, s \in issued \cup {None} :
             ArriveLocal(r, t, s) \/ ArriveCached(r, t, s) \/ ArriveUnknown(r, t, s)
  <2>1. PICK r \in Requests, t \in Tokens, s \in issued \cup {None} :
          ArriveLocal(r, t, s) \/ ArriveCached(r, t, s) \/ ArriveUnknown(r, t, s)
    BY <1>1
  <2>2. req[r].stage = "idle" /\ UNCHANGED <<transports, servers>>
    BY <2>1 DEF ArriveLocal, ArriveCached, ArriveUnknown, Arrives, Idle, tables
  <2>3. /\ \E q : Goto(r, q)
        /\ UNCHANGED activity \/ \E u : Touch(u)
    BY <2>1 DEF ArriveLocal, ArriveCached, ArriveUnknown, Admit, Refuse, Get, Post, Initialize,
       tables
  <2> QED
    BY <2>2, <2>3, OthersAreSeen
<1>2. CASE \E r \in Requests : Decide(r) \/ DeliverRefusal(r) \/ Deliver(r) \/ Read(r) \/ Abort(r)
  <2>1. PICK r \in Requests : Decide(r) \/ DeliverRefusal(r) \/ Deliver(r) \/ Read(r) \/ Abort(r)
    BY <1>2
  <2>2. req[r].stage \notin {"serving", "seeding"} /\ UNCHANGED <<transports, servers>>
    BY <2>1 DEF Decide, DeliverRefusal, Deliver, Read, Abort, tables
  <2>3. /\ \E q : Goto(r, q)
        /\ UNCHANGED activity \/ \E u : Touch(u)
    BY <2>1 DEF Decide, DeliverRefusal, Deliver, Read, Abort, Admit, Refuse, Get, Post,
       Initialize, tables
  <2> QED
    BY <2>2, <2>3, OthersAreSeen
<1>3. CASE \E r \in Requests : Publish(r)
  <2>1. PICK r \in Requests, s \in Sids \ issued :
          /\ req[r].stage = "initializing"
          /\ transports' = transports \cup {s}
          /\ req' = [req EXCEPT ![r] = [req[r] EXCEPT !.stage = "serving", !.sid = s]]
          /\ UNCHANGED <<servers, activity>>
    BY <1>3 DEF Publish, Goto
  <2>2. req'[r].stage = "serving" /\ req'[r].sid = s /\ \A p \in Requests : p # r => req'[p] = req[p]
    BY <2>1 DEF Request
  <2>3. Opening(s)' /\ \A u : Opening(u) => Opening(u)'
    BY <2>1, <2>2 DEF Opening
  <2> QED
    BY <2>1, <2>3 DEF ReaperSeesAll
<1>4. CASE \E r \in Requests : Serve(r)
  <2>1. PICK r \in Requests :
          /\ req[r].stage = "serving"
          /\ servers' = servers \cup {req[r].sid}
          /\ req' = [req EXCEPT ![r] = [req[r] EXCEPT !.stage = "seeding"]]
          /\ UNCHANGED <<transports, activity>>
    BY <1>4 DEF Serve, Goto
  <2>2. req'[r].stage = "seeding" /\ req'[r].sid = req[r].sid
        /\ \A p \in Requests : p # r => req'[p] = req[p]
    BY <2>1 DEF Request
  <2>3. Opening(req[r].sid)' /\ \A u : Opening(u) => Opening(u)'
    BY <2>1, <2>2 DEF Opening
  <2> QED
    BY <2>1, <2>3 DEF ReaperSeesAll
<1>5. CASE \E r \in Requests : Seed(r)
  <2>1. PICK r \in Requests :
          /\ req[r].stage = "seeding"
          /\ Touch(req[r].sid)
          /\ req' = [req EXCEPT ![r] = Idle]
          /\ UNCHANGED <<transports, servers>>
    BY <1>5 DEF Seed, Goto
  <2>2. req[r].sid \in Sids
    BY <2>1 DEF RequestsKnow, Knows
  <2>3. \A u \in Sids : /\ activity[u] # None => activity'[u] # None
                        /\ u = req[r].sid => activity'[u] # None
    BY <2>1, <2>2, PlatformAssumption DEF Touch
  <2>4. \A u : Opening(u) => Opening(u)' \/ u = req[r].sid
    BY <2>1 DEF Opening
  <2> QED
    BY <2>1, <2>3, <2>4 DEF ReaperSeesAll
<1>6. CASE Reap
  BY <1>6 DEF Reap, ReaperSeesAll, Opening
<1>7. CASE Tick
  <2>1. \A s \in Sids : activity[s] # None => activity'[s] # None
    <3>1. \A n \in Nat : Lesser(n + 1, MaxIdle + 1) \in Nat
      BY PlatformAssumption DEF Lesser
    <3> QED
      BY <1>7, <3>1, PlatformAssumption DEF Tick
  <2> QED
    BY <1>7, <2>1 DEF Tick, ReaperSeesAll, Opening
<1>8. CASE Restart
  BY <1>8 DEF Restart, ReaperSeesAll
<1>9. CASE (\E t \in Tokens : Revoke(t)) \/ UNCHANGED vars
  BY <1>9 DEF Revoke, vars, tables, ReaperSeesAll, Opening
<1> QED
  BY <1>1, <1>2, <1>3, <1>4, <1>5, <1>6, <1>7, <1>8, <1>9 DEF Next

(* Nothing the server keeps of a session is out of the reaper's sight, which  *)
(* goes by the activity alone (369-405), but while its opener is at work.     *)
THEOREM NothingIsOverlooked == Spec => []ReaperSeesAll
<1>1. Init => ReaperSeesAll
  BY DEF Init, ReaperSeesAll
<1>2. IInv /\ ReaperSeesAll /\ [Next]_vars => ReaperSeesAll'
  BY SeenStep
<1> QED
  BY <1>1, <1>2, Invariance, PTL DEF Spec

=============================================================================
