-------------------------- MODULE PlatformSession --------------------------
(***************************************************************************)
(* http-server-oauth.mjs: the sessions of the full-platform server.  A      *)
(* request is verified before its session is looked at, by a provider that  *)
(* answers late or from a cache of its earlier answers; a POST then waits   *)
(* for its body, while the reaper closes sessions nobody has touched.       *)
(*                                                                         *)
(* Time is counted in units: of the life of a cached verdict, of a token    *)
(* and of an idle session.                                                 *)
(***************************************************************************)
EXTENDS Naturals

CONSTANTS
  Sids, Requests, None,
  Provided,    \* tokens only a provider can vouch for
  Local,       \* the server's own bearer, and JWTs that Dexter has signed:
               \* both are verified at once
  Identities,  \* authentication kind, issuer and subject
  IdentityOf,  \* the identities each token may be verified as: which of two
               \* providers answers decides the kind
  Ttl,         \* life of a cached verdict
  MaxIdle,     \* SESSION_IDLE_TIMEOUT_MS
  Forever      \* the life of a token without an expiry, longer than any other

Tokens == Provided \cup Local

ASSUME PlatformAssumption ==
  /\ None \notin Sids \cup Identities \cup Nat
  /\ Provided \cap Local = {}
  /\ IdentityOf \in [Tokens -> SUBSET Identities]
  /\ Ttl \in Nat \ {0} /\ MaxIdle \in Nat /\ Forever \in Nat \ {0}

VARIABLES
  issued,      \* session ids that have been generated
  transports,
  identity,    \* sessionIdentity, with sessionUsers
  servers,
  activity,    \* the age of sessionLastActivity, with the label, the start
               \* time and the client hint stored beside it
  cache,       \* tokenCache: who a token was verified as, and for how long;
               \* those it keeps of local tokens are never read
  life,        \* what is left of a token until its exp
  access,      \* tokens whose provider would still vouch for them
  req          \* one request each: its stage and what it has read

tables == <<transports, identity, servers, activity>>
vars == <<issued, tables, cache, life, access, req>>

Stages == {"idle", "validating", "decided", "reading", "initializing", "serving", "seeding"}

Request == [stage : Stages, token : Tokens \cup {None}, sid : Sids \cup {None},
            known : BOOLEAN, who : Identities \cup {None}]

Idle == [stage |-> "idle", token |-> None, sid |-> None, known |-> FALSE, who |-> None]

(* An entry that has expired is as good as none.                           *)
Verdicts == [who : Identities, left : 1..Ttl]

TypeOK ==
  /\ issued \subseteq Sids
  /\ transports \subseteq issued
  /\ identity \in [Sids -> Identities \cup {None}]
  /\ servers \subseteq issued
  /\ activity \in [Sids -> 0..(MaxIdle + 1) \cup {None}]
  /\ cache \in [Provided -> Verdicts \cup {None}]
  /\ life \in [Tokens -> 0..Forever]
  /\ access \subseteq Provided
  /\ req \in [Requests -> Request]

Init ==
  /\ issued = {}
  /\ transports = {}
  /\ identity = [s \in Sids |-> None]
  /\ servers = {}
  /\ activity = [s \in Sids |-> None]
  /\ cache = [t \in Provided |-> None]
  /\ life \in [Tokens -> 1..Forever]
  /\ access = Provided
  /\ req = [r \in Requests |-> Idle]

-----------------------------------------------------------------------------
Touch(s) == activity' = [activity EXCEPT ![s] = 0]

Goto(r, q) == req' = [req EXCEPT ![r] = q]

Lesser(m, n) == IF m < n THEN m ELSE n

(* providerCacheExpiry: the exp of a token can only shorten a verdict.      *)
Verdict(t, who) ==
  IF life[t] = 0 THEN None ELSE [who |-> who, left |-> Lesser(Ttl, life[t])]

MutantAnyIdentity(q) == q.known /\ identity[q.sid] = None

(* The request q has been verified as its who.  A session it named when it  *)
(* arrived must be pinned to that identity now; then the method decides.    *)
Denied(q) == q.known /\ (identity[q.sid] = None \/ identity[q.sid] # q.who)

Refuse(r, q) ==
  /\ Denied(q) \/ q.sid \notin transports
  /\ Goto(r, Idle)
  /\ UNCHANGED activity

Get(r, q) ==
  /\ ~Denied(q) /\ q.sid \in transports
  /\ Goto(r, Idle)
  /\ Touch(q.sid)

Post(r, q) ==
  /\ ~Denied(q) /\ q.sid \in transports
  /\ Goto(r, [q EXCEPT !.stage = "reading", !.known = FALSE])
  /\ UNCHANGED activity

(* A POST without a session id.                                            *)
Initialize(r, q) ==
  /\ q.sid = None
  /\ Goto(r, [q EXCEPT !.stage = "initializing"])
  /\ UNCHANGED activity

Admit(r, q) ==
  Refuse(r, q) \/ Get(r, q) \/ Post(r, q) \/ Initialize(r, q)

(* A request with an unexpired token; it may name any session id that has   *)
(* been given out, also one that is closed.                                *)
Arrives(r, t, s) ==
  /\ req[r] = Idle
  /\ life[t] > 0

Arrival(t, s, who) ==
  [stage |-> "validating", token |-> t, sid |-> s, known |-> s \in transports,
   who |-> who]

ArriveLocal(r, t, s) ==
  /\ Arrives(r, t, s)
  /\ t \in Local
  /\ \E who \in IdentityOf[t] : Admit(r, Arrival(t, s, who))
  /\ UNCHANGED <<issued, transports, identity, servers, cache, life, access>>

MutantRenewsVerdict(r, t, s) ==
  /\ Arrives(r, t, s)
  /\ t \in Provided /\ cache[t] # None
  /\ cache' = [cache EXCEPT ![t] = Verdict(t, cache[t].who)]
  /\ Admit(r, Arrival(t, s, cache[t].who))
  /\ UNCHANGED <<issued, transports, identity, servers, life, access>>

ArriveCached(r, t, s) ==
  /\ Arrives(r, t, s)
  /\ t \in Provided /\ cache[t] # None
  /\ Admit(r, Arrival(t, s, cache[t].who))
  /\ UNCHANGED <<issued, transports, identity, servers, cache, life, access>>

ArriveUnknown(r, t, s) ==
  /\ Arrives(r, t, s)
  /\ t \in Provided /\ cache[t] = None
  /\ Goto(r, Arrival(t, s, None))
  /\ UNCHANGED <<issued, tables, cache, life, access>>

(* The provider makes up its mind; its answer is still to come.             *)
Decide(r) ==
  /\ req[r].stage = "validating"
  /\ \E who \in (IF req[r].token \in access THEN IdentityOf[req[r].token] ELSE {}) \cup {None} :
       Goto(r, [req[r] EXCEPT !.stage = "decided", !.who = who])
  /\ UNCHANGED <<issued, tables, cache, life, access>>

(* A refusal, or an outage, leaves the cache as it is.                      *)
DeliverRefusal(r) ==
  /\ req[r].stage = "decided" /\ req[r].who = None
  /\ Goto(r, Idle)
  /\ UNCHANGED <<issued, tables, cache, life, access>>

MutantTrustsAnswer(r) ==
  /\ req[r].stage = "decided" /\ req[r].who # None
  /\ cache' = [cache EXCEPT ![req[r].token] = Verdict(req[r].token, req[r].who)]
  /\ Admit(r, req[r])
  /\ UNCHANGED <<issued, transports, identity, servers, life, access>>

Deliver(r) ==
  /\ req[r].stage = "decided" /\ req[r].who # None
  /\ cache' = [cache EXCEPT ![req[r].token] = Verdict(req[r].token, req[r].who)]
  /\ \/ /\ life[req[r].token] = 0
        /\ Goto(r, Idle)
        /\ UNCHANGED activity
     \/ /\ life[req[r].token] > 0
        /\ Admit(r, req[r])
  /\ UNCHANGED <<issued, transports, identity, servers, life, access>>

-----------------------------------------------------------------------------
(* The body is there, and the wallet has been looked up: the session is     *)
(* touched and its transport used, whether or not it has been reaped.       *)
Read(r) ==
  /\ req[r].stage = "reading"
  /\ Touch(req[r].sid)
  /\ Goto(r, Idle)
  /\ UNCHANGED <<issued, transports, identity, servers, cache, life, access>>

(* The body breaks off, or is no initialize request.                        *)
Abort(r) ==
  /\ req[r].stage \in {"reading", "initializing"}
  /\ Goto(r, Idle)
  /\ UNCHANGED <<issued, tables, cache, life, access>>

(* onsessioninitialized, with an id that nobody has seen.                   *)
Publish(r) ==
  /\ req[r].stage = "initializing"
  /\ \E s \in Sids \ issued :
       /\ issued' = issued \cup {s}
       /\ transports' = transports \cup {s}
       /\ identity' = [identity EXCEPT ![s] = req[r].who]
       /\ Goto(r, [req[r] EXCEPT !.stage = "serving", !.sid = s])
  /\ UNCHANGED <<servers, activity, cache, life, access>>

(* handleRequest has returned; the wallet of the session is looked up next. *)
Serve(r) ==
  /\ req[r].stage = "serving"
  /\ servers' = servers \cup {req[r].sid}
  /\ Goto(r, [req[r] EXCEPT !.stage = "seeding"])
  /\ UNCHANGED <<issued, transports, identity, activity, cache, life, access>>

Seed(r) ==
  /\ req[r].stage = "seeding"
  /\ Touch(req[r].sid)
  /\ Goto(r, Idle)
  /\ UNCHANGED <<issued, transports, identity, servers, cache, life, access>>

-----------------------------------------------------------------------------
MutantLiveOnly(s) == s \in transports /\ activity[s] # None /\ activity[s] > MaxIdle

(* reapIdleSessions goes by the activity alone.                             *)
IsIdle(s) == activity[s] # None /\ activity[s] > MaxIdle

MutantKeepIdentity ==
  /\ \E s \in Sids : IsIdle(s)
  /\ transports' = {s \in transports : ~IsIdle(s)}
  /\ servers' = {s \in servers : ~IsIdle(s)}
  /\ activity' = [s \in Sids |-> IF IsIdle(s) THEN None ELSE activity[s]]
  /\ UNCHANGED <<issued, identity, cache, life, access, req>>

Reap ==
  /\ \E s \in Sids : IsIdle(s)
  /\ transports' = {s \in transports : ~IsIdle(s)}
  /\ identity' = [s \in Sids |-> IF IsIdle(s) THEN None ELSE identity[s]]
  /\ servers' = {s \in servers : ~IsIdle(s)}
  /\ activity' = [s \in Sids |-> IF IsIdle(s) THEN None ELSE activity[s]]
  /\ UNCHANGED <<issued, cache, life, access, req>>

Tick ==
  /\ activity' = [s \in Sids |-> IF activity[s] = None THEN None
                                 ELSE Lesser(activity[s] + 1, MaxIdle + 1)]
  /\ cache' = [t \in Provided |-> IF cache[t] = None \/ cache[t].left = 1 THEN None
                                 ELSE [cache[t] EXCEPT !.left = @ - 1]]
  /\ life' = [t \in Tokens |-> IF life[t] \in {0, Forever} THEN life[t] ELSE life[t] - 1]
  /\ UNCHANGED <<issued, transports, identity, servers, access, req>>

(* An account loses its access, a token is revoked.                        *)
Revoke(t) ==
  /\ t \in access
  /\ access' = access \ {t}
  /\ UNCHANGED <<issued, tables, cache, life, req>>

(* Everything is in memory.                                                *)
Restart ==
  /\ transports' = {}
  /\ identity' = [s \in Sids |-> None]
  /\ servers' = {}
  /\ activity' = [s \in Sids |-> None]
  /\ cache' = [t \in Provided |-> None]
  /\ req' = [r \in Requests |-> Idle]
  /\ UNCHANGED <<issued, life, access>>

-----------------------------------------------------------------------------
Next ==
  \/ \E r \in Requests, t \in Tokens, s \in issued \cup {None} :
       \/ ArriveLocal(r, t, s) \/ ArriveCached(r, t, s) \/ ArriveUnknown(r, t, s)
  \/ \E r \in Requests :
       \/ Decide(r) \/ DeliverRefusal(r) \/ Deliver(r)
       \/ Read(r) \/ Abort(r) \/ Publish(r) \/ Serve(r) \/ Seed(r)
  \/ \E t \in Tokens : Revoke(t)
  \/ Reap \/ Tick \/ Restart

Spec == Init /\ [][Next]_vars

(* Time passes, and the reaper's interval fires.                            *)
FairSpec == Spec /\ WF_vars(Tick) /\ WF_vars(Reap)

-----------------------------------------------------------------------------
(* A POST that was let through to a session is of the identity that opened   *)
(* it, whatever was verified, reaped and restarted since it arrived.        *)
OnlyOwnerUses ==
  \A r \in Requests :
    req[r].stage = "reading" /\ req[r].sid \in transports => identity[req[r].sid] = req[r].who

(* An id is opened once, keeps its owner while it lives, never comes back.  *)
Authority == INSTANCE SessionAuthority WITH
  Owners <- Identities,
  stage <- [s \in Sids |-> IF s \in transports THEN "live"
                           ELSE IF s \in issued THEN "gone" ELSE "absent"],
  owner <- identity

ImplementsAuthority == Authority!Spec

(* A request goes on only with a token that has not expired by then, also    *)
(* when it expired while the provider was asked.                           *)
GoesOn(r) == /\ req[r].stage \notin {"reading", "initializing"}
             /\ req'[r].stage \in {"reading", "initializing"}

OnlyUnexpiredGoOn == [][\A r \in Requests : GoesOn(r) => life[req'[r].token] > 0]_vars

(* A session that is not touched any more leaves every table, and so do the  *)
(* records that late requests leave of one that was reaped before, unless    *)
(* its own initialization never ends.                                      *)
Opening(s) == \E r \in Requests : req[r].stage \in {"serving", "seeding"} /\ req[r].sid = s
Unknown(s) == s \notin transports \cup servers /\ identity[s] = None /\ activity[s] = None

UntouchedSessionsAreForgotten ==
  \A s \in Sids :
    (<>[][activity'[s] # 0]_vars /\ <>[]~Opening(s)) => <>[]Unknown(s)

(* However often a token is used that its provider no longer accepts, in    *)
(* the end it is refused for good.                                         *)
RevokedTokensAreRefused ==
  \A t \in Provided :
    (<>(t \notin access)) => <>[][\A r \in Requests : GoesOn(r) => req'[r].token # t]_vars

(* The steps of that: once its provider has changed its mind, a token is     *)
(* good for the answers already given and on their way, and for the rest of  *)
(* the life of the last verdict; nothing renews either.  The five minutes    *)
(* count from an answer (1016), not from a use of it.                       *)
Late(t) == {r \in Requests : /\ req[r].stage = "decided" /\ req[r].who # None
                             /\ req[r].token = t}

Left(t) == IF cache[t] = None THEN 0 ELSE cache[t].left

RunsOut(t) ==
  /\ Late(t)' \subseteq Late(t)
  /\ Late(t)' = Late(t) =>
       /\ Left(t)' <= Left(t)
       /\ \A r \in Requests : GoesOn(r) /\ req'[r].token = t => Left(t) > 0

RevocationTakesHold == [][\A t \in Provided \ access : RunsOut(t)]_vars

(* The reaper goes by the activity alone, so whatever is kept of a session   *)
(* must have one; the request that opens it is the only excuse.             *)
ReaperSeesAll ==
  \A s \in transports \cup servers : activity[s] # None \/ Opening(s)

-----------------------------------------------------------------------------
(* The inductive strengthening.                                            *)

IdentitiesAreLive == \A s \in Sids : identity[s] # None <=> s \in transports

(* What a request may rely on at each stage; a session id it knew to be      *)
(* closed when it arrived is not opened meanwhile.                          *)
Knows(q) ==
  /\ q.stage # "idle" => q.token \in Tokens
  /\ q.stage \in {"validating", "decided"} =>
       /\ q.token \in Provided
       /\ q.sid \in issued \cup {None}
       /\ ~q.known => q.sid \notin transports
  /\ q.stage \in {"reading", "serving", "seeding"} => q.sid \in issued
  /\ q.stage \in {"reading", "initializing", "serving", "seeding"} => q.who # None

RequestsKnow == \A r \in Requests : Knows(req[r])

IInv == TypeOK /\ IdentitiesAreLive /\ RequestsKnow /\ OnlyOwnerUses

=============================================================================
