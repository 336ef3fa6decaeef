---------------------------- MODULE OpenSession ----------------------------
(***************************************************************************)
(* The session boundary of the OpenDexter server (open-mcp-server.mjs):    *)
(* how a POST, GET or DELETE on /mcp is authorized, matched with a         *)
(* session, dispatched to the session's transport, and how sessions are    *)
(* created, closed and reaped.                                             *)
(*                                                                         *)
(* The handler of an HTTP request runs without interruption between two    *)
(* awaits; every await is a value of pc and whatever follows it is one     *)
(* action.  What the awaited party answers (dexter-api's oauth-seed and    *)
(* link-token/bind endpoints, the binding lookup, the SDK, the client's    *)
(* body) is a parameter of that action.  Elapsed time is the age of each   *)
(* session's lastActivity against the two idle leases.                     *)
(***************************************************************************)
EXTENDS Naturals

CONSTANTS Sids,      \* session ids randomUUID can return
          Requests,  \* HTTP requests being served at the same time
          OAuthIds,  \* identities of verified vault Bearers
          LinkRefs,  \* digests of durable link tokens
          Handles,   \* user handles dexter-api names for a link token
          None

Credentials == OAuthIds \cup LinkRefs

ASSUME NoneIsNobody == None \notin Credentials \cup Handles \cup Sids
ASSUME RailsAreDisjoint == OAuthIds \cap LinkRefs = {}

VARIABLES
  transports,   \* keys of `transports': the published sessions
  known,        \* keys of `sessionMeta'
  meta,         \* sessionMeta's values (Blank outside known)
  idle,         \* age of lastActivity: recent, beyond 90 min, beyond 7 days
  userBindings, \* keys of `userBindings'
  used,         \* session ids already drawn
  published,    \* ids that ever were sessions: the ones clients know
  pc,           \* where each request is
  method,       \* POST, GET, DELETE, or INIT: a POST without session id
  sid,          \* the session id the request names or is given
  cred,         \* the credential it presents
  account,      \* whether it also carries a legacy account JWT
  verdict,      \* what dexter-api said of the credential (history)
  reply         \* the last answer written for the request

maps == <<transports, known, meta, idle, userBindings>>
ids == <<used, published>>
request == <<method, sid, cred, account>>
vars == <<maps, ids, pc, request, verdict, reply>>

Modes == {"none", "oauth", "link_token", "legacy_binding"}

Meta == [resource : BOOLEAN, accountBound : BOOLEAN, vaultBound : BOOLEAN,
         mode : Modes, oauth : OAuthIds \cup {None},
         linkRef : LinkRefs \cup {None}, linkHandle : Handles \cup {None}]

Pcs == {"idle", "seed", "linkBind", "linkProbe", "body", "sdk", "closing",
        "initBody", "initSeed", "initLink", "connect", "threw"}

(* Replies: 401 in three wordings, 503, 404, 400, and what the SDK wrote.   *)
Replies == {"none", "challenge", "foreign", "otherMode", "unavailable",
            "notFound", "badRequest", "served"}

TypeOK ==
  /\ transports \subseteq Sids
  /\ known \subseteq Sids
  /\ meta \in [Sids -> Meta]
  /\ idle \in [Sids -> {"recent", "short", "long"}]
  /\ userBindings \subseteq Sids
  /\ used \subseteq Sids
  /\ published \subseteq Sids
  /\ pc \in [Requests -> Pcs]
  /\ method \in [Requests -> {"POST", "GET", "DELETE", "INIT"}]
  /\ sid \in [Requests -> Sids \cup {None}]
  /\ cred \in [Requests -> Credentials \cup {None}]
  /\ account \in [Requests -> BOOLEAN]
  /\ verdict \in [Requests -> {"none", "accepted", "rejected", "unavailable"}]
  /\ reply \in [Requests -> Replies]

-----------------------------------------------------------------------------
(* lib/open-session-auth-state.mjs: the values kept per session.            *)
Blank == [resource |-> FALSE, accountBound |-> FALSE, vaultBound |-> FALSE,
          mode |-> "none", oauth |-> None, linkRef |-> None, linkHandle |-> None]

PinResource(m) == [m EXCEPT !.resource = TRUE]

MarkAccountBound(m) == [m EXCEPT !.accountBound = TRUE]

(* A caller that names no mode never overwrites a known one.               *)
MarkVaultBound(m, authMode) ==
  [m EXCEPT !.vaultBound = TRUE,
            !.mode = IF authMode # "none" THEN authMode
                     ELSE IF @ = "none" THEN "legacy_binding" ELSE @]

ClearVaultBound(m) == [m EXCEPT !.vaultBound = FALSE]

PinOAuthIdentity(m, u) == [m EXCEPT !.oauth = u, !.mode = "oauth"]

PinLinkIdentity(m, ref, h) == [m EXCEPT !.linkRef = ref, !.linkHandle = h]

OAuthStatus(m, u) ==
  IF m.oauth = None THEN "unpinned" ELSE IF m.oauth = u THEN "match" ELSE "mismatch"

IsAnyIdentityBound(m) == m.accountBound \/ m.vaultBound

-----------------------------------------------------------------------------
(* sessionMeta.set(s, m): an entry made from nothing starts its lease.      *)
PutMeta(s, m) ==
  /\ known' = known \cup {s}
  /\ meta' = [meta EXCEPT ![s] = m]

Touch(s) == idle' = [idle EXCEPT ![s] = "recent"]

(* The three deletes every way of ending a session performs.               *)
MutantKeepUserBinding(s) ==
  /\ transports' = transports \ {s}
  /\ known' = known \ {s}
  /\ meta' = [meta EXCEPT ![s] = Blank]
  /\ idle' = [idle EXCEPT ![s] = "recent"]
  /\ UNCHANGED userBindings

DropSession(s) ==
  /\ transports' = transports \ {s}
  /\ userBindings' = userBindings \ {s}
  /\ known' = known \ {s}
  /\ meta' = [meta EXCEPT ![s] = Blank]
  /\ idle' = [idle EXCEPT ![s] = "recent"]

(* The request's answer is written; the slot is free for another request.  *)
Answer(r, what) ==
  /\ pc' = [pc EXCEPT ![r] = "idle"]
  /\ reply' = [reply EXCEPT ![r] = what]
  /\ method' = [method EXCEPT ![r] = "POST"]
  /\ sid' = [sid EXCEPT ![r] = None]
  /\ cred' = [cred EXCEPT ![r] = None]
  /\ account' = [account EXCEPT ![r] = FALSE]

GoTo(r, where) ==
  /\ pc' = [pc EXCEPT ![r] = where]
  /\ UNCHANGED <<request, reply>>

Verdict(r, v) == verdict' = [verdict EXCEPT ![r] = v]

Init ==
  /\ transports = {}
  /\ known = {}
  /\ meta = [s \in Sids |-> Blank]
  /\ idle = [s \in Sids |-> "recent"]
  /\ userBindings = {}
  /\ used = {}
  /\ published = {}
  /\ pc = [r \in Requests |-> "idle"]
  /\ method = [r \in Requests |-> "POST"]
  /\ sid = [r \in Requests |-> None]
  /\ cred = [r \in Requests |-> None]
  /\ account = [r \in Requests |-> FALSE]
  /\ verdict = [r \in Requests |-> "none"]
  /\ reply = [r \in Requests |-> "none"]

-----------------------------------------------------------------------------
(* A request arrives and runs to its first await on a session.             *)
Admit(r, m, s, c, a, where) ==
  /\ pc' = [pc EXCEPT ![r] = where]
  /\ method' = [method EXCEPT ![r] = m]
  /\ sid' = [sid EXCEPT ![r] = s]
  /\ cred' = [cred EXCEPT ![r] = c]
  /\ account' = [account EXCEPT ![r] = a]
  /\ verdict' = [verdict EXCEPT ![r] = "none"]
  /\ reply' = [reply EXCEPT ![r] = "none"]

Turn(r, what) ==
  /\ Answer(r, what)
  /\ Verdict(r, "none")
  /\ UNCHANGED <<maps, ids>>

(* The Bearer does not verify, or its keys cannot be fetched.              *)
ArriveUnverified(r) ==
  /\ pc[r] = "idle"
  /\ \E what \in {"challenge", "unavailable"} : Turn(r, what)

(* A request naming no session: only a POST can go on, to initialize.       *)
ArriveSessionless(r, m, c) ==
  /\ pc[r] = "idle"
  /\ m # "POST"
  /\ Turn(r, IF m = "GET" \/ c \in LinkRefs THEN "badRequest" ELSE "notFound")

ArriveInit(r, c, a) ==
  /\ pc[r] = "idle"
  /\ Admit(r, "INIT", None, c, a, "initBody")
  /\ UNCHANGED <<maps, ids>>

(* A Bearer on a session: resource, mode and identity are checked, and an   *)
(* identity not pinned yet is pinned, before dexter-api is asked.          *)
MutantPinAlways(s, u) == TRUE

MayPin(s, u) ==
  /\ meta[s].mode \in {"none", "oauth"}
  /\ OAuthStatus(meta[s], u) # "mismatch"

ArriveOAuth(r, m, s, u) ==
  /\ pc[r] = "idle"
  /\ \/ /\ s \in transports
        /\ meta[s].resource
        /\ MayPin(s, u)
        /\ PutMeta(s, PinOAuthIdentity(meta[s], u))
        /\ Admit(r, m, s, u, FALSE, "seed")
        /\ UNCHANGED <<transports, idle, userBindings, ids>>
     \/ /\ s \in transports
        /\ meta[s].resource
        /\ ~MayPin(s, u)
        /\ Turn(r, IF meta[s].mode \in {"none", "oauth"} THEN "foreign" ELSE "otherMode")
     \/ /\ s \notin transports \/ ~meta[s].resource
        /\ Turn(r, "notFound")

(* A link token on a session: it must be the one that initialized it.  An   *)
(* unknown id is probed; a known one without a digest is refused.          *)
ArriveLink(r, m, s, c, a) ==
  /\ pc[r] = "idle"
  /\ \/ /\ meta[s].linkRef = c
        /\ Admit(r, m, s, c, a, "linkBind")
        /\ UNCHANGED <<maps, ids>>
     \/ /\ s \notin known
        /\ Admit(r, m, s, c, a, "linkProbe")
        /\ UNCHANGED <<maps, ids>>
     \/ /\ meta[s].linkRef \notin {None, c}
        /\ Turn(r, "foreign")
     \/ /\ meta[s].linkRef = None
        /\ s \in known
        /\ Turn(r, "otherMode")

-----------------------------------------------------------------------------
(* The request is authorized; m is its session's metadata by now.  The     *)
(* session may have gone during the await, so it is looked up again.       *)
Route(r, m) ==
  LET s == sid[r] IN
  /\ UNCHANGED <<transports, ids>>
  /\ \/ /\ s \notin transports
        /\ Answer(r, "notFound")
        /\ IF m = meta[s] THEN UNCHANGED <<known, meta>> ELSE PutMeta(s, m)
        /\ UNCHANGED <<idle, userBindings>>
     \/ /\ s \in transports
        /\ method[r] = "GET"
        /\ PutMeta(s, m)
        /\ Touch(s)
        /\ GoTo(r, "sdk")
        /\ UNCHANGED userBindings
     \/ /\ s \in transports
        /\ method[r] = "POST"
        /\ PutMeta(s, IF account[r] THEN MarkAccountBound(m) ELSE m)
        /\ Touch(s)
        /\ userBindings' = IF account[r] THEN userBindings \cup {s} ELSE userBindings
        /\ GoTo(r, "body")
     \/ /\ s \in transports
        /\ method[r] = "DELETE"
        /\ PutMeta(s, m)
        /\ GoTo(r, "closing")
        /\ UNCHANGED <<idle, userBindings>>

MutantDenyTouches(r, what) ==
  /\ Answer(r, what)
  /\ IF sid[r] \in known THEN Touch(sid[r]) ELSE UNCHANGED idle
  /\ UNCHANGED <<transports, known, meta, userBindings, ids>>

Deny(r, what) == Answer(r, what) /\ UNCHANGED <<maps, ids>>

(* A validated link token meets the checks every session goes through.     *)
LinkRoute(r) ==
  LET s == sid[r] IN
  IF s \in transports => meta[s].resource /\ meta[s].mode = "link_token"
  THEN Route(r, meta[s])
  ELSE Deny(r, IF meta[s].resource THEN "otherMode" ELSE "notFound")

(* seedOAuthVaultBinding returns.  An accepted seed only marks a session    *)
(* that still has this identity pinned; a seed for another handle, or for a *)
(* session that has gone, is an identity mismatch.                         *)
MutantSeedTrustsSession(s, u) == TRUE

StillPinned(s, u) == OAuthStatus(meta[s], u) = "match"

SeedAnswer(r) ==
  LET s == sid[r] IN
  /\ pc[r] = "seed"
  /\ \/ /\ Verdict(r, "accepted")
        /\ \/ StillPinned(s, cred[r]) /\ Route(r, MarkVaultBound(meta[s], "oauth"))
           \/ ~StillPinned(s, cred[r]) /\ Deny(r, "challenge")
     \/ Verdict(r, "rejected") /\ Deny(r, "challenge")
     \/ Verdict(r, "unavailable") /\ Deny(r, "unavailable")

(* bindLinkTokenToSession returns for the pinned token: the handle it names *)
(* must be the one pinned, read again after the await.                     *)
LinkBindAnswer(r) ==
  /\ pc[r] = "linkBind"
  /\ \/ /\ Verdict(r, "accepted")
        /\ \E h \in Handles :
             \/ meta[sid[r]].linkHandle # h /\ Deny(r, "foreign")
             \/ meta[sid[r]].linkHandle = h /\ LinkRoute(r)
     \/ Verdict(r, "rejected") /\ Deny(r, "challenge")
     \/ Verdict(r, "unavailable") /\ Deny(r, "unavailable")

(* The probe of an unknown id returns.                                     *)
LinkProbeAnswer(r) ==
  /\ pc[r] = "linkProbe"
  /\ \/ Verdict(r, "accepted") /\ LinkRoute(r)
     \/ Verdict(r, "rejected") /\ Deny(r, "challenge")
     \/ Verdict(r, "unavailable") /\ Deny(r, "unavailable")

(* The body of a POST has been read: the transport is fetched only now, and *)
(* handleRequest of nothing throws out of the async request listener: the   *)
(* rejection is unhandled and ends the process.                            *)
BodyArrives(r) ==
  /\ pc[r] = "body"
  /\ \/ Answer(r, "badRequest")
     \/ sid[r] \in transports /\ GoTo(r, "sdk")
     \/ sid[r] \notin transports /\ GoTo(r, "threw")
  /\ UNCHANGED <<maps, ids, verdict>>

(* A tool asks whether the session is bound to a vault and records the      *)
(* answer, whatever became of the session meanwhile (x402_fetch,            *)
(* dexter_wallet, dexter_wallet_portfolio, resolveIntentSession).           *)
ToolLookup(r) ==
  LET s == sid[r] IN
  /\ pc[r] = "sdk"
  /\ method[r] = "POST"
  /\ \/ PutMeta(s, MarkVaultBound(meta[s], "none"))
     \/ PutMeta(s, ClearVaultBound(meta[s]))
  /\ UNCHANGED <<transports, idle, userBindings, ids, pc, request, verdict, reply>>

(* handleRequest and the tool call it dispatched are over.                 *)
SdkDone(r) ==
  /\ pc[r] = "sdk"
  /\ Answer(r, "served")
  /\ UNCHANGED <<maps, ids, verdict>>

-----------------------------------------------------------------------------
(* DELETE: the SDK closes the transport, whose onclose drops the session,   *)
(* or answers otherwise; then the handler drops the session in any case.   *)
TransportCloses(r) ==
  /\ pc[r] = "closing"
  /\ DropSession(sid[r])
  /\ UNCHANGED <<ids, pc, request, verdict, reply>>

MutantDeleteOnlyLive(r) ==
  /\ pc[r] = "closing"
  /\ sid[r] \in transports
  /\ DropSession(sid[r])
  /\ Answer(r, "served")
  /\ UNCHANGED <<ids, verdict>>

DeleteDone(r) ==
  /\ pc[r] = "closing"
  /\ DropSession(sid[r])
  /\ Answer(r, "served")
  /\ UNCHANGED <<ids, verdict>>

-----------------------------------------------------------------------------
(* Initialization.  The body is read and found to be an initialize request; *)
(* the session id is drawn; for a Bearer the metadata is written before     *)
(* dexter-api is asked, for a link token after it has answered.            *)
InitBody(r, s) ==
  /\ pc[r] = "initBody"
  /\ \/ Deny(r, "badRequest")
     \/ /\ s \notin used
        /\ used' = used \cup {s}
        /\ sid' = [sid EXCEPT ![r] = s]
        /\ \/ /\ cred[r] \in OAuthIds
              /\ PutMeta(s, PinOAuthIdentity(PinResource(Blank), cred[r]))
              /\ pc' = [pc EXCEPT ![r] = "initSeed"]
           \/ /\ cred[r] \in LinkRefs
              /\ UNCHANGED <<known, meta>>
              /\ pc' = [pc EXCEPT ![r] = "initLink"]
        /\ UNCHANGED <<transports, idle, userBindings, published,
                       method, cred, account, reply>>
  /\ UNCHANGED verdict

(* Refused or unavailable: the provisional session is cleared.             *)
ClearProvisional(r, what) ==
  /\ DropSession(sid[r])
  /\ Answer(r, what)
  /\ UNCHANGED ids

InitSeedAnswer(r) ==
  LET s == sid[r] IN
  /\ pc[r] = "initSeed"
  /\ \/ /\ Verdict(r, "accepted")
        /\ StillPinned(s, cred[r])
        /\ PutMeta(s, MarkVaultBound(meta[s], "oauth"))
        /\ GoTo(r, "connect")
        /\ UNCHANGED <<transports, idle, userBindings, ids>>
     \/ Verdict(r, "rejected") /\ ClearProvisional(r, "challenge")
     \/ Verdict(r, "unavailable") /\ ClearProvisional(r, "unavailable")

InitLinkAnswer(r) ==
  LET s == sid[r] IN
  /\ pc[r] = "initLink"
  /\ \/ /\ Verdict(r, "accepted")
        /\ \E h \in Handles :
             PutMeta(s, PinLinkIdentity(MarkVaultBound(PinResource(Blank), "link_token"), cred[r], h))
        /\ GoTo(r, "connect")
        /\ UNCHANGED <<transports, idle, userBindings, ids>>
     \/ Verdict(r, "rejected") /\ ClearProvisional(r, "challenge")
     \/ Verdict(r, "unavailable") /\ ClearProvisional(r, "unavailable")

(* onsessioninitialized: the SDK has accepted the initialize request.      *)
Publish(r) ==
  LET s == sid[r] IN
  /\ pc[r] = "connect"
  /\ transports' = transports \cup {s}
  /\ published' = published \cup {s}
  /\ PutMeta(s, IF account[r] THEN MarkAccountBound(PinResource(meta[s]))
                              ELSE PinResource(meta[s]))
  /\ Touch(s)
  /\ userBindings' = IF account[r] THEN userBindings \cup {s} ELSE userBindings
  /\ GoTo(r, "sdk")
  /\ UNCHANGED <<used, verdict>>

(* The correlation guard or the SDK answers 400 without initializing, as    *)
(* for a body without "jsonrpc": isInitializeRequest does not look at it.  *)
InitRefused(r) ==
  /\ pc[r] = "connect"
  /\ Answer(r, "badRequest")
  /\ UNCHANGED <<maps, ids, verdict>>

(* connect or handleRequest rejects: the transport is closed and the        *)
(* provisional session cleared.                                            *)
InitFails(r) ==
  /\ \/ pc[r] = "connect"
     \/ pc[r] = "sdk" /\ method[r] = "INIT"
  /\ ClearProvisional(r, "unavailable")
  /\ UNCHANGED verdict

-----------------------------------------------------------------------------
(* Time, the reaper, account-binding expiry and a process restart.         *)

(* Initialization, and a body, end long before a lease does: Node gives a    *)
(* body five minutes.                                                      *)
Age(s) ==
  /\ s \in known
  /\ \A r \in Requests : sid[r] = s => pc[r] \notin {"body", "initSeed", "connect"}
  /\ idle[s] # "long"
  /\ idle' = [idle EXCEPT ![s] = IF @ = "recent" THEN "short" ELSE "long"]
  /\ UNCHANGED <<transports, known, meta, userBindings, ids, pc, request, verdict, reply>>

MutantShortLeaseOnly(s) ==
  idle[s] # "recent" /\ ~IsAnyIdentityBound(meta[s])

LeaseExpired(s) ==
  \/ idle[s] = "long"
  \/ idle[s] = "short" /\ ~IsAnyIdentityBound(meta[s])

Reap(s) ==
  /\ s \in transports
  /\ LeaseExpired(s)
  /\ DropSession(s)
  /\ UNCHANGED <<ids, pc, request, verdict, reply>>

ExpireUserBinding(s) ==
  /\ s \in userBindings
  /\ userBindings' = userBindings \ {s}
  /\ UNCHANGED <<transports, known, meta, idle, ids, pc, request, verdict, reply>>

Restart ==
  /\ transports' = {}
  /\ known' = {}
  /\ meta' = [s \in Sids |-> Blank]
  /\ idle' = [s \in Sids |-> "recent"]
  /\ userBindings' = {}
  /\ pc' = [r \in Requests |-> "idle"]
  /\ method' = [r \in Requests |-> "POST"]
  /\ sid' = [r \in Requests |-> None]
  /\ cred' = [r \in Requests |-> None]
  /\ account' = [r \in Requests |-> FALSE]
  /\ verdict' = [r \in Requests |-> "none"]
  /\ reply' = [r \in Requests |-> "none"]
  /\ UNCHANGED ids

-----------------------------------------------------------------------------
(* No listener has thrown: the process is up.                              *)
Up == \A r \in Requests : pc[r] # "threw"

Arrival(r) ==
  \/ ArriveUnverified(r)
  \/ \E m \in {"GET", "DELETE"}, c \in Credentials : ArriveSessionless(r, m, c)
  \/ \E u \in OAuthIds : ArriveInit(r, u, FALSE)
  \/ \E c \in LinkRefs, a \in BOOLEAN : ArriveInit(r, c, a)
  \/ \E s \in published, m \in {"POST", "GET", "DELETE"} :
       \/ \E u \in OAuthIds : ArriveOAuth(r, m, s, u)
       \/ \E c \in LinkRefs, a \in {m = "POST", FALSE} : ArriveLink(r, m, s, c, a)

Continuation(r) ==
  \/ SeedAnswer(r)
  \/ LinkBindAnswer(r)
  \/ LinkProbeAnswer(r)
  \/ BodyArrives(r)
  \/ DeleteDone(r)
  \/ \E s \in Sids : InitBody(r, s)
  \/ InitSeedAnswer(r)
  \/ InitLinkAnswer(r)
  \/ Publish(r)
  \/ InitRefused(r)
  \/ InitFails(r)

Next ==
  \/ /\ Up
     /\ \/ \E r \in Requests : \/ Arrival(r)
                               \/ Continuation(r)
                               \/ ToolLookup(r)
                               \/ SdkDone(r)
                               \/ TransportCloses(r)
        \/ \E s \in Sids : Age(s) \/ Reap(s) \/ ExpireUserBinding(s)
  \/ Restart

Spec == Init /\ [][Next]_vars

(* Every awaited call has a timeout, Node bounds the time a body may take,  *)
(* tool handlers end, clocks advance, the reaper runs every ten minutes and *)
(* a process that has died is started again.                               *)
Fairness ==
  /\ \A r \in Requests :
       /\ WF_vars(Up /\ Continuation(r))
       /\ WF_vars(Up /\ method[r] # "GET" /\ SdkDone(r))
  /\ \A s \in Sids : WF_vars(Up /\ Age(s)) /\ WF_vars(Up /\ Reap(s))
  /\ WF_vars(~Up /\ Restart)

FairSpec == Spec /\ Fairness

-----------------------------------------------------------------------------
(* m is the metadata of a session that credential c opened: the resource    *)
(* and the identity of exactly c's rail.  An account may be attached to a   *)
(* link session only.                                                      *)
PinnedTo(m, c) ==
  /\ m.resource
  /\ \/ /\ c \in OAuthIds
        /\ m.mode = "oauth"
        /\ m.oauth = c
        /\ m.linkRef = None
        /\ ~m.accountBound
     \/ /\ c \in LinkRefs
        /\ m.mode = "link_token"
        /\ m.linkRef = c
        /\ m.linkHandle \in Handles
        /\ m.oauth = None

Using == {"body", "sdk", "closing"}

(* Whoever is reading a body for, talking to or closing a live session      *)
(* presented the credential that opened it and had it accepted, whatever    *)
(* other requests did to the session since (3852-3894).                    *)
OnlyOwnerUses ==
  \A r \in Requests :
    pc[r] \in Using /\ sid[r] \in transports =>
      /\ PinnedTo(meta[sid[r]], cred[r])
      /\ verdict[r] = "accepted"

(* A step leaves session s open, as it is, and no younger.                  *)
Spared(s) ==
  /\ s \in transports'
  /\ meta'[s] = meta[s]
  /\ idle'[s] = "recent" => idle[s] = "recent"

(* It is a step of r, which the owner of s sent and dexter-api accepted.     *)
OwnersStep(r, s) ==
  /\ sid[r] = s /\ PinnedTo(meta[s], cred[r]) /\ verdict'[r] = "accepted"
  /\ \A q \in Requests \ {r} : pc'[q] = pc[q] /\ verdict'[q] = verdict[q] /\ reply'[q] = reply[q]

(* Nobody but its owner, the reaper and a restart leaves a trace on a live   *)
(* session: another credential, or the right one before it is accepted,      *)
(* cannot alter it, close it, or put its lease off, wherever its request     *)
(* gets to ("rejected without clearing or overwriting", 3849-3851; 3898).    *)
OthersLeaveNoTrace ==
  [][\A s \in transports :
       \/ Spared(s)
       \/ \E r \in Requests : OwnersStep(r, s)
       \/ Reap(s)
       \/ Restart]_vars

NamesNobody(m) ==
  /\ m.oauth = None
  /\ m.linkRef = None
  /\ ~m.accountBound
  /\ m.mode \in {"none", "legacy_binding"}

(* A late answer revives no identity: what may remain of a session that has *)
(* gone names nobody (3154-3165, 2975-2986).                               *)
OrphansCarryNoIdentity ==
  \A s \in known \ transports : s \in published => NamesNobody(meta[s])

(* An account binding lives only with its session, and the session knows    *)
(* of it: the card operations reach it by session id (3350, 3924-3936).    *)
BindingsBelongToSessions ==
  \A s \in userBindings : s \in transports /\ meta[s].accountBound

OwnerOf(m) == IF m.oauth # None THEN m.oauth ELSE m.linkRef

(* A session is opened once, for one credential, and keeps it until it is   *)
(* closed for good (3849-3851, "rejected without clearing or overwriting"). *)
Authority == INSTANCE SessionAuthority
  WITH Owners <- Credentials,
       stage <- [s \in Sids |-> IF s \in transports THEN "live"
                                ELSE IF s \in published THEN "gone" ELSE "absent"],
       owner <- [s \in Sids |-> IF s \in transports THEN OwnerOf(meta[s]) ELSE None]

ImplementsAuthority == Authority!Spec

(* No session stays open unused: the reaper gets to it, or it is used.      *)
UnusedSessionsClose == \A s \in Sids : []<>(s \notin transports \/ idle[s] = "recent")

(* Every request that awaits something other than its own stream is         *)
(* answered, unless the process dies.                                      *)
RequestsEnd ==
  \A r \in Requests :
    pc[r] \notin {"idle", "sdk"} ~> pc[r] \in {"idle", "sdk"}

-----------------------------------------------------------------------------
(* The inductive invariant behind them.                                    *)
Initializing == {"initSeed", "initLink", "connect"}
OnSession == {"seed", "linkBind", "linkProbe"} \cup Using

(* A published session has metadata that names its one owner, whatever      *)
(* answers and tool lookups came when (3852-3894, 4047-4072).              *)
PublishedIsPinned ==
  \A s \in transports : s \in known /\ \E c \in Credentials : PinnedTo(meta[s], c)

MapsNest ==
  /\ transports \subseteq published
  /\ published \subseteq used
  /\ \A s \in Sids \ known : meta[s] = Blank

(* Clients reach published sessions only; an id being initialized is not,   *)
(* and its metadata already names the credential it is initialized for.    *)
RequestInv(r) ==
  /\ pc[r] # "idle" => cred[r] \in Credentials
  /\ account[r] => cred[r] \in LinkRefs
  /\ pc[r] \in OnSession => sid[r] \in published
  /\ pc[r] = "linkProbe" => sid[r] \notin transports
  /\ pc[r] = "linkBind" /\ sid[r] \in transports => PinnedTo(meta[sid[r]], cred[r])
  /\ pc[r] \in Using =>
       /\ verdict[r] = "accepted"
       /\ sid[r] \in transports => PinnedTo(meta[sid[r]], cred[r])
  /\ pc[r] \in Initializing => sid[r] \in used \ published
  /\ pc[r] = "initSeed" => cred[r] \in OAuthIds
  /\ pc[r] = "initLink" => cred[r] \in LinkRefs
  /\ pc[r] \in {"initSeed", "connect"} =>
       sid[r] \in known /\ PinnedTo(meta[sid[r]], cred[r])
  /\ pc[r] = "connect" => verdict[r] = "accepted"

InitIdsDiffer ==
  \A r, q \in Requests :
    r # q /\ pc[r] \in Initializing /\ pc[q] \in Initializing => sid[r] # sid[q]

IInv ==
  /\ TypeOK
  /\ MapsNest
  /\ PublishedIsPinned
  /\ OrphansCarryNoIdentity
  /\ BindingsBelongToSessions
  /\ \A r \in Requests : RequestInv(r)
  /\ InitIdsDiffer

-----------------------------------------------------------------------------
(* What a comment of the code says, and the code does not do.              *)

(* "The request names a session this server no longer knows ... Answer 404" *)
(* (3972-3978): no request listener throws instead of answering.           *)
EveryListenerAnswers == Up

(* What it does: a listener throws only for an owner, accepted for a session *)
(* that closed while the body of the request was read.                      *)
ThrowsAreForTheClosed ==
  \A r \in Requests :
    pc[r] = "threw" =>
      /\ verdict[r] = "accepted"
      /\ sid[r] \in published \ transports

=============================================================================
