------------------------- MODULE OpenSession_proofs -------------------------
(***************************************************************************)
(* IInv is an invariant of OpenSession for every value of its constants,    *)
(* and so are the safety properties it contains; the server implements      *)
(* SessionAuthority.                                                       *)
(***************************************************************************)
EXTENDS OpenSession, TLAPS

(* What the operations on a session's metadata return.                     *)
LEMMA BlankMeta == Blank \in Meta
  BY DEF Blank, Meta, Modes

LEMMA MarksAreMeta ==
  ASSUME NEW m \in Meta
  PROVE  /\ MarkVaultBound(m, "none") \in Meta
         /\ ClearVaultBound(m) \in Meta
         /\ PinResource(m) \in Meta
         /\ MarkAccountBound(m) \in Meta
         /\ MarkVaultBound(m, "oauth") \in Meta
  BY DEF MarkVaultBound, ClearVaultBound, PinResource, MarkAccountBound, Meta, Modes

LEMMA MarksKeepOwner ==
  ASSUME NEW m \in Meta, NEW c, PinnedTo(m, c)
  PROVE  /\ PinnedTo(MarkVaultBound(m, "none"), c)
         /\ PinnedTo(ClearVaultBound(m), c)
         /\ PinnedTo(PinResource(m), c)
         /\ c \in OAuthIds => PinnedTo(MarkVaultBound(m, "oauth"), c)
         /\ c \in LinkRefs => PinnedTo(MarkAccountBound(m), c)
  BY RailsAreDisjoint
  DEF MarkVaultBound, ClearVaultBound, PinResource, MarkAccountBound, Meta, PinnedTo

(* A Bearer that may pin a session that has an owner is its owner.         *)
LEMMA PinAgrees ==
  ASSUME NEW m \in Meta, NEW u \in OAuthIds, NEW c, PinnedTo(m, c),
         m.mode \in {"none", "oauth"}, OAuthStatus(m, u) # "mismatch"
  PROVE  c = u /\ PinOAuthIdentity(m, u) = m
  <1>1. /\ c \in OAuthIds
        /\ m.mode = "oauth"
        /\ m.oauth = c
    BY DEF PinnedTo
  <1>2. c # None
    BY <1>1, NoneIsNobody DEF Credentials
  <1>3. c = u
    BY <1>1, <1>2 DEF OAuthStatus
  <1>4. [m EXCEPT !.oauth = m.oauth, !.mode = m.mode] = m
    BY DEF Meta
  <1> QED
    BY <1>1, <1>3, <1>4 DEF PinOAuthIdentity

LEMMA OnePinned ==
  ASSUME NEW m \in Meta, NEW c, NEW d, PinnedTo(m, c), PinnedTo(m, d)
  PROVE  c = d
  BY NoneIsNobody DEF PinnedTo, Credentials

LEMMA OwnerIsPinned ==
  ASSUME NEW m \in Meta, NEW c, PinnedTo(m, c)
  PROVE  OwnerOf(m) = c
  BY NoneIsNobody DEF PinnedTo, Credentials, OwnerOf

LEMMA FreshOAuthPin ==
  ASSUME NEW u \in OAuthIds
  PROVE  /\ PinOAuthIdentity(PinResource(Blank), u) \in Meta
         /\ PinnedTo(PinOAuthIdentity(PinResource(Blank), u), u)
  BY DEF PinOAuthIdentity, PinResource, Blank, PinnedTo, Meta, Modes

LEMMA FreshLinkPin ==
  ASSUME NEW c \in LinkRefs, NEW h \in Handles
  PROVE  LET m == PinLinkIdentity(MarkVaultBound(PinResource(Blank), "link_token"), c, h)
         IN  m \in Meta /\ PinnedTo(m, c)
  BY DEF PinLinkIdentity, MarkVaultBound, PinResource, Blank, PinnedTo, Meta, Modes

-----------------------------------------------------------------------------
(* What a step may do to the sessions, whoever takes it.                   *)
Grows == published \subseteq published' /\ used \subseteq used'

NoneReopens == transports' \cap published \subseteq transports

OwnersStay ==
  \A s \in transports' \cap transports : \A c :
    PinnedTo(meta[s], c) => PinnedTo(meta'[s], c)

SessionsInv ==
  /\ MapsNest
  /\ PublishedIsPinned
  /\ OrphansCarryNoIdentity
  /\ BindingsBelongToSessions

SessionsEvolve == Grows /\ NoneReopens /\ OwnersStay /\ SessionsInv'

SameSlot(q) ==
  /\ pc'[q] = pc[q]
  /\ sid'[q] = sid[q]
  /\ cred'[q] = cred[q]
  /\ account'[q] = account[q]
  /\ verdict'[q] = verdict[q]

(* The id q is initializing is left alone.                                 *)
InitStays(q) ==
  pc[q] \in Initializing =>
    /\ sid[q] \notin published'
    /\ sid[q] \in known => sid[q] \in known'
    /\ meta'[sid[q]] = meta[sid[q]]

LEMMA OtherRequests ==
  ASSUME IInv, SessionsEvolve, NEW q \in Requests, SameSlot(q), InitStays(q)
  PROVE  RequestInv(q)'
  <1>1. RequestInv(q)
    BY DEF IInv
  <1>2. sid[q] \in transports' /\ sid[q] \in published => sid[q] \in transports
    BY DEF SessionsEvolve, NoneReopens
  <1>3. pc[q] \in OnSession => sid[q] \in published
    BY <1>1 DEF RequestInv
  <1>4. sid[q] \in transports' /\ sid[q] \in transports /\ PinnedTo(meta[sid[q]], cred[q])
          => PinnedTo(meta'[sid[q]], cred[q])
    BY DEF SessionsEvolve, OwnersStay
  <1>5. pc[q] \in Using \cup {"linkBind", "linkProbe"} => pc[q] \in OnSession
    BY DEF OnSession
  <1>6. pc[q] \in {"initSeed", "connect"} => pc[q] \in Initializing
    BY DEF Initializing
  <1>7. published \subseteq published' /\ used \subseteq used'
    BY DEF SessionsEvolve, Grows
  <1> QED
    BY <1>1, <1>2, <1>3, <1>4, <1>5, <1>6, <1>7
    DEF RequestInv, SameSlot, InitStays, PinnedTo

(* A step of request r, or of no request when r is not one.                *)
LEMMA Step ==
  ASSUME IInv, TypeOK', SessionsEvolve, NEW r,
         \A q \in Requests \ {r} : SameSlot(q) /\ InitStays(q),
         r \in Requests => RequestInv(r)',
         r \in Requests /\ pc'[r] \in Initializing =>
           \A q \in Requests \ {r} : pc[q] \in Initializing => sid[q] # sid'[r]
  PROVE  IInv' /\ SessionsEvolve
  <1>1. \A q \in Requests : RequestInv(q)'
    BY OtherRequests
  <1>2. InitIdsDiffer'
    BY DEF InitIdsDiffer, IInv, SameSlot
  <1> QED
    BY <1>1, <1>2 DEF IInv, SessionsEvolve, SessionsInv

LEMMA NothingMoves ==
  ASSUME IInv, UNCHANGED <<maps, ids>>
  PROVE  SessionsEvolve /\ \A q : InitStays(q) \/ q \notin Requests
  <1>1. SessionsInv'
    BY DEF IInv, SessionsInv, MapsNest, PublishedIsPinned, OrphansCarryNoIdentity,
           BindingsBelongToSessions, maps, ids, PinnedTo, NamesNobody
  <1>2. Grows /\ NoneReopens /\ OwnersStay
    BY DEF Grows, NoneReopens, OwnersStay, maps, ids, PinnedTo
  <1>3. ASSUME NEW q \in Requests
        PROVE  InitStays(q)
    BY DEF IInv, RequestInv, InitStays, maps, ids
  <1> QED
    BY <1>1, <1>2, <1>3 DEF SessionsEvolve

(* sessionMeta.set on an id clients know: an owner stays, and what is left  *)
(* of a closed session still names nobody.                                 *)
LEMMA PutEvolves ==
  ASSUME IInv, NEW s \in published, NEW m \in Meta, PutMeta(s, m), UNCHANGED <<transports, ids>>,
         s \in transports => \A c : PinnedTo(meta[s], c) => PinnedTo(m, c),
         s \notin transports => NamesNobody(m),
         meta[s].accountBound => m.accountBound,
         \/ userBindings' \subseteq userBindings
         \/ /\ userBindings' = userBindings \cup {s}
            /\ s \in transports
            /\ m.accountBound
  PROVE  SessionsEvolve /\ \A q \in Requests : InitStays(q)
  <1> USE DEF PutMeta
  <1>1. s \in Sids
    BY DEF IInv, TypeOK
  <1>2. \A t \in Sids : meta'[t] = IF t = s THEN m ELSE meta[t]
    BY <1>1 DEF IInv, TypeOK
  <1>3. published' = published /\ used' = used /\ transports' = transports
    BY DEF ids
  <1>4. MapsNest'
    BY <1>1, <1>2, <1>3 DEF IInv, MapsNest, TypeOK
  <1>5. PublishedIsPinned'
    <2> SUFFICES ASSUME NEW t \in transports
                 PROVE  t \in known' /\ \E c \in Credentials : PinnedTo(meta'[t], c)
      BY <1>3 DEF PublishedIsPinned, PinnedTo
    <2>1. PICK c \in Credentials : PinnedTo(meta[t], c)
      BY DEF IInv, PublishedIsPinned
    <2>2. PinnedTo(meta'[t], c)
      BY <2>1, <1>2 DEF IInv, TypeOK
    <2> QED
      BY <2>2 DEF IInv, PublishedIsPinned
  <1>6. OrphansCarryNoIdentity'
    BY <1>1, <1>2, <1>3 DEF IInv, OrphansCarryNoIdentity, TypeOK, NamesNobody
  <1>7. BindingsBelongToSessions'
    BY <1>1, <1>2, <1>3 DEF IInv, BindingsBelongToSessions, TypeOK
  <1>8. OwnersStay
    BY <1>2, <1>3 DEF OwnersStay, IInv, TypeOK
  <1>9. ASSUME NEW q \in Requests
        PROVE  InitStays(q)
    <2>1. pc[q] \in Initializing => sid[q] \in Sids \ published
      BY DEF IInv, RequestInv, TypeOK
    <2> QED
      BY <2>1, <1>2, <1>3 DEF InitStays
  <1> QED
    BY <1>3, <1>4, <1>5, <1>6, <1>7, <1>8, <1>9
    DEF SessionsEvolve, SessionsInv, Grows, NoneReopens

(* The end of a session, or of an attempt to open one.                     *)
LEMMA DropEvolves ==
  ASSUME IInv, NEW s \in Sids, DropSession(s), UNCHANGED ids
  PROVE  /\ SessionsEvolve
         /\ \A q \in Requests : (pc[q] \in Initializing => sid[q] # s) => InitStays(q)
  <1> USE DEF DropSession
  <1>1. \A t \in Sids : meta'[t] = IF t = s THEN Blank ELSE meta[t]
    BY DEF IInv, TypeOK
  <1>2. published' = published /\ used' = used /\ transports' = transports \ {s}
    BY DEF ids
  <1>3. MapsNest'
    BY <1>1, <1>2 DEF IInv, MapsNest, TypeOK
  <1>4. PublishedIsPinned'
    <2> SUFFICES ASSUME NEW t \in transports, t # s
                 PROVE  t \in known' /\ \E c \in Credentials : PinnedTo(meta'[t], c)
      BY <1>2 DEF PublishedIsPinned, PinnedTo
    <2> QED
      BY <1>1 DEF IInv, PublishedIsPinned, TypeOK
  <1>5. OrphansCarryNoIdentity'
    BY <1>1, <1>2 DEF IInv, OrphansCarryNoIdentity, TypeOK, NamesNobody
  <1>6. BindingsBelongToSessions'
    BY <1>1, <1>2 DEF IInv, BindingsBelongToSessions, TypeOK
  <1>7. OwnersStay
    BY <1>1, <1>2 DEF OwnersStay, IInv, TypeOK
  <1>8. ASSUME NEW q \in Requests, pc[q] \in Initializing => sid[q] # s
        PROVE  InitStays(q)
    <2>1. pc[q] \in Initializing => sid[q] \in Sids \ published
      BY DEF IInv, RequestInv, TypeOK
    <2> QED
      BY <2>1, <1>1, <1>2, <1>8 DEF InitStays
  <1> QED
    BY <1>2, <1>3, <1>4, <1>5, <1>6, <1>7, <1>8
    DEF SessionsEvolve, SessionsInv, Grows, NoneReopens

-----------------------------------------------------------------------------
(* Steps that leave the sessions alone.                                    *)
LEMMA AnswerKeeps ==
  ASSUME IInv, NEW r \in Requests, NEW what \in Replies, Answer(r, what),
         UNCHANGED <<maps, ids>>,
         \/ UNCHANGED verdict
         \/ \E v \in {"none", "accepted", "rejected", "unavailable"} : Verdict(r, v)
  PROVE  IInv' /\ SessionsEvolve
  <1> USE DEF Answer
  <1>1. TypeOK'
    BY DEF IInv, TypeOK, maps, ids, Verdict, Pcs
  <1>2. \A q \in Requests \ {r} : SameSlot(q)
    BY DEF IInv, TypeOK, SameSlot, Verdict
  <1>3. pc'[r] = "idle" /\ account'[r] = FALSE
    BY DEF IInv, TypeOK
  <1>4. RequestInv(r)' /\ pc'[r] \notin Initializing
    BY <1>3 DEF RequestInv, OnSession, Using, Initializing
  <1> QED
    BY <1>1, <1>2, <1>4, NothingMoves, Step

LEMMA AdmitKeeps ==
  ASSUME IInv, NEW r \in Requests, NEW m \in {"POST", "GET", "DELETE", "INIT"},
         NEW s \in Sids \cup {None}, NEW c \in Credentials, NEW a \in BOOLEAN,
         NEW where, Admit(r, m, s, c, a, where), UNCHANGED <<maps, ids>>,
         a => c \in LinkRefs,
         \/ where = "initBody"
         \/ where = "seed" /\ s \in published
         \/ /\ where = "linkBind"
            /\ s \in published
            /\ s \in transports => PinnedTo(meta[s], c)
         \/ where = "linkProbe" /\ s \in published \ transports
  PROVE  IInv' /\ SessionsEvolve
  <1> USE DEF Admit
  <1>1. TypeOK'
    BY DEF IInv, TypeOK, maps, ids, Pcs, Replies
  <1>2. \A q \in Requests \ {r} : SameSlot(q)
    BY DEF IInv, TypeOK, SameSlot
  <1>3. pc'[r] = where /\ sid'[r] = s /\ cred'[r] = c /\ account'[r] = a
    BY DEF IInv, TypeOK
  <1>4. RequestInv(r)' /\ pc'[r] \notin Initializing
    BY <1>3 DEF RequestInv, OnSession, Using, Initializing, maps, ids, PinnedTo
  <1> QED
    BY <1>1, <1>2, <1>4, NothingMoves, Step

LEMMA MoveKeeps ==
  ASSUME IInv, NEW r \in Requests, NEW where \in {"sdk", "threw"}, GoTo(r, where),
         pc[r] = "body", UNCHANGED <<maps, ids, verdict>>
  PROVE  IInv' /\ SessionsEvolve
  <1> USE DEF GoTo, request
  <1>1. TypeOK'
    BY DEF IInv, TypeOK, maps, ids, Pcs
  <1>2. \A q \in Requests \ {r} : SameSlot(q)
    BY DEF IInv, TypeOK, SameSlot
  <1>3. pc'[r] = where
    BY DEF IInv, TypeOK
  <1>4. RequestInv(r)' /\ pc'[r] \notin Initializing
    BY <1>3 DEF IInv, RequestInv, OnSession, Using, Initializing, maps, ids, PinnedTo
  <1> QED
    BY <1>1, <1>2, <1>4, NothingMoves, Step

-----------------------------------------------------------------------------
(* Arrivals.                                                               *)
LEMMA TurnKeeps ==
  ASSUME IInv, NEW r \in Requests, NEW what \in Replies, Turn(r, what)
  PROVE  IInv' /\ SessionsEvolve
  BY AnswerKeeps DEF Turn

LEMMA ArriveOAuthKeeps ==
  ASSUME IInv, NEW r \in Requests, NEW m \in {"POST", "GET", "DELETE"},
         NEW s \in published, NEW u \in OAuthIds, ArriveOAuth(r, m, s, u)
  PROVE  IInv' /\ SessionsEvolve
  <1>1. CASE /\ s \in transports
             /\ MayPin(s, u)
             /\ PutMeta(s, PinOAuthIdentity(meta[s], u))
             /\ Admit(r, m, s, u, FALSE, "seed")
             /\ UNCHANGED <<transports, idle, userBindings, ids>>
    <2>1. s \in Sids /\ s \in known /\ meta[s] \in Meta /\ meta \in [Sids -> Meta]
      BY <1>1 DEF IInv, TypeOK, PublishedIsPinned, MapsNest
    <2>2. PICK c \in Credentials : PinnedTo(meta[s], c)
      BY <1>1 DEF IInv, PublishedIsPinned
    <2>3. PinOAuthIdentity(meta[s], u) = meta[s]
      BY <1>1, <2>1, <2>2, PinAgrees DEF MayPin
    <2>4. UNCHANGED <<maps, ids>>
      BY <1>1, <2>1, <2>3 DEF PutMeta, maps
    <2> QED
      BY <1>1, <2>1, <2>4, AdmitKeeps DEF Credentials
  <1>2. CASE \E what \in Replies : Turn(r, what)
    BY <1>2, TurnKeeps
  <1> QED
    BY <1>1, <1>2 DEF ArriveOAuth, Replies

LEMMA ArriveLinkKeeps ==
  ASSUME IInv, NEW r \in Requests, NEW m \in {"POST", "GET", "DELETE"},
         NEW s \in published, NEW c \in LinkRefs, NEW a \in BOOLEAN,
         ArriveLink(r, m, s, c, a)
  PROVE  IInv' /\ SessionsEvolve
  <1>1. s \in Sids /\ c \in Credentials
    BY DEF IInv, TypeOK, Credentials
  <1>2. CASE /\ meta[s].linkRef = c
             /\ Admit(r, m, s, c, a, "linkBind")
             /\ UNCHANGED <<maps, ids>>
    <2>1. ASSUME s \in transports
          PROVE  PinnedTo(meta[s], c)
      <3>1. PICK d \in Credentials : PinnedTo(meta[s], d)
        BY <2>1 DEF IInv, PublishedIsPinned
      <3>2. c # None
        BY <1>1, NoneIsNobody
      <3>3. d = c
        BY <1>2, <3>1, <3>2 DEF PinnedTo
      <3> QED
        BY <3>1, <3>3
    <2> QED
      BY <1>1, <1>2, <2>1, AdmitKeeps
  <1>3. CASE /\ s \notin known
             /\ Admit(r, m, s, c, a, "linkProbe")
             /\ UNCHANGED <<maps, ids>>
    <2>1. s \notin transports
      BY <1>3 DEF IInv, PublishedIsPinned
    <2> QED
      BY <1>1, <1>3, <2>1, AdmitKeeps
  <1>4. CASE \E what \in Replies : Turn(r, what)
    BY <1>4, TurnKeeps
  <1> QED
    BY <1>2, <1>3, <1>4 DEF ArriveLink, Replies

LEMMA ArrivalKeeps ==
  ASSUME IInv, NEW r \in Requests, Arrival(r)
  PROVE  IInv' /\ SessionsEvolve
  <1>1. CASE ArriveUnverified(r)
    BY <1>1, TurnKeeps DEF ArriveUnverified, Replies
  <1>2. CASE \E m \in {"GET", "DELETE"}, c \in Credentials : ArriveSessionless(r, m, c)
    BY <1>2, TurnKeeps DEF ArriveSessionless, Replies
  <1>3. CASE \/ \E u \in OAuthIds : ArriveInit(r, u, FALSE)
             \/ \E c \in LinkRefs, a \in BOOLEAN : ArriveInit(r, c, a)
    BY <1>3, AdmitKeeps DEF ArriveInit, Credentials
  <1>4. ASSUME NEW s \in published, NEW m \in {"POST", "GET", "DELETE"},
               \/ \E u \in OAuthIds : ArriveOAuth(r, m, s, u)
               \/ \E c \in LinkRefs, a \in {m = "POST", FALSE} : ArriveLink(r, m, s, c, a)
        PROVE  IInv' /\ SessionsEvolve
    <2>1. CASE \E u \in OAuthIds : ArriveOAuth(r, m, s, u)
      BY <2>1, ArriveOAuthKeeps
    <2>2. CASE \E c \in LinkRefs, a \in {m = "POST", FALSE} : ArriveLink(r, m, s, c, a)
      <3>1. {m = "POST", FALSE} \subseteq BOOLEAN
        OBVIOUS
      <3> QED
        BY <2>2, <3>1, ArriveLinkKeeps
    <2> QED
      BY <1>4, <2>1, <2>2
  <1> QED
    BY <1>1, <1>2, <1>3, <1>4 DEF Arrival

-----------------------------------------------------------------------------
(* The answers a request on a session waits for.                           *)
LEMMA DenyKeeps ==
  ASSUME IInv, NEW r \in Requests, NEW v \in {"accepted", "rejected", "unavailable"},
         NEW what \in Replies, Verdict(r, v), Deny(r, what)
  PROVE  IInv' /\ SessionsEvolve
  BY AnswerKeeps DEF Deny

LEMMA RouteKeeps ==
  ASSUME IInv, NEW r \in Requests, NEW m, Route(r, m), Verdict(r, "accepted"),
         pc[r] \in {"seed", "linkBind", "linkProbe"},
         m \in Meta,
         sid[r] \notin transports => m = meta[sid[r]],
         sid[r] \in transports =>
           PinnedTo(m, cred[r]) /\ \A c : PinnedTo(meta[sid[r]], c) => PinnedTo(m, c),
         meta[sid[r]].accountBound => m.accountBound
  PROVE  IInv' /\ SessionsEvolve
  <1> DEFINE s == sid[r]
             n == IF method[r] = "POST" /\ account[r] THEN MarkAccountBound(m) ELSE m
  <1>1. s \in published /\ s \in Sids
    BY DEF IInv, RequestInv, OnSession, MapsNest, TypeOK
  <1>2. CASE s \notin transports
    <2>1. Answer(r, "notFound") /\ UNCHANGED <<maps, ids>>
      BY <1>2 DEF Route, maps
    <2> QED
      BY <2>1, AnswerKeeps DEF Replies
  <1>3. CASE s \in transports
    <2>1. PutMeta(s, n)
      BY <1>3 DEF Route
    <2>2. PICK where \in {"sdk", "body", "closing"} : GoTo(r, where)
      BY <1>3 DEF Route
    <2>3. n \in Meta
      BY MarksAreMeta
    <2>4. account[r] => cred[r] \in LinkRefs
      BY DEF IInv, RequestInv
    <2>5. PinnedTo(n, cred[r])
      BY <1>3, <2>4, MarksKeepOwner
    <2>6. ASSUME NEW c, PinnedTo(meta[s], c)
          PROVE  PinnedTo(n, c)
      <3>1. PinnedTo(m, c)
        BY <1>3, <2>6
      <3>2. c = cred[r]
        BY <1>3, <3>1, OnePinned
      <3> QED
        BY <2>5, <3>2
    <2>7. /\ meta[s].accountBound => n.accountBound
          /\ method[r] = "POST" /\ account[r] => n.accountBound
      BY DEF MarkAccountBound, Meta
    <2>8. UNCHANGED <<transports, ids>>
      BY DEF Route
    <2>9. \/ userBindings' \subseteq userBindings
          \/ /\ userBindings' = userBindings \cup {s}
             /\ s \in transports
             /\ n.accountBound
      BY <1>3, <2>7 DEF Route
    <2>10. SessionsEvolve /\ \A q \in Requests : InitStays(q)
      BY <1>1, <1>3, <2>1, <2>3, <2>6, <2>7, <2>8, <2>9, PutEvolves
    <2>11. idle' \in [Sids -> {"recent", "short", "long"}]
      BY <1>3 DEF Route, Touch, IInv, TypeOK
    <2>12. TypeOK'
      BY <1>1, <2>1, <2>2, <2>3, <2>8, <2>9, <2>11
      DEF IInv, TypeOK, PutMeta, GoTo, request, ids, Verdict, Pcs
    <2>13. \A q \in Requests \ {r} : SameSlot(q)
      BY <2>2 DEF IInv, TypeOK, SameSlot, GoTo, request, Verdict
    <2>14. pc'[r] = where /\ sid'[r] = s /\ cred'[r] = cred[r] /\ account'[r] = account[r]
           /\ verdict'[r] = "accepted" /\ meta'[s] = n
      BY <1>1, <2>1, <2>2 DEF IInv, TypeOK, GoTo, request, Verdict, PutMeta
    <2>15. RequestInv(r)' /\ pc'[r] \notin Initializing
      BY <1>1, <2>5, <2>8, <2>14 DEF IInv, RequestInv, OnSession, Using, Initializing, ids, PinnedTo
    <2> QED
      BY <2>10, <2>12, <2>13, <2>15, Step
  <1> QED
    BY <1>2, <1>3

LEMMA SeedAnswerKeeps ==
  ASSUME IInv, NEW r \in Requests, SeedAnswer(r)
  PROVE  IInv' /\ SessionsEvolve
  <1>1. CASE /\ Verdict(r, "accepted")
             /\ StillPinned(sid[r], cred[r])
             /\ Route(r, MarkVaultBound(meta[sid[r]], "oauth"))
    <2> DEFINE s == sid[r]
               m == MarkVaultBound(meta[s], "oauth")
    <2>1. pc[r] = "seed" /\ s \in published /\ s \in Sids /\ meta[s] \in Meta
      BY DEF SeedAnswer, IInv, RequestInv, OnSession, MapsNest, TypeOK
    <2>2. meta[s].oauth = cred[r] /\ cred[r] # None
      BY <1>1 DEF StillPinned, OAuthStatus
    <2>3. s \in transports
      <3>1. s \notin known => meta[s].oauth = None
        BY <2>1 DEF IInv, MapsNest, Blank
      <3>2. s \in known \ transports => meta[s].oauth = None
        BY <2>1 DEF IInv, OrphansCarryNoIdentity, NamesNobody
      <3> QED
        BY <2>2, <3>1, <3>2
    <2>4. PICK c \in Credentials : PinnedTo(meta[s], c)
      BY <2>3 DEF IInv, PublishedIsPinned
    <2>5. c = cred[r] /\ c \in OAuthIds
      BY <2>2, <2>4 DEF PinnedTo
    <2>6. m \in Meta /\ PinnedTo(m, cred[r])
      BY <2>1, <2>4, <2>5, MarksAreMeta, MarksKeepOwner
    <2>7. ASSUME NEW d, PinnedTo(meta[s], d)
          PROVE  PinnedTo(m, d)
      <3>1. d = c
        BY <2>1, <2>4, <2>7, OnePinned
      <3> QED
        BY <2>5, <2>6, <3>1
    <2>8. meta[s].accountBound => m.accountBound
      BY <2>1 DEF MarkVaultBound, Meta
    <2> QED
      BY <1>1, <2>1, <2>3, <2>6, <2>7, <2>8, RouteKeeps
  <1>2. CASE \E v \in {"accepted", "rejected", "unavailable"}, what \in Replies :
               Verdict(r, v) /\ Deny(r, what)
    BY <1>2, DenyKeeps
  <1> QED
    BY <1>1, <1>2 DEF SeedAnswer, Replies

LEMMA LinkRouteKeeps ==
  ASSUME IInv, NEW r \in Requests, LinkRoute(r), Verdict(r, "accepted"),
         pc[r] \in {"linkBind", "linkProbe"}
  PROVE  IInv' /\ SessionsEvolve
  <1>1. CASE Route(r, meta[sid[r]])
    <2>1. sid[r] \in Sids /\ meta[sid[r]] \in Meta
      BY DEF IInv, RequestInv, OnSession, MapsNest, TypeOK
    <2>2. sid[r] \in transports => PinnedTo(meta[sid[r]], cred[r])
      BY DEF IInv, RequestInv
    <2> QED
      BY <1>1, <2>1, <2>2, RouteKeeps
  <1>2. CASE \E what \in Replies : Deny(r, what)
    BY <1>2, DenyKeeps
  <1> QED
    BY <1>1, <1>2 DEF LinkRoute, Replies

LEMMA LinkAnswersKeep ==
  ASSUME IInv, NEW r \in Requests, LinkBindAnswer(r) \/ LinkProbeAnswer(r)
  PROVE  IInv' /\ SessionsEvolve
  <1>1. CASE LinkRoute(r) /\ Verdict(r, "accepted")
    BY <1>1, LinkRouteKeeps DEF LinkBindAnswer, LinkProbeAnswer
  <1>2. CASE \E v \in {"accepted", "rejected", "unavailable"}, what \in Replies :
               Verdict(r, v) /\ Deny(r, what)
    BY <1>2, DenyKeeps
  <1> QED
    BY <1>1, <1>2 DEF LinkBindAnswer, LinkProbeAnswer, Replies

LEMMA BodyArrivesKeeps ==
  ASSUME IInv, NEW r \in Requests, BodyArrives(r)
  PROVE  IInv' /\ SessionsEvolve
  BY AnswerKeeps, MoveKeeps DEF BodyArrives, Replies

LEMMA SdkDoneKeeps ==
  ASSUME IInv, NEW r \in Requests, SdkDone(r) \/ InitRefused(r)
  PROVE  IInv' /\ SessionsEvolve
  BY AnswerKeeps DEF SdkDone, InitRefused, Replies

(* What a lookup leaves behind for a session that has gone names nobody.    *)
LEMMA LookupNamesNobody ==
  ASSUME NEW m \in Meta, NamesNobody(m)
  PROVE  NamesNobody(MarkVaultBound(m, "none")) /\ NamesNobody(ClearVaultBound(m))
  BY DEF NamesNobody, MarkVaultBound, ClearVaultBound, Meta

LEMMA ToolLookupKeeps ==
  ASSUME IInv, NEW r \in Requests, ToolLookup(r)
  PROVE  IInv' /\ SessionsEvolve
  <1> DEFINE s == sid[r]
  <1>1. s \in published /\ s \in Sids /\ meta[s] \in Meta
    BY DEF ToolLookup, IInv, RequestInv, OnSession, Using, MapsNest, TypeOK
  <1>2. PICK m \in {MarkVaultBound(meta[s], "none"), ClearVaultBound(meta[s])} : PutMeta(s, m)
    BY DEF ToolLookup
  <1>3. /\ m \in Meta
        /\ meta[s].accountBound => m.accountBound
        /\ \A c : PinnedTo(meta[s], c) => PinnedTo(m, c)
    <2>1. meta[s].accountBound => m.accountBound
      BY <1>1, <1>2 DEF MarkVaultBound, ClearVaultBound, Meta
    <2> QED
      BY <1>1, <1>2, <2>1, MarksAreMeta, MarksKeepOwner
  <1>4. s \notin transports => NamesNobody(m)
    <2>1. s \notin transports => NamesNobody(meta[s])
      BY <1>1 DEF IInv, OrphansCarryNoIdentity, MapsNest, Blank, NamesNobody
    <2> QED
      BY <1>1, <1>2, <2>1, LookupNamesNobody
  <1>5. UNCHANGED <<transports, ids, userBindings, idle, pc, request, verdict, reply>>
    BY DEF ToolLookup
  <1>6. SessionsEvolve /\ \A q \in Requests : InitStays(q)
    BY <1>1, <1>2, <1>3, <1>4, <1>5, PutEvolves
  <1>7. TypeOK'
    BY <1>1, <1>2, <1>3, <1>5 DEF IInv, TypeOK, PutMeta, request, ids
  <1>8. \A q \in Requests : SameSlot(q)
    BY <1>5 DEF SameSlot, request
  <1>9. RequestInv(r)' /\ (pc'[r] \in Initializing => pc[r] \in Initializing)
    BY <1>6, <1>8, OtherRequests DEF SameSlot
  <1>10. pc'[r] \notin Initializing
    BY <1>5 DEF ToolLookup, Initializing
  <1> QED
    BY <1>6, <1>7, <1>8, <1>9, <1>10, Step

-----------------------------------------------------------------------------
(* Ways a session, or an attempt to open one, ends.                        *)
LEMMA DropTypes ==
  ASSUME TypeOK, NEW s \in Sids, DropSession(s)
  PROVE  /\ transports' \subseteq Sids
         /\ known' \subseteq Sids
         /\ meta' \in [Sids -> Meta]
         /\ idle' \in [Sids -> {"recent", "short", "long"}]
         /\ userBindings' \subseteq Sids
  BY BlankMeta DEF TypeOK, DropSession

LEMMA CloseKeeps ==
  ASSUME IInv, NEW s \in published, DropSession(s),
         UNCHANGED <<ids, pc, request, verdict, reply>>
  PROVE  IInv' /\ SessionsEvolve
  <1>1. s \in Sids
    BY DEF IInv, TypeOK
  <1>2. \A q \in Requests : pc[q] \in Initializing => sid[q] # s
    BY DEF IInv, RequestInv
  <1>3. SessionsEvolve /\ \A q \in Requests : InitStays(q)
    BY <1>1, <1>2, DropEvolves
  <1>4. TypeOK'
    BY <1>1, DropTypes DEF IInv, TypeOK, ids, request
  <1>5. \A q \in Requests : SameSlot(q)
    BY DEF SameSlot, request
  <1>6. \A q \in Requests : RequestInv(q)'
    BY <1>3, <1>5, OtherRequests
  <1>7. InitIdsDiffer'
    BY DEF IInv, InitIdsDiffer, request
  <1> QED
    BY <1>3, <1>4, <1>6, <1>7 DEF IInv, SessionsEvolve, SessionsInv

LEMMA CloseAnswerKeeps ==
  ASSUME IInv, NEW r \in Requests, sid[r] \in Sids, DropSession(sid[r]), UNCHANGED ids,
         pc[r] \in Initializing \/ sid[r] \in published,
         NEW what \in Replies, Answer(r, what),
         \/ UNCHANGED verdict
         \/ \E v \in {"rejected", "unavailable"} : Verdict(r, v)
  PROVE  IInv' /\ SessionsEvolve
  <1> USE DEF Answer
  <1>1. ASSUME NEW q \in Requests \ {r}
        PROVE  pc[q] \in Initializing => sid[q] # sid[r]
    BY DEF IInv, RequestInv, InitIdsDiffer
  <1>2. SessionsEvolve /\ \A q \in Requests \ {r} : InitStays(q)
    BY <1>1, DropEvolves
  <1>3. TypeOK'
    BY DropTypes DEF IInv, TypeOK, ids, Verdict, Pcs
  <1>4. \A q \in Requests \ {r} : SameSlot(q)
    BY DEF IInv, TypeOK, SameSlot, Verdict
  <1>5. pc'[r] = "idle" /\ account'[r] = FALSE
    BY DEF IInv, TypeOK
  <1>6. RequestInv(r)' /\ pc'[r] \notin Initializing
    BY <1>5 DEF RequestInv, OnSession, Using, Initializing
  <1> QED
    BY <1>2, <1>3, <1>4, <1>6, Step

LEMMA ClosingKeeps ==
  ASSUME IInv, NEW r \in Requests, TransportCloses(r) \/ DeleteDone(r)
  PROVE  IInv' /\ SessionsEvolve
  <1>1. sid[r] \in published /\ sid[r] \in Sids
    BY DEF TransportCloses, DeleteDone, IInv, RequestInv, OnSession, Using, TypeOK
  <1> QED
    BY <1>1, CloseKeeps, CloseAnswerKeeps DEF TransportCloses, DeleteDone, Replies

LEMMA ClearProvisionalKeeps ==
  ASSUME IInv, NEW r \in Requests, NEW what \in Replies, ClearProvisional(r, what),
         pc[r] \in Initializing \cup {"sdk"},
         \/ UNCHANGED verdict
         \/ \E v \in {"rejected", "unavailable"} : Verdict(r, v)
  PROVE  IInv' /\ SessionsEvolve
  <1>1. /\ sid[r] \in Sids
        /\ pc[r] \in Initializing \/ sid[r] \in published
    BY DEF IInv, RequestInv, OnSession, Using, TypeOK
  <1> QED
    BY <1>1, CloseAnswerKeeps DEF ClearProvisional

-----------------------------------------------------------------------------
(* Initialization.  Metadata of an id nobody knows disturbs no session.    *)
LEMMA ProvisionalEvolves ==
  ASSUME IInv, NEW s \in Sids \ published, NEW m \in Meta, PutMeta(s, m),
         UNCHANGED <<transports, userBindings, published>>, used \subseteq used'
  PROVE  /\ SessionsEvolve
         /\ \A q \in Requests : (pc[q] \in Initializing => sid[q] # s) => InitStays(q)
  <1> USE DEF PutMeta
  <1>1. \A t \in Sids : meta'[t] = IF t = s THEN m ELSE meta[t]
    BY DEF IInv, TypeOK
  <1>2. s \notin transports
    BY DEF IInv, MapsNest
  <1>3. MapsNest'
    BY <1>1 DEF IInv, MapsNest, TypeOK
  <1>4. PublishedIsPinned'
    <2> SUFFICES ASSUME NEW t \in transports
                 PROVE  t \in known' /\ \E c \in Credentials : PinnedTo(meta'[t], c)
      BY DEF PublishedIsPinned, PinnedTo
    <2> QED
      BY <1>1, <1>2 DEF IInv, PublishedIsPinned, TypeOK
  <1>5. OrphansCarryNoIdentity'
    BY <1>1 DEF IInv, OrphansCarryNoIdentity, TypeOK, NamesNobody
  <1>6. BindingsBelongToSessions'
    BY <1>1, <1>2 DEF IInv, BindingsBelongToSessions, TypeOK
  <1>7. OwnersStay
    BY <1>1, <1>2 DEF OwnersStay, IInv, TypeOK
  <1>8. ASSUME NEW q \in Requests, pc[q] \in Initializing => sid[q] # s
        PROVE  InitStays(q)
    <2>1. pc[q] \in Initializing => sid[q] \in Sids \ published
      BY DEF IInv, RequestInv, TypeOK
    <2> QED
      BY <2>1, <1>1, <1>8 DEF InitStays
  <1> QED
    BY <1>3, <1>4, <1>5, <1>6, <1>7, <1>8
    DEF SessionsEvolve, SessionsInv, Grows, NoneReopens

LEMMA InitBodyKeeps ==
  ASSUME IInv, NEW r \in Requests, NEW s \in Sids, InitBody(r, s)
  PROVE  IInv' /\ SessionsEvolve
  <1>1. CASE Deny(r, "badRequest") /\ UNCHANGED verdict
    BY <1>1, AnswerKeeps DEF Deny, Replies
  <1>2. CASE /\ s \notin used
             /\ used' = used \cup {s}
             /\ sid' = [sid EXCEPT ![r] = s]
             /\ UNCHANGED <<transports, idle, userBindings, published,
                            method, cred, account, reply, verdict>>
             /\ \/ /\ cred[r] \in OAuthIds
                   /\ PutMeta(s, PinOAuthIdentity(PinResource(Blank), cred[r]))
                   /\ pc' = [pc EXCEPT ![r] = "initSeed"]
                \/ /\ cred[r] \in LinkRefs
                   /\ UNCHANGED <<known, meta>>
                   /\ pc' = [pc EXCEPT ![r] = "initLink"]
    <2>1. s \notin published
      BY <1>2 DEF IInv, MapsNest
    <2>2. \A q \in Requests : pc[q] \in Initializing => sid[q] # s
      BY <1>2 DEF IInv, RequestInv
    <2>3. \A q \in Requests \ {r} : SameSlot(q)
      BY <1>2 DEF IInv, TypeOK, SameSlot
    <2>4. sid'[r] = s /\ cred'[r] = cred[r] /\ account'[r] = account[r]
      BY <1>2 DEF IInv, TypeOK
    <2>5. cred[r] \in Credentials /\ (account[r] => cred[r] \in LinkRefs)
      BY <1>2 DEF IInv, RequestInv, Credentials
    <2>6. CASE /\ cred[r] \in OAuthIds
               /\ PutMeta(s, PinOAuthIdentity(PinResource(Blank), cred[r]))
               /\ pc' = [pc EXCEPT ![r] = "initSeed"]
      <3> DEFINE m == PinOAuthIdentity(PinResource(Blank), cred[r])
      <3>1. m \in Meta /\ PinnedTo(m, cred[r])
        BY <2>6, FreshOAuthPin
      <3>2. SessionsEvolve /\ \A q \in Requests : InitStays(q)
        BY <1>2, <2>1, <2>2, <2>6, <3>1, ProvisionalEvolves
      <3>3. TypeOK'
        BY <1>2, <2>6, <3>1 DEF IInv, TypeOK, PutMeta, Pcs
      <3>4. pc'[r] = "initSeed" /\ meta'[s] = m /\ s \in known'
        BY <2>6 DEF IInv, TypeOK, PutMeta
      <3>5. RequestInv(r)'
        BY <1>2, <2>1, <2>4, <2>5, <2>6, <3>1, <3>4
        DEF RequestInv, OnSession, Using, Initializing, PinnedTo
      <3> QED
        BY <2>2, <2>3, <2>4, <3>2, <3>3, <3>5, Step
    <2>7. CASE /\ cred[r] \in LinkRefs
               /\ UNCHANGED <<known, meta>>
               /\ pc' = [pc EXCEPT ![r] = "initLink"]
      <3>1. SessionsInv'
        BY <1>2, <2>7
        DEF IInv, SessionsInv, MapsNest, PublishedIsPinned, OrphansCarryNoIdentity,
            BindingsBelongToSessions, PinnedTo, NamesNobody
      <3>2. SessionsEvolve
        BY <1>2, <2>7, <3>1 DEF SessionsEvolve, Grows, NoneReopens, OwnersStay, PinnedTo
      <3>3. \A q \in Requests : InitStays(q)
        BY <1>2, <2>7 DEF IInv, RequestInv, InitStays
      <3>4. TypeOK'
        BY <1>2, <2>7 DEF IInv, TypeOK, Pcs
      <3>5. pc'[r] = "initLink"
        BY <2>7 DEF IInv, TypeOK
      <3>6. RequestInv(r)'
        BY <1>2, <2>1, <2>4, <2>5, <2>7, <3>5
        DEF RequestInv, OnSession, Using, Initializing
      <3> QED
        BY <2>2, <2>3, <2>4, <3>2, <3>3, <3>4, <3>6, Step
    <2> QED
      BY <1>2, <2>6, <2>7
  <1> QED
    BY <1>1, <1>2 DEF InitBody

(* dexter-api has accepted: the metadata is complete.                      *)
LEMMA ConnectKeeps ==
  ASSUME IInv, NEW r \in Requests, pc[r] \in Initializing, NEW m \in Meta,
         PutMeta(sid[r], m), PinnedTo(m, cred[r]), Verdict(r, "accepted"),
         GoTo(r, "connect"), UNCHANGED <<transports, idle, userBindings, ids>>
  PROVE  IInv' /\ SessionsEvolve
  <1> DEFINE s == sid[r]
  <1>1. s \in Sids \ published /\ s \in used
    BY DEF IInv, RequestInv, TypeOK
  <1>2. \A q \in Requests \ {r} : pc[q] \in Initializing => sid[q] # s
    BY DEF IInv, InitIdsDiffer
  <1>3. SessionsEvolve /\ \A q \in Requests \ {r} : InitStays(q)
    BY <1>1, <1>2, ProvisionalEvolves DEF ids
  <1>4. TypeOK'
    BY <1>1 DEF IInv, TypeOK, PutMeta, GoTo, request, ids, Verdict, Pcs
  <1>5. \A q \in Requests \ {r} : SameSlot(q)
    BY DEF IInv, TypeOK, SameSlot, GoTo, request, Verdict
  <1>6. /\ pc'[r] = "connect"
        /\ sid'[r] = s
        /\ cred'[r] = cred[r]
        /\ account'[r] = account[r]
        /\ verdict'[r] = "accepted"
        /\ meta'[s] = m
        /\ s \in known'
    BY <1>1 DEF IInv, TypeOK, GoTo, request, Verdict, PutMeta
  <1>7. RequestInv(r)
    BY DEF IInv
  <1>8. RequestInv(r)'
    BY <1>1, <1>6, <1>7 DEF RequestInv, OnSession, Using, Initializing, ids, PinnedTo
  <1> QED
    BY <1>2, <1>3, <1>4, <1>5, <1>6, <1>8, Step

LEMMA InitAnswersKeep ==
  ASSUME IInv, NEW r \in Requests, InitSeedAnswer(r) \/ InitLinkAnswer(r)
  PROVE  IInv' /\ SessionsEvolve
  <1>1. pc[r] \in Initializing
    BY DEF InitSeedAnswer, InitLinkAnswer, Initializing
  <1>2. CASE /\ pc[r] = "initSeed"
             /\ Verdict(r, "accepted")
             /\ PutMeta(sid[r], MarkVaultBound(meta[sid[r]], "oauth"))
             /\ GoTo(r, "connect")
             /\ UNCHANGED <<transports, idle, userBindings, ids>>
    <2>1. cred[r] \in OAuthIds /\ PinnedTo(meta[sid[r]], cred[r]) /\ meta[sid[r]] \in Meta
      BY <1>1, <1>2 DEF IInv, RequestInv, TypeOK
    <2> QED
      BY <1>1, <1>2, <2>1, MarksAreMeta, MarksKeepOwner, ConnectKeeps
  <1>3. CASE /\ pc[r] = "initLink"
             /\ Verdict(r, "accepted")
             /\ \E h \in Handles :
                  PutMeta(sid[r], PinLinkIdentity(MarkVaultBound(PinResource(Blank), "link_token"),
                                                  cred[r], h))
             /\ GoTo(r, "connect")
             /\ UNCHANGED <<transports, idle, userBindings, ids>>
    <2>1. cred[r] \in LinkRefs
      BY <1>3 DEF IInv, RequestInv
    <2> QED
      BY <1>1, <1>3, <2>1, FreshLinkPin, ConnectKeeps
  <1>4. CASE \E v \in {"rejected", "unavailable"}, what \in Replies :
               Verdict(r, v) /\ ClearProvisional(r, what)
    BY <1>1, <1>4, ClearProvisionalKeeps
  <1> QED
    BY <1>2, <1>3, <1>4 DEF InitSeedAnswer, InitLinkAnswer, Replies

LEMMA InitFailsKeeps ==
  ASSUME IInv, NEW r \in Requests, InitFails(r)
  PROVE  IInv' /\ SessionsEvolve
  BY ClearProvisionalKeeps DEF InitFails, Initializing, Replies

LEMMA PublishKeeps ==
  ASSUME IInv, NEW r \in Requests, Publish(r)
  PROVE  IInv' /\ SessionsEvolve
  <1> DEFINE s == sid[r]
             m == IF account[r] THEN MarkAccountBound(PinResource(meta[s]))
                                ELSE PinResource(meta[s])
  <1>1. /\ s \in Sids
        /\ s \in used \ published
        /\ meta[s] \in Meta
        /\ PinnedTo(meta[s], cred[r])
        /\ cred[r] \in Credentials
        /\ account[r] => cred[r] \in LinkRefs
        /\ verdict[r] = "accepted"
    BY DEF Publish, IInv, RequestInv, Initializing, TypeOK
  <1>2. m \in Meta /\ PinnedTo(m, cred[r])
    BY <1>1, MarksAreMeta, MarksKeepOwner
  <1>3. account[r] => m.accountBound
    BY <1>1, MarksAreMeta DEF MarkAccountBound, Meta
  <1>4. /\ transports' = transports \cup {s}
        /\ published' = published \cup {s}
        /\ used' = used
        /\ known' = known \cup {s}
        /\ userBindings' = IF account[r] THEN userBindings \cup {s} ELSE userBindings
    BY DEF Publish, PutMeta
  <1>5. meta' = [meta EXCEPT ![s] = m]
    BY DEF Publish, PutMeta
  <1>6. \A t \in Sids : meta'[t] = IF t = s THEN m ELSE meta[t]
    BY <1>5 DEF IInv, TypeOK
  <1>7. s \notin transports
    BY <1>1 DEF IInv, MapsNest
  <1>8. SessionsEvolve
    <2>1. MapsNest'
      BY <1>1, <1>4, <1>6 DEF IInv, MapsNest, TypeOK
    <2>2. PublishedIsPinned'
      <3> SUFFICES ASSUME NEW t \in transports'
                   PROVE  t \in known' /\ \E c \in Credentials : PinnedTo(meta'[t], c)
        BY DEF PublishedIsPinned, PinnedTo
      <3>1. CASE t = s
        BY <1>1, <1>2, <1>4, <1>6, <3>1
      <3>2. CASE t # s
        BY <1>4, <1>6, <3>2 DEF IInv, PublishedIsPinned, TypeOK
      <3> QED
        BY <3>1, <3>2
    <2>3. OrphansCarryNoIdentity'
      BY <1>4, <1>6 DEF IInv, OrphansCarryNoIdentity, TypeOK, NamesNobody
    <2>4. BindingsBelongToSessions'
      BY <1>1, <1>3, <1>4, <1>6, <1>7 DEF IInv, BindingsBelongToSessions, TypeOK
    <2>5. OwnersStay
      BY <1>6, <1>7 DEF OwnersStay, IInv, TypeOK
    <2> QED
      BY <1>1, <1>4, <2>1, <2>2, <2>3, <2>4, <2>5
      DEF SessionsEvolve, SessionsInv, Grows, NoneReopens
  <1>9. ASSUME NEW q \in Requests \ {r}
        PROVE  InitStays(q)
    <2>1. pc[q] \in Initializing => sid[q] \in Sids \ published /\ sid[q] # s
      BY DEF IInv, RequestInv, InitIdsDiffer, TypeOK, Publish, Initializing
    <2> QED
      BY <2>1, <1>4, <1>6 DEF InitStays
  <1>10. GoTo(r, "sdk") /\ Touch(s) /\ verdict' = verdict
    BY DEF Publish
  <1>11. TypeOK'
    BY <1>1, <1>2, <1>4, <1>5, <1>10 DEF IInv, TypeOK, GoTo, Touch, request, Pcs
  <1>12. \A q \in Requests \ {r} : SameSlot(q)
    BY <1>10 DEF IInv, TypeOK, SameSlot, GoTo, request
  <1>13. /\ pc'[r] = "sdk"
         /\ sid'[r] = s
         /\ cred'[r] = cred[r]
         /\ account'[r] = account[r]
         /\ verdict'[r] = "accepted"
         /\ meta'[s] = m
    BY <1>1, <1>6, <1>10 DEF IInv, TypeOK, GoTo, request
  <1>14. RequestInv(r)' /\ pc'[r] \notin Initializing
    BY <1>1, <1>2, <1>4, <1>13 DEF RequestInv, OnSession, Using, Initializing, PinnedTo
  <1> QED
    BY <1>8, <1>9, <1>11, <1>12, <1>14, Step

-----------------------------------------------------------------------------
(* Time, the reaper, expiry, a restart.                                    *)
LEMMA ClockKeeps ==
  ASSUME IInv, NEW s \in Sids, Age(s) \/ Reap(s) \/ ExpireUserBinding(s)
  PROVE  IInv' /\ SessionsEvolve
  <1>1. CASE Age(s)
    <2>1. UNCHANGED <<transports, known, meta, userBindings, ids, pc, request, verdict, reply>>
      BY <1>1 DEF Age
    <2>2. TypeOK'
      BY <1>1, <2>1 DEF Age, IInv, TypeOK, ids, request
    <2>3. SessionsInv'
      BY <2>1 DEF IInv, SessionsInv, MapsNest, PublishedIsPinned, OrphansCarryNoIdentity,
                  BindingsBelongToSessions, ids, PinnedTo, NamesNobody
    <2>4. SessionsEvolve
      BY <2>1, <2>3 DEF SessionsEvolve, Grows, NoneReopens, OwnersStay, ids, PinnedTo
    <2>5. \A q \in Requests : SameSlot(q) /\ InitStays(q)
      BY <2>1 DEF SameSlot, InitStays, IInv, RequestInv, ids, request
    <2>6. \A q \in Requests : RequestInv(q)'
      BY <2>4, <2>5, OtherRequests
    <2>7. InitIdsDiffer'
      BY <2>1 DEF IInv, InitIdsDiffer, request
    <2> QED
      BY <2>2, <2>4, <2>6, <2>7 DEF IInv, SessionsEvolve, SessionsInv
  <1>2. CASE Reap(s)
    <2>1. s \in published
      BY <1>2 DEF Reap, IInv, MapsNest
    <2> QED
      BY <1>2, <2>1, CloseKeeps DEF Reap
  <1>3. CASE ExpireUserBinding(s)
    <2>1. /\ UNCHANGED <<transports, known, meta, idle, ids, pc, request, verdict, reply>>
          /\ userBindings' \subseteq userBindings
      BY <1>3 DEF ExpireUserBinding
    <2>2. TypeOK'
      BY <2>1 DEF IInv, TypeOK, ids, request
    <2>3. SessionsInv'
      BY <2>1 DEF IInv, SessionsInv, MapsNest, PublishedIsPinned, OrphansCarryNoIdentity,
                  BindingsBelongToSessions, ids, PinnedTo, NamesNobody
    <2>4. SessionsEvolve
      BY <2>1, <2>3 DEF SessionsEvolve, Grows, NoneReopens, OwnersStay, ids, PinnedTo
    <2>5. \A q \in Requests : SameSlot(q) /\ InitStays(q)
      BY <2>1 DEF SameSlot, InitStays, IInv, RequestInv, ids, request
    <2>6. \A q \in Requests : RequestInv(q)'
      BY <2>4, <2>5, OtherRequests
    <2>7. InitIdsDiffer'
      BY <2>1 DEF IInv, InitIdsDiffer, request
    <2> QED
      BY <2>2, <2>4, <2>6, <2>7 DEF IInv, SessionsEvolve, SessionsInv
  <1> QED
    BY <1>1, <1>2, <1>3

LEMMA RestartKeeps ==
  ASSUME IInv, Restart
  PROVE  IInv' /\ SessionsEvolve
  <1>1. TypeOK'
    BY BlankMeta DEF IInv, TypeOK, Restart, ids, Pcs, Replies
  <1>2. SessionsInv'
    BY DEF IInv, SessionsInv, MapsNest, PublishedIsPinned, OrphansCarryNoIdentity,
           BindingsBelongToSessions, Restart, ids, TypeOK
  <1>3. SessionsEvolve
    BY <1>2 DEF SessionsEvolve, Grows, NoneReopens, OwnersStay, Restart, ids
  <1>4. \A q \in Requests : RequestInv(q)'
    BY DEF RequestInv, Restart, OnSession, Using, Initializing
  <1>5. InitIdsDiffer'
    BY DEF InitIdsDiffer, Restart, Initializing
  <1> QED
    BY <1>1, <1>3, <1>4, <1>5 DEF IInv, SessionsEvolve, SessionsInv

LEMMA InitIInv == Init => IInv
  <1> SUFFICES ASSUME Init
               PROVE  IInv
    OBVIOUS
  <1>1. TypeOK
    BY BlankMeta DEF Init, TypeOK, Pcs, Replies
  <1>2. /\ MapsNest
        /\ PublishedIsPinned
        /\ OrphansCarryNoIdentity
        /\ BindingsBelongToSessions
    BY DEF Init, MapsNest, PublishedIsPinned, OrphansCarryNoIdentity, BindingsBelongToSessions
  <1>3. (\A r \in Requests : RequestInv(r)) /\ InitIdsDiffer
    BY DEF Init, RequestInv, InitIdsDiffer, OnSession, Using, Initializing
  <1> QED
    BY <1>1, <1>2, <1>3 DEF IInv

LEMMA NextKeeps ==
  ASSUME IInv, Next
  PROVE  IInv' /\ SessionsEvolve
  <1>1. ASSUME NEW r \in Requests, Continuation(r)
        PROVE  IInv' /\ SessionsEvolve
    BY <1>1, SeedAnswerKeeps, LinkAnswersKeep, BodyArrivesKeeps, ClosingKeeps, InitBodyKeeps,
       InitAnswersKeep, PublishKeeps, SdkDoneKeeps, InitFailsKeeps DEF Continuation
  <1>2. ASSUME NEW r \in Requests, ToolLookup(r) \/ SdkDone(r) \/ TransportCloses(r)
        PROVE  IInv' /\ SessionsEvolve
    BY <1>2, ToolLookupKeeps, SdkDoneKeeps, ClosingKeeps
  <1> QED
    BY <1>1, <1>2, ArrivalKeeps, ClockKeeps, RestartKeeps DEF Next

LEMMA StutterKeeps ==
  ASSUME IInv, UNCHANGED vars
  PROVE  IInv'
  <1>1. UNCHANGED <<maps, ids>> /\ UNCHANGED <<pc, request, verdict, reply>>
    BY DEF vars
  <1>2. TypeOK'
    BY <1>1 DEF IInv, TypeOK, maps, ids, request
  <1>3. SessionsEvolve /\ \A q \in Requests : InitStays(q)
    BY <1>1, NothingMoves
  <1>4. \A q \in Requests : SameSlot(q)
    BY <1>1 DEF SameSlot, request
  <1>5. \A q \in Requests : RequestInv(q)'
    BY <1>3, <1>4, OtherRequests
  <1>6. InitIdsDiffer'
    BY <1>1 DEF IInv, InitIdsDiffer, request
  <1> QED
    BY <1>2, <1>3, <1>5, <1>6 DEF IInv, SessionsEvolve, SessionsInv

(* The strengthening is an invariant of the server's sessions.             *)
THEOREM Invariance == Spec => []IInv
  <1>1. IInv /\ [Next]_vars => IInv'
    BY NextKeeps, StutterKeeps
  <1> QED
    BY InitIInv, <1>1, PTL DEF Spec

(* Every variable of the session boundary keeps its type.                  *)
THEOREM TypeCorrect == Spec => []TypeOK
  BY Invariance, PTL DEF IInv

(* A published session always has metadata that names its one owner.       *)
THEOREM SessionsArePinned == Spec => []PublishedIsPinned
  BY Invariance, PTL DEF IInv

(* Only the credential that opened a live session is read for, dispatched   *)
(* or allowed to close it.                                                 *)
THEOREM OwnerOnly == Spec => []OnlyOwnerUses
  <1>1. IInv => OnlyOwnerUses
    BY DEF IInv, RequestInv, OnlyOwnerUses
  <1> QED
    BY Invariance, <1>1, PTL

(* No late answer leaves an identity behind for a session that has gone.    *)
THEOREM OrphansAreNobodys == Spec => []OrphansCarryNoIdentity
  BY Invariance, PTL DEF IInv

(* Account bindings belong to live sessions that know of them.             *)
THEOREM BindingsHaveSessions == Spec => []BindingsBelongToSessions
  BY Invariance, PTL DEF IInv

-----------------------------------------------------------------------------
(* The server implements SessionAuthority.                                 *)
LEMMA OnlyPublishOpens ==
  ASSUME NEW r \in Requests,
         \/ Arrival(r)
         \/ Continuation(r) /\ ~Publish(r)
         \/ ToolLookup(r)
         \/ SdkDone(r)
         \/ TransportCloses(r)
  PROVE  transports' \subseteq transports /\ published' = published
  <1> USE DEF maps, ids
  <1>1. CASE Arrival(r)
    <2>1. ASSUME NEW s \in published, NEW m, NEW u, ArriveOAuth(r, m, s, u)
          PROVE  transports' \subseteq transports /\ published' = published
      BY <2>1 DEF ArriveOAuth, Turn
    <2>2. ASSUME NEW s \in published, NEW m, NEW c, NEW a, ArriveLink(r, m, s, c, a)
          PROVE  transports' \subseteq transports /\ published' = published
      BY <2>2 DEF ArriveLink, Turn
    <2> QED
      BY <1>1, <2>1, <2>2 DEF Arrival, ArriveUnverified, ArriveSessionless, ArriveInit, Turn
  <1>2. CASE SeedAnswer(r)
    BY <1>2 DEF SeedAnswer, Route, Deny
  <1>3. CASE LinkBindAnswer(r) \/ LinkProbeAnswer(r)
    BY <1>3 DEF LinkBindAnswer, LinkProbeAnswer, LinkRoute, Route, Deny
  <1>4. CASE BodyArrives(r) \/ SdkDone(r) \/ InitRefused(r) \/ ToolLookup(r)
    BY <1>4 DEF BodyArrives, SdkDone, InitRefused, ToolLookup
  <1>5. CASE TransportCloses(r) \/ DeleteDone(r) \/ InitFails(r)
    BY <1>5 DEF TransportCloses, DeleteDone, InitFails, ClearProvisional, DropSession
  <1>6. CASE \E s \in Sids : InitBody(r, s)
    BY <1>6 DEF InitBody, Deny
  <1>7. CASE InitSeedAnswer(r) \/ InitLinkAnswer(r)
    BY <1>7 DEF InitSeedAnswer, InitLinkAnswer, ClearProvisional, DropSession
  <1> QED
    BY <1>1, <1>2, <1>3, <1>4, <1>5, <1>6, <1>7 DEF Continuation

Stage == [s \in Sids |-> IF s \in transports THEN "live"
                         ELSE IF s \in published THEN "gone" ELSE "absent"]

Owner == [s \in Sids |-> IF s \in transports THEN OwnerOf(meta[s]) ELSE None]

LEMMA OwnerUnmoved ==
  ASSUME IInv, IInv', OwnersStay, NEW s \in transports, s \in transports'
  PROVE  OwnerOf(meta'[s]) = OwnerOf(meta[s])
  <1>1. PICK c \in Credentials : PinnedTo(meta[s], c)
    BY DEF IInv, PublishedIsPinned
  <1>2. PinnedTo(meta'[s], c)
    BY <1>1 DEF OwnersStay
  <1>3. meta[s] \in Meta /\ meta'[s] \in Meta
    BY DEF IInv, TypeOK
  <1> QED
    BY <1>1, <1>2, <1>3, OwnerIsPinned

(* Every step but a publication closes some sessions, maybe none.          *)
LEMMA ClosingStep ==
  ASSUME IInv, IInv', OwnersStay, transports' \subseteq transports, published' = published,
         NEW S, S = transports \ transports'
  PROVE  Authority!Close(S)
  <1>1. transports \subseteq published /\ transports \subseteq Sids
    BY DEF IInv, MapsNest, TypeOK
  <1>2. \A s \in S : Stage[s] = "live"
    BY <1>1 DEF Stage
  <1>3. Stage' = [s \in Sids |-> IF s \in S THEN "gone" ELSE Stage[s]]
    BY <1>1 DEF Stage
  <1>4. ASSUME NEW s \in Sids
        PROVE  Owner'[s] = IF s \in S THEN None ELSE Owner[s]
    <2>1. s \in transports' => OwnerOf(meta'[s]) = OwnerOf(meta[s])
      BY OwnerUnmoved
    <2>2. Owner[s] = IF s \in transports THEN OwnerOf(meta[s]) ELSE None
      BY DEF Owner
    <2>3. Owner'[s] = IF s \in transports' THEN OwnerOf(meta'[s]) ELSE None
      BY DEF Owner, OwnerOf
    <2> QED
      BY <2>1, <2>2, <2>3
  <1>5. Owner' = [s \in Sids |-> IF s \in S THEN None ELSE Owner[s]]
    BY <1>4 DEF Owner
  <1> QED
    BY <1>2, <1>3, <1>5 DEF Authority!Close, Stage, Owner

LEMMA OpeningStep ==
  ASSUME IInv, IInv', OwnersStay, NEW r \in Requests, Publish(r)
  PROVE  \E o \in Credentials : Authority!Open(sid[r], o)
  <1> DEFINE s == sid[r]
  <1>1. s \in Sids \ published /\ s \notin transports
    BY DEF Publish, IInv, RequestInv, Initializing, MapsNest, TypeOK
  <1>2. transports' = transports \cup {s} /\ published' = published \cup {s}
    BY DEF Publish
  <1>3. PICK o \in Credentials : PinnedTo(meta'[s], o)
    BY <1>1, <1>2 DEF IInv, PublishedIsPinned, PinnedTo
  <1>4. OwnerOf(meta'[s]) = o
    <2>1. meta'[s] \in Meta
      BY <1>1 DEF IInv, TypeOK
    <2> QED
      BY <1>3, <2>1, OwnerIsPinned
  <1>5. Stage[s] = "absent"
    BY <1>1 DEF Stage
  <1>6. Stage' = [Stage EXCEPT ![s] = "live"]
    BY <1>1, <1>2 DEF Stage
  <1>7. ASSUME NEW t \in Sids
        PROVE  Owner'[t] = IF t = s THEN o ELSE Owner[t]
    <2>1. t \in transports => OwnerOf(meta'[t]) = OwnerOf(meta[t])
      BY <1>2, OwnerUnmoved
    <2>2. Owner[t] = IF t \in transports THEN OwnerOf(meta[t]) ELSE None
      BY DEF Owner
    <2>3. Owner'[t] = IF t \in transports' THEN OwnerOf(meta'[t]) ELSE None
      BY DEF Owner, OwnerOf
    <2> QED
      BY <1>1, <1>2, <1>4, <2>1, <2>2, <2>3
  <1>8. Owner' = [Owner EXCEPT ![s] = o]
    BY <1>1, <1>7 DEF Owner
  <1> QED
    BY <1>5, <1>6, <1>8 DEF Authority!Open, Stage, Owner

LEMMA StepImplements ==
  ASSUME IInv, IInv', [Next]_vars
  PROVE  [Authority!Next]_(Authority!avars)
  <1>1. CASE \E r \in Requests : Publish(r)
    <2>1. PICK r \in Requests : Publish(r)
      BY <1>1
    <2>2. sid[r] \in Sids
      BY <2>1 DEF Publish, IInv, RequestInv, Initializing, TypeOK
    <2>3. OwnersStay
      BY <2>1, PublishKeeps DEF SessionsEvolve
    <2> QED
      BY <2>1, <2>2, <2>3, OpeningStep DEF Authority!Next
  <1>2. CASE Next /\ ~ \E r \in Requests : Publish(r)
    <2>1. transports' \subseteq transports /\ published' = published
      <3>1. CASE \E r \in Requests : \/ Arrival(r)
                                    \/ Continuation(r)
                                    \/ ToolLookup(r)
                                    \/ SdkDone(r)
                                    \/ TransportCloses(r)
        BY <1>2, <3>1, OnlyPublishOpens
      <3>2. CASE \E s \in Sids : Age(s) \/ Reap(s) \/ ExpireUserBinding(s)
        BY <3>2 DEF Age, Reap, ExpireUserBinding, DropSession, ids
      <3>3. CASE Restart
        BY <3>3 DEF Restart, ids
      <3> QED
        BY <1>2, <3>1, <3>2, <3>3 DEF Next
    <2>2. OwnersStay
      BY <1>2, NextKeeps DEF SessionsEvolve
    <2>3. PICK S \in SUBSET Sids : S = transports \ transports'
      BY DEF IInv, TypeOK
    <2> QED
      BY <2>1, <2>2, <2>3, ClosingStep DEF Authority!Next
  <1>3. CASE UNCHANGED vars
    BY <1>3 DEF vars, maps, ids, Authority!avars, OwnerOf
  <1> QED
    BY <1>1, <1>2, <1>3

(* Whatever requests, crashes and lookups do, a session id is opened once,  *)
(* for one credential, keeps it while it lives, and never comes back.      *)
THEOREM Refinement == Spec => ImplementsAuthority
  <1>1. Init => Authority!Init
    BY DEF Init, Authority!Init
  <1> QED
    BY <1>1, StepImplements, Invariance, PTL DEF Spec, ImplementsAuthority, Authority!Spec

-----------------------------------------------------------------------------
(* Nobody but its owner, the reaper and a restart leaves a trace.           *)
Elsewhere(t) == \A s \in transports \ {t} : Spared(s)

LEMMA AllSpared ==
  ASSUME UNCHANGED maps
  PROVE  \A s \in transports : Spared(s)
  BY DEF maps, Spared

LEMMA PutSpares ==
  ASSUME IInv, NEW t, NEW m, PutMeta(t, m), transports \subseteq transports',
         idle' = idle \/ Touch(t)
  PROVE  Elsewhere(t)
  BY DEF IInv, TypeOK, PutMeta, Touch, Elsewhere, Spared

LEMMA DropSpares ==
  ASSUME IInv, NEW t, DropSession(t)
  PROVE  Elsewhere(t)
  BY DEF IInv, TypeOK, DropSession, Elsewhere, Spared

(* What is written for a request leaves the slots of the others alone.      *)
LEMMA OthersStand ==
  ASSUME IInv, NEW r \in Requests,
         \/ \E what : Answer(r, what)
         \/ \E where : GoTo(r, where)
         \/ UNCHANGED <<pc, request, reply>>,
         verdict' = verdict \/ \E v : Verdict(r, v)
  PROVE  \A q \in Requests \ {r} :
           pc'[q] = pc[q] /\ verdict'[q] = verdict[q] /\ reply'[q] = reply[q]
  BY DEF IInv, TypeOK, Answer, GoTo, Verdict, request

(* A step of a request that the owner of its session sent and dexter-api    *)
(* accepted may do anything to that session, and nothing to another.        *)
LEMMA OwnersMay ==
  ASSUME IInv, NEW r \in Requests, Elsewhere(sid[r]),
         sid[r] \in transports => PinnedTo(meta[sid[r]], cred[r]),
         verdict'[r] = "accepted",
         \A q \in Requests \ {r} :
           pc'[q] = pc[q] /\ verdict'[q] = verdict[q] /\ reply'[q] = reply[q]
  PROVE  \A s \in transports : Spared(s) \/ OwnersStep(r, s)
  BY DEF Elsewhere, OwnersStep

(* An arrival changes no live session: the identity it may pin is there.    *)
LEMMA ArrivalSpares ==
  ASSUME IInv, NEW r \in Requests, Arrival(r)
  PROVE  \A s \in transports : Spared(s)
  <1>1. ASSUME NEW t \in published, NEW m, NEW u \in OAuthIds, ArriveOAuth(r, m, t, u)
        PROVE  \A s \in transports : Spared(s)
    <2>1. CASE UNCHANGED maps
      BY <2>1, AllSpared
    <2>2. CASE /\ t \in transports
               /\ MayPin(t, u)
               /\ PutMeta(t, PinOAuthIdentity(meta[t], u))
               /\ UNCHANGED <<transports, idle>>
      <3>1. meta[t] \in Meta /\ \E c : PinnedTo(meta[t], c)
        BY <2>2 DEF IInv, TypeOK, PublishedIsPinned
      <3>2. PinOAuthIdentity(meta[t], u) = meta[t]
        BY <2>2, <3>1, PinAgrees DEF MayPin
      <3>3. meta' = meta
        BY <2>2, <3>2 DEF PutMeta, IInv, TypeOK
      <3> QED
        BY <2>2, <3>3 DEF Spared
    <2> QED
      BY <1>1, <2>1, <2>2 DEF ArriveOAuth, Turn
  <1>2. ASSUME NEW s \in published, NEW m, NEW c, NEW a, ArriveLink(r, m, s, c, a)
        PROVE  UNCHANGED maps
    BY <1>2 DEF ArriveLink, Turn
  <1>3. CASE UNCHANGED maps
    BY <1>3, AllSpared
  <1> QED
    BY <1>1, <1>2, <1>3 DEF Arrival, ArriveUnverified, ArriveSessionless, ArriveInit, Turn

(* Route changes the session of the request that is routed.                 *)
LEMMA RouteSpares ==
  ASSUME IInv, NEW r \in Requests, NEW m, Route(r, m), m \in Meta,
         sid[r] \notin transports => m = meta[sid[r]]
  PROVE  /\ Elsewhere(sid[r])
         /\ \/ \E what : Answer(r, what)
            \/ \E where : GoTo(r, where)
  <1>1. CASE sid[r] \notin transports
    BY <1>1 DEF Route, Elsewhere, Spared
  <1>2. CASE sid[r] \in transports
    <2>1. /\ \E n : PutMeta(sid[r], n)
          /\ transports' = transports
          /\ idle' = idle \/ Touch(sid[r])
          /\ \E where : GoTo(r, where)
      BY <1>2 DEF Route
    <2> QED
      BY <2>1, PutSpares
  <1> QED
    BY <1>1, <1>2

LEMMA AnswersSpare ==
  ASSUME IInv, NEW r \in Requests,
         SeedAnswer(r) \/ LinkBindAnswer(r) \/ LinkProbeAnswer(r)
  PROVE  \A s \in transports : Spared(s) \/ OwnersStep(r, s)
  <1> DEFINE t == sid[r]
  <1>1. t \in Sids /\ t \in published
    BY DEF SeedAnswer, LinkBindAnswer, LinkProbeAnswer, IInv, RequestInv, OnSession, TypeOK,
           MapsNest
  <1>2. CASE \E what : Deny(r, what)
    BY <1>2, AllSpared DEF Deny
  <1>3. ASSUME NEW m \in Meta, Route(r, m), Verdict(r, "accepted"),
               t \notin transports => m = meta[t],
               t \in transports => PinnedTo(meta[t], cred[r])
        PROVE  \A s \in transports : Spared(s) \/ OwnersStep(r, s)
    <2>1. verdict'[r] = "accepted"
      BY <1>3 DEF Verdict, IInv, TypeOK
    <2>2. \A q \in Requests \ {r} :
            pc'[q] = pc[q] /\ verdict'[q] = verdict[q] /\ reply'[q] = reply[q]
      BY <1>3, RouteSpares, OthersStand
    <2> QED
      BY <1>3, <2>1, <2>2, RouteSpares, OwnersMay
  <1>4. CASE /\ SeedAnswer(r)
             /\ StillPinned(t, cred[r])
             /\ Route(r, MarkVaultBound(meta[t], "oauth"))
             /\ Verdict(r, "accepted")
    <2>1. meta[t] \in Meta
      BY <1>1 DEF IInv, TypeOK
    <2>2. cred[r] \in Credentials /\ meta[t].oauth = cred[r] /\ meta[t].oauth # None
      BY <1>4, NoneIsNobody DEF SeedAnswer, IInv, RequestInv, StillPinned, OAuthStatus
    <2>3. t \in transports => PinnedTo(meta[t], cred[r])
      <3>1. ASSUME t \in transports, NEW c \in Credentials, PinnedTo(meta[t], c)
            PROVE  c = cred[r]
        BY <2>2, <3>1 DEF PinnedTo
      <3> QED
        BY <3>1 DEF IInv, PublishedIsPinned
    <2>4. t \in transports
      <3>1. ASSUME t \notin transports
            PROVE  FALSE
        BY <1>1, <2>2, <3>1 DEF IInv, OrphansCarryNoIdentity, NamesNobody, MapsNest, Blank
      <3> QED
        BY <3>1
    <2> QED
      BY <1>3, <1>4, <2>1, <2>3, <2>4, MarksAreMeta
  <1>5. CASE LinkBindAnswer(r) /\ LinkRoute(r) /\ Verdict(r, "accepted")
    <2>1. t \in transports => PinnedTo(meta[t], cred[r])
      BY <1>5 DEF LinkBindAnswer, IInv, RequestInv
    <2>2. meta[t] \in Meta
      BY <1>1 DEF IInv, TypeOK
    <2> QED
      BY <1>2, <1>3, <1>5, <2>1, <2>2 DEF LinkRoute
  <1>6. CASE LinkProbeAnswer(r) /\ LinkRoute(r) /\ Verdict(r, "accepted")
    <2>1. t \notin transports
      BY <1>6 DEF LinkProbeAnswer, IInv, RequestInv
    <2>2. meta[t] \in Meta
      BY <1>1 DEF IInv, TypeOK
    <2> QED
      BY <1>2, <1>3, <1>6, <2>1, <2>2 DEF LinkRoute
  <1> QED
    BY <1>2, <1>4, <1>5, <1>6 DEF SeedAnswer, LinkBindAnswer, LinkProbeAnswer

(* Whoever uses a session may look up, close it or fail to initialize it.   *)
LEMMA UsersSpare ==
  ASSUME IInv, NEW r \in Requests, pc[r] \in Using,
         ToolLookup(r) \/ TransportCloses(r) \/ DeleteDone(r) \/ InitFails(r)
  PROVE  \A s \in transports : Spared(s) \/ OwnersStep(r, s)
  <1>1. verdict[r] = "accepted" /\ (sid[r] \in transports => PinnedTo(meta[sid[r]], cred[r]))
    BY DEF IInv, RequestInv
  <1>2. verdict' = verdict
    BY DEF ToolLookup, TransportCloses, DeleteDone, InitFails
  <1>3. Elsewhere(sid[r])
    <2>1. CASE ToolLookup(r)
      BY <2>1, PutSpares DEF ToolLookup
    <2>2. CASE ~ToolLookup(r)
      BY <2>2, DropSpares DEF TransportCloses, DeleteDone, InitFails, ClearProvisional
    <2> QED
      BY <2>1, <2>2
  <1>4. \/ \E what : Answer(r, what)
        \/ UNCHANGED <<pc, request, reply>>
    BY DEF ToolLookup, TransportCloses, DeleteDone, InitFails, ClearProvisional
  <1> QED
    BY <1>1, <1>2, <1>3, <1>4, OthersStand, OwnersMay

(* Until it publishes it an initialization touches a session nobody knows.  *)
LEMMA InitsSpare ==
  ASSUME IInv, NEW r \in Requests,
         \/ \E s \in Sids : InitBody(r, s)
         \/ InitSeedAnswer(r)
         \/ InitLinkAnswer(r)
         \/ Publish(r)
         \/ InitFails(r) /\ pc[r] \notin Using
  PROVE  \A s \in transports : Spared(s)
  <1>1. ASSUME NEW s \in Sids, InitBody(r, s)
        PROVE  \A t \in transports : Spared(t)
    <2>1. CASE \E what : Deny(r, what)
      BY <2>1, AllSpared DEF Deny
    <2>2. CASE s \notin used /\ UNCHANGED <<known, meta, transports, idle>>
      BY <2>2 DEF Spared
    <2>3. CASE s \notin used /\ (\E m : PutMeta(s, m)) /\ UNCHANGED <<transports, idle>>
      <3>1. s \notin transports
        BY <2>3 DEF IInv, MapsNest
      <3> QED
        BY <2>3, <3>1, PutSpares DEF Elsewhere
    <2> QED
      BY <1>1, <2>1, <2>2, <2>3 DEF InitBody
  <1>2. ASSUME pc[r] \in Initializing, Elsewhere(sid[r])
        PROVE  \A s \in transports : Spared(s)
    <2>1. sid[r] \notin transports
      BY <1>2 DEF IInv, RequestInv, MapsNest
    <2> QED
      BY <1>2, <2>1 DEF Elsewhere
  <1>3. CASE InitSeedAnswer(r) \/ InitLinkAnswer(r)
    <2>1. CASE \E what : ClearProvisional(r, what)
      BY <1>2, <1>3, <2>1, DropSpares
      DEF ClearProvisional, InitSeedAnswer, InitLinkAnswer, Initializing
    <2>2. CASE (\E m : PutMeta(sid[r], m)) /\ UNCHANGED <<transports, idle>>
      BY <1>2, <1>3, <2>2, PutSpares DEF InitSeedAnswer, InitLinkAnswer, Initializing
    <2> QED
      BY <1>3, <2>1, <2>2 DEF InitSeedAnswer, InitLinkAnswer
  <1>4. CASE Publish(r)
    BY <1>2, <1>4, PutSpares DEF Publish, Initializing
  <1>5. CASE InitFails(r) /\ pc[r] \notin Using
    BY <1>2, <1>5, DropSpares DEF InitFails, ClearProvisional, Initializing, Using
  <1> QED
    BY <1>1, <1>3, <1>4, <1>5

LEMMA ClockSpares ==
  ASSUME IInv, NEW t \in Sids, Age(t) \/ Reap(t) \/ ExpireUserBinding(t)
  PROVE  \A s \in transports : Spared(s) \/ Reap(s)
  <1>1. CASE Age(t)
    BY <1>1 DEF Age, Spared, IInv, TypeOK
  <1>2. CASE Reap(t)
    BY <1>2, DropSpares DEF Reap, Elsewhere
  <1>3. CASE ExpireUserBinding(t)
    BY <1>3 DEF ExpireUserBinding, Spared
  <1> QED
    BY <1>1, <1>2, <1>3

(* A live session is altered, renewed or closed by its owner's accepted      *)
(* requests, the reaper and a restart only.                                *)
THEOREM OwnersOnlyLeaveTraces == Spec => OthersLeaveNoTrace
  <1> DEFINE Traces == \A s \in transports :
                         \/ Spared(s)
                         \/ \E r \in Requests : OwnersStep(r, s)
                         \/ Reap(s)
                         \/ Restart
  <1>1. ASSUME IInv, Next
        PROVE  Traces
    <2>1. ASSUME NEW r \in Requests,
                 \/ Continuation(r)
                 \/ ToolLookup(r)
                 \/ SdkDone(r)
                 \/ TransportCloses(r)
          PROVE  Traces
      <3>1. CASE SeedAnswer(r) \/ LinkBindAnswer(r) \/ LinkProbeAnswer(r)
        BY <1>1, <3>1, AnswersSpare
      <3>2. CASE BodyArrives(r) \/ InitRefused(r) \/ SdkDone(r)
        BY <3>2, AllSpared DEF BodyArrives, InitRefused, SdkDone
      <3>3. CASE pc[r] \in Using
                 /\ (ToolLookup(r) \/ TransportCloses(r) \/ DeleteDone(r) \/ InitFails(r))
        BY <1>1, <3>3, UsersSpare
      <3>4. CASE \/ \E s \in Sids : InitBody(r, s)
                 \/ InitSeedAnswer(r)
                 \/ InitLinkAnswer(r)
                 \/ Publish(r)
                 \/ InitFails(r) /\ pc[r] \notin Using
        BY <1>1, <3>4, InitsSpare
      <3>5. ToolLookup(r) \/ TransportCloses(r) \/ DeleteDone(r) => pc[r] \in Using
        BY DEF ToolLookup, TransportCloses, DeleteDone, Using
      <3> QED
        BY <2>1, <3>1, <3>2, <3>3, <3>4, <3>5 DEF Continuation
    <2>2. ASSUME NEW r \in Requests, Arrival(r)
          PROVE  Traces
      BY <1>1, <2>2, ArrivalSpares
    <2>3. ASSUME NEW t \in Sids, Age(t) \/ Reap(t) \/ ExpireUserBinding(t)
          PROVE  Traces
      BY <1>1, <2>3, ClockSpares
    <2> QED
      BY <1>1, <2>1, <2>2, <2>3 DEF Next
  <1>2. IInv /\ [Next]_vars => [Traces]_vars
    BY <1>1
  <1> QED
    BY <1>2, Invariance, PTL DEF Spec, OthersLeaveNoTrace

-----------------------------------------------------------------------------
(* What the listener that throws throws for: only a POST that has read its   *)
(* body gets there, and it does when its session has closed meanwhile.      *)
Throws(r) == pc[r] = "body" /\ GoTo(r, "threw") /\ UNCHANGED <<maps, ids, verdict>>
                /\ sid[r] \notin transports

LEMMA RoutesAndAnswersDoNotThrow ==
  ASSUME IInv, NEW r \in Requests, NEW q \in Requests, pc'[q] = "threw",
         \/ \E what : Answer(r, what)
         \/ \E where \in Pcs \ {"threw"} : GoTo(r, where)
         \/ \E m, s, c, a : \E where \in Pcs \ {"threw"} : Admit(r, m, s, c, a, where)
         \/ pc' = pc
         \/ \E where \in Pcs \ {"threw"} : pc' = [pc EXCEPT ![r] = where]
  PROVE  pc[q] = "threw"
  BY DEF IInv, TypeOK, Answer, GoTo, Admit

LEMMA OnlyBodiesThrow ==
  ASSUME IInv, NEW r \in Requests,
         \/ Arrival(r)
         \/ Continuation(r)
         \/ ToolLookup(r)
         \/ SdkDone(r)
         \/ TransportCloses(r),
         NEW q \in Requests, pc'[q] = "threw", pc[q] # "threw"
  PROVE  q = r /\ Throws(r)
  <1> USE DEF Pcs
  <1>1. CASE Arrival(r)
    <2>1. ASSUME NEW s \in published, NEW m, NEW u, ArriveOAuth(r, m, s, u)
          PROVE  FALSE
      BY <2>1, RoutesAndAnswersDoNotThrow DEF ArriveOAuth, Turn
    <2>2. ASSUME NEW s \in published, NEW m, NEW c, NEW a, ArriveLink(r, m, s, c, a)
          PROVE  FALSE
      BY <2>2, RoutesAndAnswersDoNotThrow DEF ArriveLink, Turn
    <2>3. ASSUME NEW m, NEW c, NEW a, \/ ArriveUnverified(r)
                                      \/ ArriveSessionless(r, m, c)
                                      \/ ArriveInit(r, c, a)
          PROVE  FALSE
      BY <2>3, RoutesAndAnswersDoNotThrow
      DEF ArriveUnverified, ArriveSessionless, ArriveInit, Turn
    <2> QED
      BY <1>1, <2>1, <2>2, <2>3 DEF Arrival
  <1>2. CASE SeedAnswer(r) \/ LinkBindAnswer(r) \/ LinkProbeAnswer(r)
    <2>1. \/ \E what : Deny(r, what)
          \/ \E m : Route(r, m)
      BY <1>2 DEF SeedAnswer, LinkBindAnswer, LinkProbeAnswer, LinkRoute
    <2> QED
      BY <2>1, RoutesAndAnswersDoNotThrow DEF Deny, Route
  <1>3. CASE BodyArrives(r)
    <2>1. CASE Throws(r)
      BY <2>1 DEF Throws, GoTo, IInv, TypeOK
    <2>2. CASE ~Throws(r)
      BY <1>3, <2>2, RoutesAndAnswersDoNotThrow DEF BodyArrives, Throws
    <2> QED
      BY <2>1, <2>2
  <1>4. CASE SdkDone(r) \/ ToolLookup(r) \/ TransportCloses(r) \/ DeleteDone(r) \/ InitRefused(r)
    BY <1>4, RoutesAndAnswersDoNotThrow
    DEF SdkDone, ToolLookup, TransportCloses, DeleteDone, InitRefused
  <1>5. CASE \E s \in Sids : InitBody(r, s)
    BY <1>5, RoutesAndAnswersDoNotThrow DEF InitBody, Deny
  <1>6. CASE InitSeedAnswer(r) \/ InitLinkAnswer(r) \/ InitFails(r) \/ Publish(r)
    BY <1>6, RoutesAndAnswersDoNotThrow
    DEF InitSeedAnswer, InitLinkAnswer, InitFails, Publish, ClearProvisional
  <1> QED
    BY <1>1, <1>2, <1>3, <1>4, <1>5, <1>6 DEF Continuation

(* The listener throws for nobody but an owner whose session has closed.    *)
THEOREM OnlyClosedSessionsThrow == Spec => []ThrowsAreForTheClosed
  <1>1. Init => ThrowsAreForTheClosed
    BY DEF Init, ThrowsAreForTheClosed
  <1>2. ASSUME IInv, ThrowsAreForTheClosed, Next
        PROVE  ThrowsAreForTheClosed'
    <2>1. CASE Restart
      BY <2>1 DEF Restart, ThrowsAreForTheClosed
    <2>2. CASE Up /\ \E t \in Sids : Age(t) \/ Reap(t) \/ ExpireUserBinding(t)
      BY <2>2 DEF Up, Age, Reap, ExpireUserBinding, ThrowsAreForTheClosed
    <2>3. ASSUME Up, NEW r \in Requests,
                 \/ Arrival(r)
                 \/ Continuation(r)
                 \/ ToolLookup(r)
                 \/ SdkDone(r)
                 \/ TransportCloses(r),
                 NEW q \in Requests, pc'[q] = "threw"
          PROVE  verdict'[q] = "accepted" /\ sid'[q] \in published' \ transports'
      <3>1. q = r /\ Throws(r)
        BY <1>2, <2>3, OnlyBodiesThrow DEF Up
      <3>2. verdict[r] = "accepted" /\ sid[r] \in published
        BY <1>2, <3>1 DEF Throws, IInv, RequestInv, Using, OnSession
      <3> QED
        BY <3>1, <3>2 DEF Throws, GoTo, request, maps, ids
    <2> QED
      BY <1>2, <2>1, <2>2, <2>3 DEF Next, ThrowsAreForTheClosed
  <1>3. ThrowsAreForTheClosed /\ UNCHANGED vars => ThrowsAreForTheClosed'
    BY DEF ThrowsAreForTheClosed, vars, maps, ids, request
  <1> QED
    BY <1>1, <1>2, <1>3, Invariance, PTL DEF Spec

=============================================================================
