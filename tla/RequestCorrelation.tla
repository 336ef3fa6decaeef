------------------------- MODULE RequestCorrelation -------------------------
(***************************************************************************)
(* lib/open-request-correlation.mjs: the guard OpenDexter puts around one  *)
(* MCP session's transport so that a JSON-RPC request id names at most one *)
(* request at a time.  The SDK keys its response streams and abort         *)
(* controllers by request id alone, so a second request with an id still   *)
(* in use would take over the first one's stream.                          *)
(*                                                                         *)
(* An entry of the `active' map is identified by the POST that reserved it *)
(* and its id, <<c, i>>; the map itself holds, for each id, the POST that  *)
(* owns it.  The boolean fields of an entry are the sets dispatched,       *)
(* handlerObserved, handlerDone, terminalStarted and terminalSucceeded.    *)
(* The SDK (Protocol and the streamable HTTP transport) is external: each  *)
(* request it has been given runs the little machine in `sdk'.             *)
(***************************************************************************)
EXTENDS Naturals

CONSTANTS Calls,   \* the HTTP POSTs of the session
          Ids,     \* the JSON-RPC request ids clients use
          None     \* "no owner"

ASSUME NoneAssumption == None \notin Calls

VARIABLES
  phase,             \* per POST: where transport.handleRequest is
  batch,             \* per POST: the request ids its body carries
  active,            \* the map: id -> owning POST, or None
  dispatched,        \* entry.dispatched
  handlerObserved,   \* entry.handlerObserved
  handlerDone,       \* entry.handlerDone
  terminalStarted,   \* entry.terminalStarted
  terminalSucceeded, \* entry.terminalSucceeded
  closed,            \* the session's transport has closed
  sdk,               \* SDK: what it is doing with the request <<c, i>>
  handlerEntry,      \* the entry the wrapped handler of <<c, i>> captured
  sendEntry,         \* the entry the terminal send of <<c, i>> captured
  aborted,           \* SDK: requests whose abort signal has fired
  stream             \* SDK: id -> POST whose response carries the answer

flags == <<dispatched, handlerObserved, handlerDone,
           terminalStarted, terminalSucceeded>>
sdkVars == <<sdk, handlerEntry, sendEntry, aborted, stream>>
vars == <<phase, batch, active, flags, closed, sdkVars>>

Entries == Calls \X Ids

(* new: not arrived; handling: reserved, the SDK has not dispatched it yet; *)
(* dispatched: inside handle(); settled: handleRequest returned; refused:   *)
(* answered 400 or 409 before any reservation.                              *)
Phases == {"new", "handling", "dispatched", "settled", "refused"}

(* queued: the handler is scheduled; unhandled: no handler is registered   *)
(* for the method, so the SDK answers it itself; returned: the handler has *)
(* settled and the SDK is about to answer; failed: the answer could not be *)
(* sent.                                                                   *)
SdkStates == {"idle", "queued", "unhandled", "running", "returned",
              "sending", "failed", "over"}

TypeOK ==
  /\ phase \in [Calls -> Phases]
  /\ batch \in [Calls -> SUBSET Ids]
  /\ active \in [Ids -> Calls \cup {None}]
  /\ dispatched \subseteq Entries
  /\ handlerObserved \subseteq Entries
  /\ handlerDone \subseteq Entries
  /\ terminalStarted \subseteq Entries
  /\ terminalSucceeded \subseteq Entries
  /\ closed \in BOOLEAN
  /\ sdk \in [Entries -> SdkStates]
  /\ handlerEntry \in [Entries -> Calls \cup {None}]
  /\ sendEntry \in [Entries -> Calls \cup {None}]
  /\ aborted \subseteq Entries
  /\ stream \in [Ids -> Calls \cup {None}]

Init ==
  /\ phase = [c \in Calls |-> "new"]
  /\ batch = [c \in Calls |-> {}]
  /\ active = [i \in Ids |-> None]
  /\ dispatched = {}
  /\ handlerObserved = {}
  /\ handlerDone = {}
  /\ terminalStarted = {}
  /\ terminalSucceeded = {}
  /\ closed = FALSE
  /\ sdk = [e \in Entries |-> "idle"]
  /\ handlerEntry = [e \in Entries |-> None]
  /\ sendEntry = [e \in Entries |-> None]
  /\ aborted = {}
  /\ stream = [i \in Ids |-> None]

-----------------------------------------------------------------------------
(* The entry an owner and an id stand for: the empty set when the map has   *)
(* none, so that `if (entry) entry.flag = true' adds it to the flag's set.  *)
EntryOf(c, i) == {<<d, i>> : d \in {c} \ {None}}

(* terminalInFlight counts the sends in progress that captured the entry.   *)
InFlight(c, i, snd) == \E d \in Calls : snd[<<d, i>>] = "sending" /\ sendEntry[<<d, i>>] = c

(* entry.signal is the signal of the handler that captured the entry.       *)
SignalAborted(c, i, ab) ==
  \E d \in Calls : handlerEntry[<<d, i>>] = c /\ <<d, i>> \in ab

(* finish(entry) releases when the answer was sent and the handler is over, *)
(* or when a cancelled handler is over and nothing was ever sent.           *)
MutantReleaseOnAnySend(c, i, done, succ, snd, ab) ==
  \/ <<c, i>> \in terminalStarted /\ ~InFlight(c, i, snd)
  \/ <<c, i>> \in done /\ SignalAborted(c, i, ab)

MutantForgetCancelled(c, i, done, succ, snd, ab) ==
  <<c, i>> \in succ /\ ~InFlight(c, i, snd)

Finished(c, i, done, succ, snd, ab) ==
  \/ /\ <<c, i>> \in succ
     /\ ~InFlight(c, i, snd)
     /\ <<c, i>> \in handlerObserved => <<c, i>> \in done
  \/ /\ <<c, i>> \in done
     /\ SignalAborted(c, i, ab)
     /\ <<c, i>> \notin terminalStarted

(* release(entry): only while the map still holds this very entry.          *)
Release(act, c, i) == IF act[i] = c THEN [act EXCEPT ![i] = None] ELSE act

FinishEntry(c, i, done, succ, snd, ab) ==
  active' = IF c # None /\ Finished(c, i, done, succ, snd, ab)
            THEN Release(active, c, i) ELSE active

-----------------------------------------------------------------------------
(* An id of the batch already has an owner.                                *)
MutantNeverInUse(S) == FALSE

InUse(S) == \E i \in S : active[i] # None

(* Reservations of the POST the SDK never dispatched.                      *)
MutantAllReservations(c) == {i \in batch[c] : active[i] = c}

Undispatched(c) == {i \in batch[c] : active[i] = c /\ <<c, i>> \notin dispatched}

(* handleRequest, the part before its first await: the whole batch is      *)
(* checked against the map and itself, and reserved only if every id is    *)
(* free; S is the set of request ids in the body.                          *)
Reserve(c, S) ==
  /\ phase[c] = "new"
  /\ ~closed
  /\ ~InUse(S)
  /\ phase' = [phase EXCEPT ![c] = "handling"]
  /\ batch' = [batch EXCEPT ![c] = S]
  /\ active' = [i \in Ids |-> IF i \in S THEN c ELSE active[i]]
  /\ UNCHANGED <<flags, closed, sdkVars>>

(* 400 for a message that is not JSON-RPC, 409 for an id in flight or      *)
(* repeated in the batch: nothing is reserved.                             *)
Refuse(c) ==
  /\ phase[c] = "new"
  /\ ~closed
  /\ phase' = [phase EXCEPT ![c] = "refused"]
  /\ UNCHANGED <<batch, active, flags, closed, sdkVars>>

(* After close the guard steps aside; a closed transport dispatches nothing.*)
PassThrough(c) ==
  /\ phase[c] = "new"
  /\ closed
  /\ phase' = [phase EXCEPT ![c] = "settled"]
  /\ UNCHANGED <<batch, active, flags, closed, sdkVars>>

(* The SDK accepts the POST and hands every message to transport.onmessage;*)
(* H are the ids whose method has a registered handler.                    *)
Dispatch(c, H) ==
  /\ phase[c] = "handling"
  /\ ~closed
  /\ phase' = [phase EXCEPT ![c] = "dispatched"]
  /\ dispatched' = dispatched \cup UNION {EntryOf(active[i], i) : i \in batch[c]}
  /\ sdk' = [e \in Entries |->
               IF e[1] = c /\ e[2] \in batch[c]
               THEN IF e[2] \in H THEN "queued" ELSE "unhandled"
               ELSE sdk[e]]
  /\ stream' = [i \in Ids |-> IF i \in batch[c] THEN c ELSE stream[i]]
  /\ UNCHANGED <<batch, active, handlerObserved, handlerDone, terminalStarted,
                 terminalSucceeded, closed, handlerEntry, sendEntry, aborted>>

(* handle() settles, with or without having dispatched (a header the SDK   *)
(* rejects, an exception): what was never dispatched is released.          *)
Settle(c) ==
  /\ phase[c] \in {"handling", "dispatched"}
  /\ phase' = [phase EXCEPT ![c] = "settled"]
  /\ active' = [i \in Ids |-> IF i \in Undispatched(c) THEN None ELSE active[i]]
  /\ UNCHANGED <<batch, flags, closed, sdkVars>>

(* The wrapped handler starts: it looks its entry up by request id and     *)
(* passes through when there is none or it was not dispatched.             *)
HandlerStart(c, i) ==
  LET owner == IF <<active[i], i>> \in dispatched THEN active[i] ELSE None IN
  /\ sdk[<<c, i>>] = "queued"
  /\ sdk' = [sdk EXCEPT ![<<c, i>>] = "running"]
  /\ handlerEntry' = [handlerEntry EXCEPT ![<<c, i>>] = owner]
  /\ handlerObserved' = handlerObserved \cup EntryOf(owner, i)
  /\ UNCHANGED <<phase, batch, active, dispatched, handlerDone, terminalStarted,
                 terminalSucceeded, closed, sendEntry, aborted, stream>>

(* ping and initialize are registered before observeServer wraps the       *)
(* registration: their handlers run without touching the entry.            *)
BuiltinHandler(c, i) ==
  /\ sdk[<<c, i>>] = "queued"
  /\ sdk' = [sdk EXCEPT ![<<c, i>>] = "returned"]
  /\ UNCHANGED <<phase, batch, active, flags, closed,
                 handlerEntry, sendEntry, aborted, stream>>

(* The wrapped handler settles: its finally block.                         *)
HandlerReturn(c, i) ==
  LET owner == handlerEntry[<<c, i>>] IN
  /\ sdk[<<c, i>>] = "running"
  /\ sdk' = [sdk EXCEPT ![<<c, i>>] = "returned"]
  /\ handlerDone' = handlerDone \cup EntryOf(owner, i)
  /\ FinishEntry(owner, i, handlerDone', terminalSucceeded, sdk, aborted)
  /\ UNCHANGED <<phase, batch, dispatched, handlerObserved, terminalStarted,
                 terminalSucceeded, closed, handlerEntry, sendEntry, aborted, stream>>

(* notifications/cancelled: the SDK fires the request's abort signal, and  *)
(* the entry's onAbort listener, installed by the wrapped handler, runs.   *)
Cancel(c, i) ==
  LET owner == handlerEntry[<<c, i>>] IN
  /\ sdk[<<c, i>>] \in {"queued", "running", "returned", "sending"}
  /\ <<c, i>> \notin aborted
  /\ aborted' = aborted \cup {<<c, i>>}
  /\ FinishEntry(owner, i, handlerDone, terminalSucceeded, sdk, aborted')
  /\ UNCHANGED <<phase, batch, flags, closed, sdk, handlerEntry, sendEntry, stream>>

(* The SDK drops the answer of an aborted request.                         *)
Suppress(c, i) ==
  /\ sdk[<<c, i>>] = "returned"
  /\ <<c, i>> \in aborted
  /\ sdk' = [sdk EXCEPT ![<<c, i>>] = "over"]
  /\ UNCHANGED <<phase, batch, active, flags, closed,
                 handlerEntry, sendEntry, aborted, stream>>

(* transport.send with a result or an error, up to its await.              *)
StartSend(c, i) ==
  /\ sdk' = [sdk EXCEPT ![<<c, i>>] = "sending"]
  /\ sendEntry' = [sendEntry EXCEPT ![<<c, i>>] = active[i]]
  /\ terminalStarted' = terminalStarted \cup EntryOf(active[i], i)
  /\ UNCHANGED <<phase, batch, active, dispatched, handlerObserved, handlerDone,
                 terminalSucceeded, closed, handlerEntry, aborted, stream>>

SendAnswer(c, i) ==
  /\ \/ sdk[<<c, i>>] = "unhandled"
     \/ sdk[<<c, i>>] = "returned" /\ <<c, i>> \notin aborted
  /\ StartSend(c, i)

(* "A rejected send can be followed by another terminal send."             *)
SendFallback(c, i) ==
  /\ sdk[<<c, i>>] = "failed"
  /\ StartSend(c, i)

(* The send settles: its try, catch and finally.                           *)
SendSucceeds(c, i) ==
  LET owner == sendEntry[<<c, i>>] IN
  /\ sdk[<<c, i>>] = "sending"
  /\ stream[i] # None
  /\ sdk' = [sdk EXCEPT ![<<c, i>>] = "over"]
  /\ terminalSucceeded' = terminalSucceeded \cup EntryOf(owner, i)
  /\ FinishEntry(owner, i, handlerDone, terminalSucceeded', sdk', aborted)
  /\ UNCHANGED <<phase, batch, dispatched, handlerObserved, handlerDone,
                 terminalStarted, closed, handlerEntry, sendEntry, aborted, stream>>

SendFails(c, i) ==
  LET owner == sendEntry[<<c, i>>] IN
  /\ sdk[<<c, i>>] = "sending"
  /\ sdk' = [sdk EXCEPT ![<<c, i>>] = "failed"]
  /\ FinishEntry(owner, i, handlerDone, terminalSucceeded, sdk', aborted)
  /\ UNCHANGED <<phase, batch, flags, closed, handlerEntry, sendEntry, aborted, stream>>

(* The HTTP response closes early: the SDK forgets the streams it carried. *)
(* The guard only logs it.                                                 *)
Disconnect(c) ==
  /\ \E i \in Ids : stream[i] = c
  /\ stream' = [i \in Ids |-> IF stream[i] = c THEN None ELSE stream[i]]
  /\ UNCHANGED <<phase, batch, active, flags, closed,
                 sdk, handlerEntry, sendEntry, aborted>>

(* transport.onclose: every reservation is dropped at once.                *)
Close ==
  /\ ~closed
  /\ closed' = TRUE
  /\ active' = [i \in Ids |-> None]
  /\ stream' = [i \in Ids |-> None]
  /\ UNCHANGED <<phase, batch, flags, sdk, handlerEntry, sendEntry, aborted>>

PostStep(c) ==
  \/ \E S \in SUBSET Ids : Reserve(c, S)
  \/ Refuse(c)
  \/ PassThrough(c)
  \/ \E H \in SUBSET Ids : Dispatch(c, H)
  \/ Settle(c)
  \/ Disconnect(c)

HandlerStep(c, i) ==
  \/ HandlerStart(c, i)
  \/ BuiltinHandler(c, i)
  \/ HandlerReturn(c, i)
  \/ Cancel(c, i)
  \/ Suppress(c, i)

SendStep(c, i) ==
  \/ SendAnswer(c, i)
  \/ SendFallback(c, i)
  \/ SendSucceeds(c, i)
  \/ SendFails(c, i)

Next ==
  \/ \E c \in Calls : PostStep(c)
  \/ \E c \in Calls, i \in Ids : HandlerStep(c, i) \/ SendStep(c, i)
  \/ Close

Spec == Init /\ [][Next]_vars

(* The SDK's own steps do not stop half way: a POST it was given is         *)
(* dispatched or settles, a handler it scheduled runs and returns (every   *)
(* tool bounds its upstream calls by a timeout), and a send settles.       *)
SdkProgress(c, i) ==
  \/ HandlerStart(c, i) \/ BuiltinHandler(c, i) \/ HandlerReturn(c, i)
  \/ Suppress(c, i) \/ SendAnswer(c, i) \/ SendSucceeds(c, i) \/ SendFails(c, i)

Fairness ==
  /\ \A c \in Calls : WF_vars(Settle(c))
  /\ \A c \in Calls, i \in Ids : WF_vars(SdkProgress(c, i))

FairSpec == Spec /\ Fairness

-----------------------------------------------------------------------------
(* Live: the SDK can still run or answer this request.                      *)
Live(c, i) ==
  \/ sdk[<<c, i>>] \in {"queued", "unhandled", "running", "sending", "failed"}
  \/ sdk[<<c, i>>] = "returned" /\ <<c, i>> \notin aborted

(* An id names at most one live request, whatever is duplicated, retried,  *)
(* cancelled or disconnected: what "protect the SDK's per-session          *)
(* request-ID maps" (line 16) promises.                                    *)
OneLiveRequestPerId ==
  \A i \in Ids : \A c, d \in Calls : Live(c, i) /\ Live(d, i) => c = d

(* While the session is open a request the SDK can still answer is the     *)
(* owner of its id, so that nobody else can be given the id: the guard     *)
(* never lets go early, not after a failed send, a disconnect or a cancel. *)
LiveRequestKeepsItsId ==
  ~closed => \A c \in Calls, i \in Ids : Live(c, i) => active[i] = c

(* An answer can only go out on the response of the POST that asked: a     *)
(* later POST with the same id never takes the stream over (the test       *)
(* "overlapping duplicate cannot replace the original SDK stream").        *)
AnswersGoHome ==
  \A c \in Calls, i \in Ids : Live(c, i) => stream[i] \in {c, None}

(* An id changes hands only when its owner is over, was never dispatched,  *)
(* or the session closes: a late finish of an old entry cannot release the *)
(* entry that replaced it (the identity test in release and finish).       *)
ReleaseIsJustified ==
  \A c \in Calls, i \in Ids :
    active[i] = c /\ active'[i] # c =>
      \/ closed'
      \/ ~Live(c, i)' /\ (<<c, i>> \in dispatched \/ phase'[c] = "settled")

ReleasedOnlyWhenOver == [][ReleaseIsJustified]_vars

(* Ownership comes back: a reserved id is eventually free again, except in *)
(* the cases the code retains on purpose, a send that failed, and one it   *)
(* does not see, a request cancelled before a handler it does not observe  *)
(* has answered.                                                           *)
Stranded(c, i) ==
  \/ sdk[<<c, i>>] = "failed"
  \/ <<c, i>> \in aborted /\ <<c, i>> \notin handlerObserved

IdsComeBack ==
  \A c \in Calls, i \in Ids :
    active[i] = c ~> (active[i] # c \/ Stranded(c, i))

(* What that leaves behind: an id is held for a POST the SDK has not looked  *)
(* at yet, for a request it can still answer, or for one cancelled before a  *)
(* handler the guard does not observe has answered.  In any other state an   *)
(* owner would have missed the finish that was to release it.               *)
OwnersAreWaitedFor ==
  \A c \in Calls, i \in Ids :
    active[i] = c =>
      \/ phase[c] = "handling"
      \/ Live(c, i)
      \/ <<c, i>> \in aborted \ handlerObserved

-----------------------------------------------------------------------------
(* The inductive invariant behind the safety properties.                    *)

(* Who may hold an id, and that a POST still being handled holds its own.  *)
OwnersAreCurrent ==
  /\ \A c \in Calls, i \in Ids :
       active[i] = c => phase[c] \in {"handling", "dispatched", "settled"}
  /\ \A c \in Calls : \A i \in batch[c] :
       phase[c] = "handling" /\ ~closed => active[i] = c
  /\ closed => \A i \in Ids : active[i] = None

(* The SDK knows a request only once its POST was dispatched.              *)
SdkFollowsDispatch ==
  \A c \in Calls, i \in Ids :
    sdk[<<c, i>>] # "idle" \/ <<c, i>> \in dispatched =>
      phase[c] \in {"dispatched", "settled"}

(* Handlers and sends capture their own entry or none.                     *)
CapturesAreOwn ==
  \A c \in Calls, i \in Ids :
    /\ handlerEntry[<<c, i>>] \in {c, None}
    /\ sendEntry[<<c, i>>] \in {c, None}

(* What the entry's flags say of the SDK.                                  *)
FlagsFollowSdk ==
  \A c \in Calls, i \in Ids :
    /\ <<c, i>> \in handlerDone =>
         sdk[<<c, i>>] \in {"returned", "sending", "failed", "over"}
    /\ <<c, i>> \in terminalSucceeded => sdk[<<c, i>>] = "over"
    /\ ~closed /\ sdk[<<c, i>>] \in {"sending", "failed"} => <<c, i>> \in terminalStarted

LiveIsDispatchedOwner ==
  ~closed => \A c \in Calls, i \in Ids :
               Live(c, i) => active[i] = c /\ <<c, i>> \in dispatched

IInv ==
  /\ TypeOK
  /\ OwnersAreCurrent
  /\ SdkFollowsDispatch
  /\ CapturesAreOwn
  /\ FlagsFollowSdk
  /\ LiveIsDispatchedOwner
  /\ OneLiveRequestPerId
  /\ AnswersGoHome

(* An id is held for a POST that brought it; a handler or a send that runs   *)
(* for the owner has its entry.                                             *)
OwnersAreCaptured ==
  \A c \in Calls, i \in Ids :
    /\ active[i] = c => i \in batch[c]
    /\ active[i] = c /\ sdk[<<c, i>>] = "running" => <<c, i>> \in handlerObserved
    /\ active[i] = c /\ sdk[<<c, i>>] = "sending" => sendEntry[<<c, i>>] = c
    /\ <<c, i>> \in handlerObserved => handlerEntry[<<c, i>>] = c

(* What a flag says has begun, the SDK has come to.                         *)
SdkFollowsFlags ==
  \A c \in Calls, i \in Ids :
    /\ <<c, i>> \in handlerObserved =>
         <<c, i>> \in handlerDone \/ sdk[<<c, i>>] = "running"
    /\ <<c, i>> \in terminalStarted => sdk[<<c, i>>] \in {"sending", "failed", "over"}

Reclaims == OwnersAreWaitedFor /\ OwnersAreCaptured /\ SdkFollowsFlags

-----------------------------------------------------------------------------
(* The guard implements the lock of RequestOwnership: the map is the owner *)
(* function, the exchanges under way are the SDK's live requests.          *)
Ownership == INSTANCE RequestOwnership
  WITH owner <- active, open <- {e \in Entries : Live(e[1], e[2])}, ended <- closed

ImplementsOwnership == Ownership!Spec
=============================================================================
