--------------------------- MODULE ToolInvocation ---------------------------
(***************************************************************************)
(* apps-sdk/ui/src/sdk/tool-invocation-lifecycle.ts: the store of a widget   *)
(* that decides which tool call the widget shows.  Two channels feed it, the *)
(* MCP Apps bridge and ChatGPT's globals (adapter.ts), each with its own     *)
(* idea of the call's identity, in any order, beside one timer per record.   *)
(* Each event is handled in one go, so an operator maps store to store.      *)
(***************************************************************************)
EXTENDS Naturals, Sequences, SequencesExt, FiniteSets

CONSTANTS Tools, RequestIds, WidgetSessions, MaxRecords, None

ASSUME NoneIsNothing == None \notin Tools \cup RequestIds \cup WidgetSessions
ASSUME RoomForTwo == MaxRecords \in Nat /\ MaxRecords >= 2

VARIABLE store

-----------------------------------------------------------------------------
(* Identities; a record's key is its identity.                             *)
Identity == [tool : Tools \cup {None}, request : RequestIds \cup {None},
             session : WidgetSessions \cup {None}]

Anonymous == [tool |-> None, request |-> None, session |-> None]

(* What a server binding names, and what a host context may name.           *)
Bindings == {id \in Identity : id.tool # None /\ id.request # None}
Contexts == {id \in Identity : id.tool # None}

(* The _meta of a result: none, without a binding, with a broken one, or     *)
(* with the binding of a call.                                             *)
Tag(kind) == [kind |-> kind, id |-> Anonymous]
BoundTo(id) == [kind |-> "bound", id |-> id]

Metas == {Tag(kind) : kind \in {"none", "plain", "invalid"}} \cup {BoundTo(id) : id \in Bindings}
Bound(meta) == meta.kind = "bound"
Unbound(meta) == meta.kind \in {"none", "plain"}

(* The origin of an output: the call its binding names, or none.            *)
Nothing == Tag("nothing")
Origins == {Nothing, Tag("unbound")} \cup {BoundTo(id) : id \in Bindings}
Origin(meta) == IF Bound(meta) THEN meta ELSE Tag("unbound")

OrElse(a, b) == IF a # None THEN a ELSE b
Agree(a, b) == a = None \/ b = None \/ a = b

(* Mutant: any request of the tool will do.                                 *)
MutantAnyRequest(expected, actual) ==
  expected.tool \in {None, actual.tool} /\ Agree(expected.session, actual.session)

SameIdentity(expected, actual) ==
  /\ expected.tool \in {None, actual.tool}
  /\ expected.request \in {None, actual.request}
  /\ Agree(expected.session, actual.session)

Compatible(left, right) == \A part \in DOMAIN left : Agree(left[part], right[part])

Merge(id, more) == [part \in DOMAIN id |-> OrElse(id[part], more[part])]

-----------------------------------------------------------------------------
Statuses == {"waiting", "running", "ready", "cancelled", "malformed", "timed_out"}
Terminal == {"ready", "cancelled"}

(* output is where the output came from; hydrates marks                    *)
(* initialLegacyHydrationRecord.                                           *)
Record ==
  [status : Statuses, input : BOOLEAN, output : Origins,
   metadata : BOOLEAN, trusted : BOOLEAN, acceptedUnbound : BOOLEAN,
   legacySession : WidgetSessions \cup {None}, hydrates : BOOLEAN, timer : BOOLEAN]

NewRecord(trusted) ==
  [status |-> "waiting", input |-> FALSE, output |-> Nothing, metadata |-> FALSE,
   trusted |-> trusted, acceptedUnbound |-> FALSE, legacySession |-> None,
   hydrates |-> FALSE, timer |-> TRUE]

(* records with the insertion order of its keys; hydration says whether the  *)
(* one unbound snapshot is still free, armed for a record, or consumed.     *)
WellFormed(s) ==
  /\ s = [records |-> s.records, order |-> s.order, active |-> s.active,
          hydration |-> s.hydration]
  /\ s.records \in [DOMAIN s.records -> Record]
  /\ DOMAIN s.records \subseteq Identity
  /\ s.order \in Seq(Identity)
  /\ ToSet(s.order) = DOMAIN s.records /\ IsInjective(s.order)
  /\ Len(s.order) <= MaxRecords
  /\ s.active \in DOMAIN s.records
  /\ s.hydration \in {"free", "armed", "consumed"}

TypeOK == WellFormed(store)

Init ==
  store = [records |-> [k \in {Anonymous} |-> NewRecord(FALSE)],
           order |-> <<Anonymous>>, active |-> Anonymous, hydration |-> "free"]

-----------------------------------------------------------------------------
(* The parts the handlers are made of.                                     *)
Active(s) == s.records[s.active]

SetRecord(s, k, r) == [s EXCEPT !.records[k] = r]

Without(f, k) == [j \in DOMAIN f \ {k} |-> f[j]]
With(f, k, v) == [j \in DOMAIN f \cup {k} |-> IF j = k THEN v ELSE f[j]]

PositionOf(order, k) == CHOOSE i \in DOMAIN order : order[i] = k

(* Mutant: the active record is not spared.                                 *)
MutantPruneOldest(s) ==
  IF Len(s.order) <= MaxRecords THEN s
  ELSE [s EXCEPT !.records = Without(@, Head(s.order)), !.order = Tail(@)]

(* pruneRecords: the oldest record that is not active goes.                 *)
Prune(s) ==
  IF Len(s.order) <= MaxRecords THEN s
  ELSE LET first == IF s.order[1] = s.active THEN 2 ELSE 1
       IN [s EXCEPT !.records = Without(@, s.order[first]), !.order = RemoveAt(@, first)]

(* Mutant: what is known of a call is replaced by a new record.             *)
MutantAlwaysCreates(s, id) ==
  Prune([s EXCEPT !.records = With(@, id, NewRecord(TRUE)),
                  !.order = IF id \in ToSet(@) THEN @ ELSE Append(@, id)])

(* An existing record becomes trusted, or a new trusted one is made.        *)
GetOrCreate(s, id) ==
  IF id \in DOMAIN s.records THEN SetRecord(s, id, [s.records[id] EXCEPT !.trusted = TRUE])
  ELSE Prune([s EXCEPT !.records = With(@, id, NewRecord(TRUE)), !.order = Append(@, id)])

Activate(s, id) == GetOrCreate([s EXCEPT !.active = id], id)

(* rekeyActiveRecord; whatever record had the new key is overwritten, in its *)
(* place in the order.                                                     *)
Rekey(s, k, id) ==
  IF k = id THEN s
  ELSE [s EXCEPT
          !.records = With(Without(@, k), id, s.records[k]),
          !.order = LET rest == RemoveAt(@, PositionOf(@, k))
                    IN IF id \in ToSet(rest) THEN rest ELSE Append(rest, id),
          !.active = id]

MarkMalformed(s, k) ==
  IF s.records[k].status = "timed_out" THEN s
  ELSE SetRecord(s, k, [s.records[k] EXCEPT !.status = "malformed", !.output = Nothing])

(* A usable output arrives at a record; the timer is cleared.               *)
Ready(r, meta) ==
  [r EXCEPT !.status = "ready", !.output = Origin(meta),
            !.metadata = meta.kind # "none", !.timer = FALSE]

(* enrichReadyMetadata: the metadata may complete an output, once.          *)
EnrichReady(s, meta) ==
  LET r == Active(s)
      id == Merge(Merge(s.active, meta.id), [Anonymous EXCEPT !.session = r.legacySession])
  IN IF /\ r.status = "ready" /\ ~r.metadata /\ r.trusted
        /\ Bound(meta) /\ SameIdentity(s.active, meta.id)
     THEN SetRecord(Rekey(s, s.active, id), id, [r EXCEPT !.metadata = TRUE])
     ELSE s

(* The active record holds an unbound output nobody has claimed yet.        *)
Unclaimed(r) == r.status = "ready" /\ ~r.trusted /\ r.acceptedUnbound

StageBoundResult(s, meta, usable) ==
  LET t == GetOrCreate(s, meta.id)
      r == t.records[meta.id]
  IN IF r.status \in Terminal THEN t
     ELSE IF usable THEN SetRecord(t, meta.id, Ready(r, meta)) ELSE MarkMalformed(t, meta.id)

-----------------------------------------------------------------------------
(* Mutant: a late input hides the timeout.                                  *)
MutantInputRevives(s) ==
  IF Active(s).status \in Terminal THEN s
  ELSE SetRecord(s, s.active, [Active(s) EXCEPT !.input = TRUE, !.status = "running"])

(* acceptInput.                                                            *)
AcceptInput(s) ==
  LET r == Active(s)
  IN IF r.status \in Terminal THEN s
     ELSE IF r.status = "timed_out" THEN SetRecord(s, s.active, [r EXCEPT !.input = TRUE])
     ELSE SetRecord(s, s.active, [r EXCEPT !.input = TRUE, !.status = "running"])

(* The end of acceptResult, once the result is known to be the record's.    *)
Attach(s, meta, usable, session) ==
  LET r == Active(s)
  IN IF ~usable THEN MarkMalformed(s, s.active)
     ELSE IF Bound(meta) THEN SetRecord(s, s.active, Ready(r, meta))
     ELSE SetRecord(s, s.active, [Ready(r, meta) EXCEPT !.acceptedUnbound = TRUE,
                                                        !.legacySession = session])

(* acceptResult; allow is the permission to attach an unbound snapshot, which *)
(* only acceptChatGptGlobals gives.                                        *)
AcceptResult(s, source, meta, usable, allow, session) ==
  LET r == Active(s) IN
  CASE r.status = "cancelled" -> s
    [] r.status = "ready" ->
         IF source = "mcp-apps" /\ Unclaimed(r) /\ Bound(meta)
         THEN StageBoundResult(s, meta, usable) ELSE EnrichReady(s, meta)
    [] r.status \notin Terminal /\ Bound(meta) ->
         IF ~r.trusted THEN Attach(Activate(s, meta.id), meta, usable, session)
         ELSE IF SameIdentity(s.active, meta.id)
         THEN Attach(Rekey(s, s.active, Merge(s.active, meta.id)), meta, usable, session)
         ELSE s
    [] r.status \notin Terminal /\ meta.kind = "invalid" -> MarkMalformed(s, s.active)
    [] r.status \notin Terminal /\ Unbound(meta) ->
         IF source = "chatgpt" /\ allow THEN Attach(s, meta, usable, session)
         ELSE IF source = "chatgpt" /\ r.trusted THEN s
         ELSE MarkMalformed(s, s.active)

(* acceptMetadata: while an unbound output waits for its owner, a binding    *)
(* only proves that a call exists.                                         *)
AcceptMetadata(s, meta) ==
  IF Unclaimed(Active(s)) /\ Bound(meta) THEN GetOrCreate(s, meta.id) ELSE EnrichReady(s, meta)

(* The session the globals name.                                           *)
GlobalSession(meta, session) ==
  OrElse(session, meta.id.session)

Named(meta, session) == [meta.id EXCEPT !.session = OrElse(@, session)]

(* An anonymous or trusted record that has no output and no metadata yet,    *)
(* in a session the globals can be of.                                     *)
Pristine(s, session) ==
  LET r == Active(s) IN
  /\ r.output = Nothing /\ ~r.metadata
  /\ r.trusted \/ (s.active.tool = None /\ s.active.request = None)
  /\ Agree(session, s.active.session)

(* acceptChatGptGlobals, step by step: activate a bound call, arm the one     *)
(* unbound snapshot, take the input, then the output or the metadata.       *)
AdoptBinding(s, meta, session) ==
  IF ~Active(s).trusted /\ Bound(meta) /\ Active(s).status \notin Terminal
  THEN Activate(s, Named(meta, session)) ELSE s

(* Mutant: every call may have an unbound snapshot.                         *)
MutantArmAgain(s, meta, session, allow) ==
  IF allow /\ Unbound(meta) /\ Active(s).status = "waiting" /\ Pristine(s, session)
  THEN SetRecord([s EXCEPT !.hydration = "armed"], s.active,
                 [Active(s) EXCEPT !.hydrates = TRUE, !.legacySession = session])
  ELSE s

ArmHydration(s, meta, session, allow) ==
  IF /\ allow /\ s.hydration = "free" /\ Unbound(meta)
     /\ Active(s).status = "waiting" /\ ~Active(s).input /\ Pristine(s, session)
  THEN SetRecord([s EXCEPT !.hydration = "armed"], s.active,
                 [Active(s) EXCEPT !.hydrates = TRUE, !.legacySession = session])
  ELSE s

HydrationAvailable(s) == s.hydration = "armed" /\ Active(s).hydrates

MayAttachUnbound(s, output, meta, session) ==
  /\ HydrationAvailable(s) /\ Unbound(meta) /\ output
  /\ Active(s).status \notin Terminal
  /\ Pristine(s, session)
  /\ Agree(session, Active(s).legacySession)

MayTakeInput(s, output, meta, session, allow) ==
  \/ ~Active(s).trusted
  \/ Bound(meta) /\ SameIdentity(s.active, Named(meta, session))
  \/ /\ HydrationAvailable(s) /\ Unbound(meta)
     /\ allow \/ MayAttachUnbound(s, output, meta, session)

AcceptGlobals(s, input, output, meta, given, allow) ==
  LET session == GlobalSession(meta, given)
      armed == ArmHydration(AdoptBinding(s, meta, session), meta, session, allow)
      attach == MayAttachUnbound(armed, output, meta, session)
      fed == IF input /\ MayTakeInput(armed, output, meta, session, allow)
             THEN AcceptInput(armed) ELSE armed
      spent == IF attach THEN [fed EXCEPT !.hydration = "consumed"] ELSE fed
  IN IF output THEN AcceptResult(spent, "chatgpt", meta, TRUE, attach, session)
     ELSE IF meta.kind # "none" THEN AcceptMetadata(spent, meta)
     ELSE spent

-----------------------------------------------------------------------------
(* activateHostContext: the records that may be the call the host names.    *)
Staged(s, id) ==
  LET others == {k \in DOMAIN s.records \ {s.active} : s.records[k].trusted}
  IN IF id \in others THEN {id} ELSE {k \in others : Compatible(k, id)}

(* Mutant: a cancellation that comes before the context is not kept.        *)
MutantCancelledIsReplaced(s, id) ==
  LET r == Active(s) IN
  /\ ~r.trusted /\ s.active.tool = None /\ s.active.request = None
  /\ Agree(r.legacySession, id.session)
  /\ (r.status # "cancelled" /\ r.hydrates) \/ (r.acceptedUnbound /\ r.status = "ready")

(* An anonymous record the first context may claim: cancelled, armed for the *)
(* unbound snapshot, or holding it.                                        *)
Claimable(s, id) ==
  LET r == Active(s) IN
  /\ ~r.trusted /\ s.active.tool = None /\ s.active.request = None
  /\ Agree(r.legacySession, id.session)
  /\ r.status = "cancelled" \/ r.hydrates \/ (r.acceptedUnbound /\ r.status = "ready")

(* A cancelled record takes the context's identity as it is, the others add  *)
(* the session of their snapshot.                                          *)
ClaimedAs(r, id) ==
  IF r.status = "cancelled" THEN id ELSE [id EXCEPT !.session = OrElse(@, r.legacySession)]

ActivateHostContext(s, id) ==
  LET r == Active(s)
      staged == Staged(s, id)
  IN IF r.trusted /\ Compatible(id, s.active)
     THEN Rekey(s, s.active, Merge(s.active, id))
     ELSE IF Cardinality(staged) = 1
     THEN LET k == CHOOSE j \in staged : TRUE
          IN Rekey([s EXCEPT !.active = k], k, Merge(k, id))
     ELSE IF staged # {} THEN s
     ELSE IF Claimable(s, id)
     THEN Rekey(SetRecord(s, s.active, [r EXCEPT !.trusted = TRUE]), s.active,
                ClaimedAs(r, id))
     ELSE Activate(s, id)

(* cancel.                                                                 *)
Cancelled(s) ==
  LET r == Active(s)
  IN IF r.status \in Terminal THEN s
     ELSE SetRecord(s, s.active,
                    [r EXCEPT !.status = "cancelled", !.output = Nothing, !.timer = FALSE])

-----------------------------------------------------------------------------
(* Notifications of the MCP Apps bridge.                                   *)
HostContext(id) == store' = ActivateHostContext(store, id)
ToolInput == store' = AcceptInput(store)
ToolResult(meta, usable) ==
  store' = AcceptResult(store, "mcp-apps", meta, usable, FALSE, None)
ToolCancelled == store' = Cancelled(store)

(* ChatGPT's globals, as a change of them or as a snapshot (allow).         *)
Globals(input, output, meta, session, allow) ==
  store' = AcceptGlobals(store, input, output, meta, session, allow)

(* The timer of a record runs out.                                         *)
Timeout(k) ==
  /\ k \in DOMAIN store.records
  /\ store.records[k].timer
  /\ store' = SetRecord(store, k, [store.records[k] EXCEPT
                                     !.timer = FALSE, !.status = "timed_out", !.output = Nothing])

Next ==
  \/ \E id \in Contexts : HostContext(id)
  \/ ToolInput
  \/ \E meta \in Metas, usable \in BOOLEAN : ToolResult(meta, usable)
  \/ ToolCancelled
  \/ \E input, output, allow \in BOOLEAN, meta \in Metas,
        session \in WidgetSessions \cup {None} : Globals(input, output, meta, session, allow)
  \/ \E k \in Identity : Timeout(k)

vars == store
Spec == Init /\ [][Next]_vars

-----------------------------------------------------------------------------
(* An output is shown only by the call its binding names: the host's late,   *)
(* duplicated or swapped results never cross calls (acceptResult, lines 400  *)
(* to 441; stageBoundResult), through merges of identities too (266 to 275).  *)
OutputsBelong ==
  \A k \in DOMAIN store.records :
    LET origin == store.records[k].output IN
    Bound(origin) => /\ k.tool = origin.id.tool /\ k.request = origin.id.request
                     /\ Agree(k.session, origin.id.session)

(* An output without a binding belongs to one call at most: the permission   *)
(* of the first snapshot is used once and does not move to a later call      *)
(* (lines 302 to 304 and 511 to 562), whoever is activated in between.       *)
OneUnboundOutput ==
  \A k, j \in DOMAIN store.records :
    store.records[k].output = Tag("unbound") /\ store.records[j].output = Tag("unbound") => j = k

(* The call a record is known to be of.                                     *)
Owner(s) == Merge(s.active, [Anonymous EXCEPT !.session = Active(s).legacySession])

SameOutcome(r, q) == r.status = q.status /\ r.output = q.output
Refines(k, j) == \A part \in DOMAIN k : k[part] \in {None, j[part]}

Shown(s, t) == Refines(s.active, t.active) /\ SameOutcome(Active(s), Active(t))

Stored(s, t) ==
  \/ s.active \in DOMAIN t.records /\ SameOutcome(Active(s), t.records[s.active])
  \/ s.active \notin DOMAIN t.records /\ Len(s.order) = MaxRecords

(* What came on the screen is another call, or was known beside a call that   *)
(* nobody had claimed.                                                     *)
Another(s, t) ==
  \/ ~Compatible(Owner(s), t.active)
  \/ /\ ~Active(s).trusted
     /\ \E j \in DOMAIN s.records \ {s.active} :
          s.records[j].trusted /\ Compatible(j, t.active)

OutcomeKept(s, t) ==
  Active(s).status \in Terminal => Shown(s, t) \/ (Stored(s, t) /\ Another(s, t))

(* What becomes of a finished call k that is not on the screen: it stays, it  *)
(* comes on the screen, it is pruned, or the shown call takes its name.      *)
OffScreen(s) == DOMAIN s.records \ {s.active}

Keeps(s, t, k) == k \in OffScreen(t) /\ SameOutcome(s.records[k], t.records[k])
Returns(s, t, k) == Refines(k, t.active) /\ SameOutcome(s.records[k], Active(t))
IsPruned(s, t, k) == k \notin DOMAIN t.records /\ Len(s.order) = MaxRecords
IsTheShown(s, t, k) == Active(s).trusted /\ Refines(s.active, k) /\ t.active = k

OthersKept(s, t) ==
  \A k \in OffScreen(s) :
    s.records[k].status \in Terminal =>
      Keeps(s, t, k) \/ Returns(s, t, k) \/ IsPruned(s, t, k) \/ IsTheShown(s, t, k)

(* A finished call on the screen keeps its outcome, under a name that only   *)
(* grows, until a context names another call, or one whose own record was    *)
(* staged while an unclaimed output was shown; the record then stays for a   *)
(* return unless it is pruned.  Nothing else (late input, result, metadata,  *)
(* cancellation, timer, first context) undoes it: lines 283 to 346, 387 to   *)
(* 398, 601, 756, 840 to 842.  Neither does anything undo that of a finished  *)
(* call beside the screen (a duplicate of its result or of its metadata, 462  *)
(* to 475 and 677 to 724), unless the shown call turns out to be the same.   *)
OutcomesStay == [][OutcomeKept(store, store') /\ OthersKept(store, store')]_vars

Pending == {"waiting", "running", "malformed"}

(* A call without an outcome has a timer that will end the wait; "a delayed  *)
(* input ... cannot ... leave the view running forever without another        *)
(* deadline" (lines 357 to 362), nor can a malformed result, a new name or a  *)
(* return to an older call.                                                *)
WaitsHaveADeadline ==
  \A k \in DOMAIN store.records :
    store.records[k].status \in Pending => store.records[k].timer

-----------------------------------------------------------------------------
(* The inductive strengthening, of a store.                                 *)

(* The key of a record knows all that the binding of its output names, its    *)
(* timer runs as long as it waits, and only the first record is nobody's.     *)
Fits(k, r) ==
  /\ Bound(r.output) => Refines(r.output.id, k)
  /\ r.timer <=> r.status \in Pending
  /\ ~r.trusted => k = Anonymous /\ (r.status = "ready" => r.acceptedUnbound)

RecordsFit(s) == \A k \in DOMAIN s.records : Fits(k, s.records[k])

(* Until its first call is known a store has one record, but for calls        *)
(* staged while an unclaimed output is shown.                               *)
FirstIsAlone(s) ==
  ~Active(s).trusted /\ Active(s).status # "ready" => DOMAIN s.records = {s.active}

(* An unbound output is that of the one record it was armed for.            *)
OneHydrates(s) ==
  \A k \in DOMAIN s.records :
    /\ s.records[k].hydrates =>
         /\ s.hydration # "free"
         /\ \A j \in DOMAIN s.records : s.records[j].hydrates => j = k
    /\ s.records[k].output = Tag("unbound") =>
         s.records[k].hydrates /\ s.hydration = "consumed"

Sound(s) == WellFormed(s) /\ RecordsFit(s) /\ FirstIsAlone(s) /\ OneHydrates(s)

IInv == Sound(store)

=============================================================================
