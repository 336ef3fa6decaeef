---------------------- MODULE RequestCorrelation_proofs ----------------------
(***************************************************************************)
(* Proofs about RequestCorrelation for every set of POSTs and of ids: the  *)
(* inductive invariant IInv, the safety properties that follow from it.    *)
(***************************************************************************)
EXTENDS RequestCorrelation, TLAPS

USE NoneAssumption

(* finish(entry) can only touch the map at the entry's id, and there only   *)
(* to drop that entry.                                                     *)
LEMMA FinishEntryEffect ==
  ASSUME TypeOK, NEW c \in Calls \cup {None}, NEW i \in Ids,
         NEW done, NEW succ, NEW snd, NEW ab,
         FinishEntry(c, i, done, succ, snd, ab)
  PROVE  /\ active' \in [Ids -> Calls \cup {None}]
         /\ \A j \in Ids : active'[j] # active[j] =>
              /\ j = i /\ active[j] = c /\ active'[j] = None /\ c \in Calls
              /\ Finished(c, i, done, succ, snd, ab)
BY DEF FinishEntry, Release, TypeOK

(* The invariant holds initially: nothing is reserved, nothing runs.        *)
LEMMA InitInv == Init => IInv
BY DEF Init, IInv, TypeOK, Phases, SdkStates, Entries, OwnersAreCurrent, SdkFollowsDispatch,
       CapturesAreOwn, FlagsFollowSdk, LiveIsDispatchedOwner, OneLiveRequestPerId,
       AnswersGoHome, Live

LEMMA ReserveInv == ASSUME IInv, NEW c \in Calls, NEW S \in SUBSET Ids, Reserve(c, S)
                    PROVE  IInv'
<1>1. TypeOK'
  BY DEF IInv, TypeOK, Reserve, flags, sdkVars, Phases
<1>2. OwnersAreCurrent'
  BY DEF IInv, TypeOK, OwnersAreCurrent, Reserve, InUse
<1>3. SdkFollowsDispatch'
  BY DEF IInv, TypeOK, SdkFollowsDispatch, Reserve, flags, sdkVars
<1>4. CapturesAreOwn' /\ FlagsFollowSdk' /\ OneLiveRequestPerId' /\ AnswersGoHome'
  BY DEF IInv, CapturesAreOwn, FlagsFollowSdk, OneLiveRequestPerId, AnswersGoHome,
         Live, Reserve, flags, sdkVars
<1>5. LiveIsDispatchedOwner'
  BY DEF IInv, TypeOK, LiveIsDispatchedOwner, Live, Reserve, InUse, flags, sdkVars
<1> QED BY <1>1, <1>2, <1>3, <1>4, <1>5 DEF IInv

LEMMA RefuseInv == ASSUME IInv, NEW c \in Calls, Refuse(c) \/ PassThrough(c)
                   PROVE  IInv'
<1>1. phase' \in [Calls -> Phases] /\ phase[c] = "new"
      /\ \A d \in Calls : d # c => phase'[d] = phase[d]
  BY DEF IInv, TypeOK, Refuse, PassThrough, Phases
<1>2. UNCHANGED <<batch, active, flags, closed, sdkVars>>
  BY DEF Refuse, PassThrough
<1>3. TypeOK'
  BY <1>1, <1>2 DEF IInv, TypeOK, flags, sdkVars
<1>4. phase'[c] \in {"refused", "settled"}
  BY DEF IInv, TypeOK, Refuse, PassThrough
<1>5. OwnersAreCurrent'
  BY <1>1, <1>2, <1>4 DEF IInv, OwnersAreCurrent
<1>6. SdkFollowsDispatch'
  BY <1>1, <1>2 DEF IInv, SdkFollowsDispatch, flags, sdkVars
<1>7. CapturesAreOwn' /\ FlagsFollowSdk' /\ OneLiveRequestPerId' /\ AnswersGoHome'
      /\ LiveIsDispatchedOwner'
  BY <1>2 DEF IInv, CapturesAreOwn, FlagsFollowSdk, OneLiveRequestPerId, AnswersGoHome,
         LiveIsDispatchedOwner, Live, flags, sdkVars
<1> QED BY <1>3, <1>5, <1>6, <1>7 DEF IInv

LEMMA DispatchInv == ASSUME IInv, NEW c \in Calls, NEW H \in SUBSET Ids, Dispatch(c, H)
                     PROVE  IInv'
<1>0. \A i \in batch[c] : i \in Ids /\ active[i] = c
  BY DEF IInv, TypeOK, OwnersAreCurrent, Dispatch
<1>1. dispatched' = dispatched \cup ({c} \X batch[c])
  BY <1>0 DEF Dispatch, EntryOf
<1>2. \A d \in Calls, i \in Ids : sdk'[<<d, i>>] =
        IF d = c /\ i \in batch[c]
        THEN IF i \in H THEN "queued" ELSE "unhandled" ELSE sdk[<<d, i>>]
  BY DEF Dispatch, Entries
<1>3. TypeOK'
  <2>1. sdk' \in [Entries -> SdkStates]
    BY DEF IInv, TypeOK, Dispatch, SdkStates
  <2>2. dispatched' \subseteq Entries
    BY <1>1 DEF IInv, TypeOK, Entries
  <2> QED BY <2>1, <2>2 DEF IInv, TypeOK, Dispatch, Phases
<1>4. OwnersAreCurrent'
  BY DEF IInv, TypeOK, OwnersAreCurrent, Dispatch
<1>5. SdkFollowsDispatch'
  BY <1>1, <1>2 DEF IInv, TypeOK, SdkFollowsDispatch, Dispatch
<1>6. CapturesAreOwn'
  BY DEF IInv, CapturesAreOwn, Dispatch
<1>7. FlagsFollowSdk'
  <2>1. \A i \in batch[c] : sdk[<<c, i>>] = "idle"
    BY <1>0 DEF IInv, SdkFollowsDispatch, Dispatch
  <2>2. \A i \in batch[c] : <<c, i>> \notin handlerDone /\ <<c, i>> \notin terminalSucceeded
    BY <1>0, <2>1 DEF IInv, FlagsFollowSdk
  <2> SUFFICES ASSUME NEW d \in Calls, NEW j \in Ids
               PROVE  /\ <<d, j>> \in handlerDone =>
                           sdk'[<<d, j>>] \in {"returned", "sending", "failed", "over"}
                      /\ <<d, j>> \in terminalSucceeded => sdk'[<<d, j>>] = "over"
                      /\ ~closed /\ sdk'[<<d, j>>] \in {"sending", "failed"} =>
                           <<d, j>> \in terminalStarted
    BY DEF FlagsFollowSdk, Dispatch
  <2>3. CASE d = c /\ j \in batch[c]
    BY <1>2, <2>2, <2>3
  <2>4. CASE ~(d = c /\ j \in batch[c])
    <3>1. sdk'[<<d, j>>] = sdk[<<d, j>>]
      BY <1>2, <2>4
    <3> QED BY <3>1 DEF IInv, FlagsFollowSdk
  <2> QED BY <2>3, <2>4
<1>8. LiveIsDispatchedOwner'
  BY <1>0, <1>1, <1>2 DEF IInv, LiveIsDispatchedOwner, Live, Dispatch
<1>9. OneLiveRequestPerId'
  BY <1>0, <1>2 DEF IInv, LiveIsDispatchedOwner, OneLiveRequestPerId, Live, Dispatch
<1>10. AnswersGoHome'
  <2>1. \A i \in Ids : stream'[i] = IF i \in batch[c] THEN c ELSE stream[i]
    BY DEF Dispatch
  <2>2. \A d \in Calls, i \in batch[c] : Live(d, i)' => d = c
    BY <1>0, <1>2 DEF IInv, LiveIsDispatchedOwner, Live, Dispatch
  <2> QED BY <1>2, <2>1, <2>2 DEF IInv, AnswersGoHome, Live, Dispatch
<1> QED BY <1>3, <1>4, <1>5, <1>6, <1>7, <1>8, <1>9, <1>10 DEF IInv

LEMMA SettleInv == ASSUME IInv, NEW c \in Calls, Settle(c)
                   PROVE  IInv'
<1>1. TypeOK'
  BY DEF IInv, TypeOK, Settle, Phases, flags, sdkVars
<1>2. OwnersAreCurrent'
  BY DEF IInv, TypeOK, OwnersAreCurrent, Settle, Undispatched
<1>3. SdkFollowsDispatch'
  BY DEF IInv, TypeOK, SdkFollowsDispatch, Settle, flags, sdkVars
<1>4. CapturesAreOwn' /\ FlagsFollowSdk' /\ OneLiveRequestPerId' /\ AnswersGoHome'
  BY DEF IInv, CapturesAreOwn, FlagsFollowSdk, OneLiveRequestPerId, AnswersGoHome,
         Live, Settle, flags, sdkVars
<1>5. LiveIsDispatchedOwner'
  BY DEF IInv, TypeOK, LiveIsDispatchedOwner, Live, Settle, Undispatched, flags, sdkVars
<1> QED BY <1>1, <1>2, <1>3, <1>4, <1>5 DEF IInv

(* A step of one handler or one send: it makes no request live that was not,*)
(* leaves the other requests alone, and if the map changes, it drops the    *)
(* request's own entry as the request ends.                                *)
StepEffect(c, i) ==
  /\ active' \in [Ids -> Calls \cup {None}]
  /\ UNCHANGED <<phase, batch, closed, dispatched, stream>>
  /\ \A d \in Calls, j \in Ids : d # c \/ j # i => (Live(d, j)' <=> Live(d, j))
  /\ Live(c, i)' => Live(c, i)
  /\ \A d \in Calls, j \in Ids : sdk'[<<d, j>>] # "idle" => sdk[<<d, j>>] # "idle"
  /\ sdk[<<c, i>>] # "idle"
  /\ \A j \in Ids : active'[j] # active[j] =>
       j = i /\ active[j] = c /\ active'[j] = None /\ Live(c, i) /\ ~Live(c, i)'

LEMMA OneRequestStep ==
  ASSUME IInv, NEW c \in Calls, NEW i \in Ids, StepEffect(c, i)
  PROVE  /\ OwnersAreCurrent'
         /\ SdkFollowsDispatch'
         /\ LiveIsDispatchedOwner'
         /\ OneLiveRequestPerId'
         /\ AnswersGoHome'
<1>0. \A d \in Calls, j \in Ids : Live(d, j)' => Live(d, j)
  BY DEF StepEffect
<1>1. phase[c] \in {"dispatched", "settled"}
  BY DEF IInv, SdkFollowsDispatch, StepEffect
<1>2. OwnersAreCurrent'
  <2>1. \A d \in Calls, j \in Ids :
          active'[j] = d => phase'[d] \in {"handling", "dispatched", "settled"}
    BY DEF IInv, OwnersAreCurrent, StepEffect
  <2>2. \A d \in Calls : \A j \in batch'[d] :
          phase'[d] = "handling" /\ ~closed' => active'[j] = d
    BY <1>1 DEF IInv, TypeOK, OwnersAreCurrent, StepEffect
  <2>3. closed' => \A j \in Ids : active'[j] = None
    BY DEF IInv, OwnersAreCurrent, StepEffect
  <2> QED BY <2>1, <2>2, <2>3 DEF OwnersAreCurrent
<1>3. SdkFollowsDispatch'
  BY DEF IInv, SdkFollowsDispatch, StepEffect
<1>4. LiveIsDispatchedOwner'
  <2> SUFFICES ASSUME ~closed', NEW d \in Calls, NEW j \in Ids, Live(d, j)'
               PROVE  active'[j] = d /\ <<d, j>> \in dispatched'
    BY DEF LiveIsDispatchedOwner
  <2>1. active[j] = d /\ <<d, j>> \in dispatched
    BY <1>0 DEF IInv, LiveIsDispatchedOwner, StepEffect
  <2>2. active'[j] = active[j]
    BY <2>1 DEF StepEffect
  <2> QED BY <2>1, <2>2 DEF StepEffect
<1>5. OneLiveRequestPerId'
  BY <1>0 DEF IInv, OneLiveRequestPerId
<1>6. AnswersGoHome'
  BY <1>0 DEF IInv, AnswersGoHome, StepEffect
<1> QED BY <1>2, <1>3, <1>4, <1>5, <1>6

(* A signal that fired on an entry is its own handler's signal.             *)
LEMMA OwnSignal ==
  ASSUME IInv, NEW c \in Calls, NEW i \in Ids, NEW ab, SignalAborted(c, i, ab)
  PROVE  <<c, i>> \in ab
BY DEF SignalAborted, IInv, CapturesAreOwn

(* The flags after a step of the request <<c, i>> that leaves it in st.      *)
LEMMA FlagsStep ==
  ASSUME FlagsFollowSdk, NEW c \in Calls, NEW i \in Ids, NEW st,
         closed' = closed,
         \A d \in Calls, j \in Ids :
           sdk'[<<d, j>>] = IF d = c /\ j = i THEN st ELSE sdk[<<d, j>>],
         handlerDone' \subseteq handlerDone \cup {<<c, i>>},
         terminalSucceeded' \subseteq terminalSucceeded \cup {<<c, i>>},
         terminalStarted \subseteq terminalStarted',
         <<c, i>> \in handlerDone' => st \in {"returned", "sending", "failed", "over"},
         <<c, i>> \in terminalSucceeded' => st = "over",
         ~closed /\ st \in {"sending", "failed"} => <<c, i>> \in terminalStarted'
  PROVE  FlagsFollowSdk'
<1> SUFFICES ASSUME NEW d \in Calls, NEW j \in Ids
             PROVE  /\ <<d, j>> \in handlerDone' =>
                         sdk'[<<d, j>>] \in {"returned", "sending", "failed", "over"}
                    /\ <<d, j>> \in terminalSucceeded' => sdk'[<<d, j>>] = "over"
                    /\ ~closed' /\ sdk'[<<d, j>>] \in {"sending", "failed"} =>
                         <<d, j>> \in terminalStarted'
  BY DEF FlagsFollowSdk
<1>1. CASE d = c /\ j = i
  BY <1>1
<1>2. CASE ~(d = c /\ j = i)
  <2>1. <<d, j>> # <<c, i>>
    BY <1>2
  <2>2. sdk'[<<d, j>>] = sdk[<<d, j>>]
    BY <1>2
  <2>3. /\ <<d, j>> \in handlerDone => sdk[<<d, j>>] \in {"returned", "sending", "failed", "over"}
        /\ <<d, j>> \in terminalSucceeded => sdk[<<d, j>>] = "over"
        /\ ~closed /\ sdk[<<d, j>>] \in {"sending", "failed"} => <<d, j>> \in terminalStarted
    BY DEF FlagsFollowSdk
  <2> QED BY <2>1, <2>2, <2>3
<1> QED BY <1>1, <1>2

LEMMA HandlerStartInv == ASSUME IInv, NEW c \in Calls, NEW i \in Ids, HandlerStart(c, i)
                         PROVE  IInv' /\ StepEffect(c, i)
<1> DEFINE owner == IF <<active[i], i>> \in dispatched THEN active[i] ELSE None
<1>1. owner \in {c, None}
  <2>1. CASE closed
    BY <2>1 DEF IInv, OwnersAreCurrent
  <2>2. CASE ~closed
    BY <2>2 DEF IInv, LiveIsDispatchedOwner, Live, HandlerStart
  <2> QED BY <2>1, <2>2
<1>2. /\ sdk[<<c, i>>] = "queued"
      /\ sdk' = [sdk EXCEPT ![<<c, i>>] = "running"]
      /\ handlerEntry' = [handlerEntry EXCEPT ![<<c, i>>] = owner]
      /\ handlerObserved' = handlerObserved \cup EntryOf(owner, i)
      /\ UNCHANGED <<phase, batch, active, dispatched, handlerDone, terminalStarted,
                     terminalSucceeded, closed, sendEntry, aborted, stream>>
  BY DEF HandlerStart
<1> HIDE DEF owner
<1>3. \A d \in Calls, j \in Ids :
        sdk'[<<d, j>>] = IF d = c /\ j = i THEN "running" ELSE sdk[<<d, j>>]
  BY <1>2 DEF IInv, TypeOK, Entries
<1>4. TypeOK'
  <2>1. EntryOf(owner, i) \subseteq Entries
    BY <1>1 DEF EntryOf, Entries
  <2> QED BY <1>1, <1>2, <2>1 DEF IInv, TypeOK, Entries, SdkStates
<1>5. CapturesAreOwn'
  BY <1>1, <1>2 DEF IInv, CapturesAreOwn, TypeOK, Entries
<1>6. FlagsFollowSdk'
  <2>1. <<c, i>> \notin handlerDone /\ <<c, i>> \notin terminalSucceeded
    BY <1>2 DEF IInv, FlagsFollowSdk
  <2> QED BY <1>2, <1>3, <2>1, FlagsStep DEF IInv
<1>7. /\ \A d \in Calls, j \in Ids : d # c \/ j # i => (Live(d, j)' <=> Live(d, j))
      /\ Live(c, i)' => Live(c, i)
  BY <1>2, <1>3 DEF Live
<1>8. active' \in [Ids -> Calls \cup {None}]
  BY <1>4 DEF TypeOK
<1>20. StepEffect(c, i)
  BY <1>2, <1>3, <1>4, <1>5, <1>6, <1>7, <1>8 DEF StepEffect
<1> QED BY <1>20, <1>2, <1>3, <1>4, <1>5, <1>6, <1>7, <1>8, OneRequestStep DEF IInv

LEMMA BuiltinHandlerInv == ASSUME IInv, NEW c \in Calls, NEW i \in Ids, BuiltinHandler(c, i)
                           PROVE  IInv' /\ StepEffect(c, i)
<1>1. \A d \in Calls, j \in Ids :
        sdk'[<<d, j>>] = IF d = c /\ j = i THEN "returned" ELSE sdk[<<d, j>>]
  BY DEF BuiltinHandler, IInv, TypeOK, Entries
<1>2. TypeOK'
  BY DEF BuiltinHandler, IInv, TypeOK, Entries, SdkStates, flags
<1>3. CapturesAreOwn'
  BY DEF IInv, CapturesAreOwn, BuiltinHandler
<1>4. FlagsFollowSdk'
  <2>1. <<c, i>> \notin handlerDone /\ <<c, i>> \notin terminalSucceeded
    BY DEF IInv, FlagsFollowSdk, BuiltinHandler
  <2> QED BY <1>1, <2>1, FlagsStep DEF IInv, BuiltinHandler, flags
<1>5. /\ \A d \in Calls, j \in Ids : d # c \/ j # i => (Live(d, j)' <=> Live(d, j))
      /\ Live(c, i)' => Live(c, i)
  BY <1>1 DEF Live, BuiltinHandler
<1>6. active' \in [Ids -> Calls \cup {None}]
  BY <1>2 DEF TypeOK
<1>20. StepEffect(c, i)
  BY <1>1, <1>2, <1>3, <1>4, <1>5, <1>6 DEF StepEffect, BuiltinHandler, flags
<1> QED BY <1>20, <1>1, <1>2, <1>3, <1>4, <1>5, <1>6, OneRequestStep DEF IInv

LEMMA HandlerReturnInv == ASSUME IInv, NEW c \in Calls, NEW i \in Ids, HandlerReturn(c, i)
                          PROVE  IInv' /\ StepEffect(c, i)
<1> DEFINE owner == handlerEntry[<<c, i>>]
<1>1. owner \in {c, None}
  BY DEF IInv, CapturesAreOwn
<1>2. \A d \in Calls, j \in Ids :
        sdk'[<<d, j>>] = IF d = c /\ j = i THEN "returned" ELSE sdk[<<d, j>>]
  BY DEF HandlerReturn, IInv, TypeOK, Entries
<1>3. handlerDone' \subseteq handlerDone \cup {<<c, i>>}
  BY <1>1 DEF HandlerReturn, EntryOf
<1>4. FinishEntry(owner, i, handlerDone', terminalSucceeded, sdk, aborted)
  BY DEF HandlerReturn
<1> HIDE DEF owner
<1>5. /\ active' \in [Ids -> Calls \cup {None}]
      /\ \A j \in Ids : active'[j] # active[j] =>
           /\ j = i /\ active[j] = c /\ active'[j] = None
           /\ Finished(c, i, handlerDone', terminalSucceeded, sdk, aborted)
  BY <1>1, <1>4, FinishEntryEffect DEF IInv
<1>6. Finished(c, i, handlerDone', terminalSucceeded, sdk, aborted) => ~Live(c, i)'
  <2>1. <<c, i>> \notin terminalSucceeded
    BY DEF IInv, FlagsFollowSdk, HandlerReturn
  <2>2. SignalAborted(c, i, aborted) => <<c, i>> \in aborted
    BY OwnSignal
  <2> QED BY <1>2, <2>1, <2>2 DEF Finished, Live, HandlerReturn
<1>7. TypeOK'
  <2>1. handlerDone' \subseteq Entries
    BY <1>3 DEF IInv, TypeOK, Entries
  <2>2. sdk' \in [Entries -> SdkStates]
    BY DEF HandlerReturn, IInv, TypeOK, SdkStates
  <2> QED BY <1>5, <2>1, <2>2 DEF HandlerReturn, IInv, TypeOK
<1>8. CapturesAreOwn'
  BY DEF IInv, CapturesAreOwn, HandlerReturn
<1>9. FlagsFollowSdk'
  <2>1. <<c, i>> \notin terminalSucceeded
    BY DEF IInv, FlagsFollowSdk, HandlerReturn
  <2> QED BY <1>2, <1>3, <2>1, FlagsStep DEF IInv, HandlerReturn
<1>10. /\ \A d \in Calls, j \in Ids : d # c \/ j # i => (Live(d, j)' <=> Live(d, j))
       /\ Live(c, i)' => Live(c, i)
  BY <1>2 DEF Live, HandlerReturn
<1>20. StepEffect(c, i)
  <2>1. sdk[<<c, i>>] # "idle" /\ Live(c, i)
    BY DEF HandlerReturn, Live
  <2>2. UNCHANGED <<phase, batch, closed, dispatched, stream>>
    BY DEF HandlerReturn
  <2>3. \A j \in Ids : active'[j] # active[j] => ~Live(c, i)'
    BY <1>5, <1>6
  <2> QED BY <1>2, <1>5, <1>10, <2>1, <2>2, <2>3 DEF StepEffect
<1> QED BY <1>20, <1>2, <1>5, <1>6, <1>7, <1>8, <1>9, <1>10, OneRequestStep DEF IInv

LEMMA CancelInv == ASSUME IInv, NEW c \in Calls, NEW i \in Ids, Cancel(c, i)
                   PROVE  IInv' /\ StepEffect(c, i)
<1> DEFINE owner == handlerEntry[<<c, i>>]
<1>1. owner \in {c, None}
  BY DEF IInv, CapturesAreOwn
<1>2. FinishEntry(owner, i, handlerDone, terminalSucceeded, sdk, aborted')
  BY DEF Cancel
<1> HIDE DEF owner
<1>3. /\ active' \in [Ids -> Calls \cup {None}]
      /\ \A j \in Ids : active'[j] # active[j] =>
           /\ j = i /\ active[j] = c /\ active'[j] = None /\ c \in Calls
           /\ Finished(c, i, handlerDone, terminalSucceeded, sdk, aborted')
  BY <1>1, <1>2, FinishEntryEffect DEF IInv
<1>4. ~closed /\ Finished(c, i, handlerDone, terminalSucceeded, sdk, aborted') => ~Live(c, i)'
  <2>1. <<c, i>> \notin terminalSucceeded
    BY DEF IInv, FlagsFollowSdk, Cancel
  <2> QED BY <2>1 DEF Finished, Live, Cancel, IInv, FlagsFollowSdk
<1>5. closed => \A j \in Ids : active'[j] = active[j]
  BY <1>3 DEF IInv, OwnersAreCurrent
<1>6. TypeOK'
  BY <1>3 DEF Cancel, IInv, TypeOK, Entries, flags
<1>7. CapturesAreOwn' /\ FlagsFollowSdk'
  BY DEF IInv, CapturesAreOwn, FlagsFollowSdk, Cancel, flags
<1>8. /\ \A d \in Calls, j \in Ids : d # c \/ j # i => (Live(d, j)' <=> Live(d, j))
      /\ Live(c, i)' => Live(c, i)
  BY DEF Live, Cancel
<1>20. StepEffect(c, i)
  <2>1. UNCHANGED <<phase, batch, closed, dispatched, stream, sdk>> /\ sdk[<<c, i>>] # "idle"
    BY DEF Cancel, flags
  <2>2. Live(c, i)
    BY DEF Cancel, Live
  <2>3. \A j \in Ids : active'[j] # active[j] => ~Live(c, i)'
    BY <1>3, <1>4, <1>5
  <2> QED BY <1>3, <1>8, <2>1, <2>2, <2>3 DEF StepEffect
<1> QED BY <1>20, <1>3, <1>4, <1>5, <1>6, <1>7, <1>8, OneRequestStep DEF IInv

LEMMA SuppressInv == ASSUME IInv, NEW c \in Calls, NEW i \in Ids, Suppress(c, i)
                     PROVE  IInv' /\ StepEffect(c, i)
<1>1. \A d \in Calls, j \in Ids :
        sdk'[<<d, j>>] = IF d = c /\ j = i THEN "over" ELSE sdk[<<d, j>>]
  BY DEF Suppress, IInv, TypeOK, Entries
<1>2. TypeOK'
  BY DEF Suppress, IInv, TypeOK, Entries, SdkStates, flags
<1>3. CapturesAreOwn'
  BY DEF IInv, CapturesAreOwn, Suppress
<1>4. FlagsFollowSdk'
  <2>1. "over" \notin {"sending", "failed"}
    OBVIOUS
  <2> QED BY <1>1, <2>1, FlagsStep DEF IInv, Suppress, flags
<1>5. /\ \A d \in Calls, j \in Ids : d # c \/ j # i => (Live(d, j)' <=> Live(d, j))
      /\ Live(c, i)' => Live(c, i)
  BY <1>1 DEF Live, Suppress
<1>6. active' \in [Ids -> Calls \cup {None}]
  BY <1>2 DEF TypeOK
<1>20. StepEffect(c, i)
  BY <1>1, <1>2, <1>3, <1>4, <1>5, <1>6 DEF StepEffect, Suppress, flags
<1> QED BY <1>20, <1>1, <1>2, <1>3, <1>4, <1>5, <1>6, OneRequestStep DEF IInv

LEMMA SendStartInv ==
  ASSUME IInv, NEW c \in Calls, NEW i \in Ids, SendAnswer(c, i) \/ SendFallback(c, i)
  PROVE  IInv' /\ StepEffect(c, i)
<1>1. StartSend(c, i) /\ Live(c, i)
      /\ sdk[<<c, i>>] \in {"unhandled", "returned", "failed"}
  BY DEF SendAnswer, SendFallback, Live
<1>2. active[i] \in {c, None} /\ (~closed => active[i] = c)
  BY <1>1 DEF IInv, LiveIsDispatchedOwner, OwnersAreCurrent
<1>3. \A d \in Calls, j \in Ids :
        sdk'[<<d, j>>] = IF d = c /\ j = i THEN "sending" ELSE sdk[<<d, j>>]
  BY <1>1 DEF StartSend, IInv, TypeOK, Entries
<1>4. /\ terminalStarted \subseteq terminalStarted'
      /\ terminalStarted' \subseteq terminalStarted \cup {<<c, i>>}
      /\ ~closed => <<c, i>> \in terminalStarted'
  BY <1>1, <1>2 DEF StartSend, EntryOf
<1>5. TypeOK'
  BY <1>1, <1>2, <1>4 DEF StartSend, IInv, TypeOK, Entries, SdkStates
<1>6. CapturesAreOwn'
  BY <1>1, <1>2 DEF IInv, CapturesAreOwn, StartSend, TypeOK, Entries
<1>7. FlagsFollowSdk'
  <2>1. <<c, i>> \notin terminalSucceeded
    BY <1>1 DEF IInv, FlagsFollowSdk
  <2> QED BY <1>1, <1>3, <1>4, <2>1, FlagsStep DEF IInv, StartSend
<1>8. /\ \A d \in Calls, j \in Ids : d # c \/ j # i => (Live(d, j)' <=> Live(d, j))
      /\ Live(c, i)' => Live(c, i)
  BY <1>1, <1>3 DEF Live, StartSend
<1>9. active' \in [Ids -> Calls \cup {None}]
  BY <1>5 DEF TypeOK
<1>20. StepEffect(c, i)
  BY <1>1, <1>3, <1>5, <1>6, <1>7, <1>8, <1>9 DEF StepEffect, StartSend
<1> QED BY <1>20, <1>1, <1>3, <1>5, <1>6, <1>7, <1>8, <1>9, OneRequestStep DEF IInv

LEMMA SendSucceedsInv == ASSUME IInv, NEW c \in Calls, NEW i \in Ids, SendSucceeds(c, i)
                         PROVE  IInv' /\ StepEffect(c, i)
<1> DEFINE owner == sendEntry[<<c, i>>]
<1>1. owner \in {c, None}
  BY DEF IInv, CapturesAreOwn
<1>2. \A d \in Calls, j \in Ids :
        sdk'[<<d, j>>] = IF d = c /\ j = i THEN "over" ELSE sdk[<<d, j>>]
  BY DEF SendSucceeds, IInv, TypeOK, Entries
<1>3. terminalSucceeded' \subseteq terminalSucceeded \cup {<<c, i>>}
  BY <1>1 DEF SendSucceeds, EntryOf
<1>4. FinishEntry(owner, i, handlerDone, terminalSucceeded', sdk', aborted)
  BY DEF SendSucceeds
<1> HIDE DEF owner
<1>5. /\ active' \in [Ids -> Calls \cup {None}]
      /\ \A j \in Ids : active'[j] # active[j] =>
           j = i /\ active[j] = c /\ active'[j] = None
  BY <1>1, <1>4, FinishEntryEffect DEF IInv
<1>6. ~Live(c, i)'
  BY <1>2 DEF Live
<1>7. TypeOK'
  <2>1. terminalSucceeded' \subseteq Entries
    BY <1>3 DEF IInv, TypeOK, Entries
  <2>2. sdk' \in [Entries -> SdkStates]
    BY DEF SendSucceeds, IInv, TypeOK, SdkStates
  <2> QED BY <1>5, <2>1, <2>2 DEF SendSucceeds, IInv, TypeOK
<1>8. CapturesAreOwn'
  BY DEF IInv, CapturesAreOwn, SendSucceeds
<1>9. FlagsFollowSdk'
  BY <1>2, <1>3, FlagsStep DEF IInv, SendSucceeds
<1>10. /\ \A d \in Calls, j \in Ids : d # c \/ j # i => (Live(d, j)' <=> Live(d, j))
       /\ Live(c, i)' => Live(c, i)
  BY <1>2 DEF Live, SendSucceeds
<1>20. StepEffect(c, i)
  <2>1. sdk[<<c, i>>] # "idle" /\ Live(c, i)
    BY DEF SendSucceeds, Live
  <2>2. UNCHANGED <<phase, batch, closed, dispatched, stream>>
    BY DEF SendSucceeds
  <2>3. \A j \in Ids : active'[j] # active[j] => ~Live(c, i)'
    BY <1>5, <1>6
  <2> QED BY <1>2, <1>5, <1>10, <2>1, <2>2, <2>3 DEF StepEffect
<1> QED BY <1>20, <1>2, <1>5, <1>6, <1>7, <1>8, <1>9, <1>10, OneRequestStep DEF IInv

LEMMA SendFailsInv == ASSUME IInv, NEW c \in Calls, NEW i \in Ids, SendFails(c, i)
                      PROVE  IInv' /\ StepEffect(c, i)
<1> DEFINE owner == sendEntry[<<c, i>>]
<1>1. owner \in {c, None}
  BY DEF IInv, CapturesAreOwn
<1>2. \A d \in Calls, j \in Ids :
        sdk'[<<d, j>>] = IF d = c /\ j = i THEN "failed" ELSE sdk[<<d, j>>]
  BY DEF SendFails, IInv, TypeOK, Entries
<1>3. FinishEntry(owner, i, handlerDone, terminalSucceeded, sdk', aborted)
  BY DEF SendFails
<1> HIDE DEF owner
<1>4. /\ active' \in [Ids -> Calls \cup {None}]
      /\ \A j \in Ids : active'[j] # active[j] =>
           /\ j = i /\ active[j] = c /\ active'[j] = None
           /\ Finished(c, i, handlerDone, terminalSucceeded, sdk', aborted)
  BY <1>1, <1>3, FinishEntryEffect DEF IInv
(* While the session is open the send had started, so a failed one does not *)
(* release; afterwards the map is already empty.                           *)
<1>5. \A j \in Ids : active'[j] = active[j]
  <2>1. CASE closed
    BY <1>4, <2>1 DEF IInv, OwnersAreCurrent
  <2>2. CASE ~closed
    BY <1>4, <2>2 DEF IInv, FlagsFollowSdk, Finished, SendFails
  <2> QED BY <2>1, <2>2
<1>6. TypeOK'
  BY <1>4 DEF SendFails, IInv, TypeOK, Entries, SdkStates, flags
<1>7. CapturesAreOwn'
  BY DEF IInv, CapturesAreOwn, SendFails
<1>8. FlagsFollowSdk'
  <2>1. <<c, i>> \notin terminalSucceeded /\ (~closed => <<c, i>> \in terminalStarted)
    BY DEF IInv, FlagsFollowSdk, SendFails
  <2> QED BY <1>2, <2>1, FlagsStep DEF IInv, SendFails, flags
<1>9. /\ \A d \in Calls, j \in Ids : d # c \/ j # i => (Live(d, j)' <=> Live(d, j))
      /\ Live(c, i)' => Live(c, i)
  BY <1>2 DEF Live, SendFails
<1>20. StepEffect(c, i)
  BY <1>2, <1>4, <1>5, <1>6, <1>7, <1>8, <1>9 DEF StepEffect, SendFails, flags
<1> QED BY <1>20, <1>2, <1>4, <1>5, <1>6, <1>7, <1>8, <1>9, OneRequestStep DEF IInv

LEMMA DisconnectInv == ASSUME IInv, NEW c \in Calls, Disconnect(c)
                       PROVE  IInv'
<1>1. TypeOK'
  BY DEF Disconnect, IInv, TypeOK, flags
<1>2. AnswersGoHome'
  BY DEF Disconnect, IInv, TypeOK, AnswersGoHome, Live
<1>3. OwnersAreCurrent' /\ SdkFollowsDispatch' /\ CapturesAreOwn' /\ FlagsFollowSdk'
      /\ LiveIsDispatchedOwner' /\ OneLiveRequestPerId'
  BY DEF Disconnect, IInv, OwnersAreCurrent, SdkFollowsDispatch, CapturesAreOwn,
         FlagsFollowSdk, LiveIsDispatchedOwner, OneLiveRequestPerId, Live, flags
<1> QED BY <1>1, <1>2, <1>3 DEF IInv

LEMMA CloseInv == ASSUME IInv, Close
                  PROVE  IInv'
<1>1. TypeOK'
  BY DEF Close, IInv, TypeOK, flags
<1>2. OwnersAreCurrent' /\ AnswersGoHome'
  BY DEF Close, IInv, OwnersAreCurrent, AnswersGoHome
<1>3. SdkFollowsDispatch' /\ CapturesAreOwn' /\ FlagsFollowSdk'
      /\ LiveIsDispatchedOwner' /\ OneLiveRequestPerId'
  BY DEF Close, IInv, SdkFollowsDispatch, CapturesAreOwn,
         FlagsFollowSdk, LiveIsDispatchedOwner, OneLiveRequestPerId, Live, flags
<1> QED BY <1>1, <1>2, <1>3 DEF IInv

(* Every step preserves the invariant.                                      *)
LEMMA NextInv == IInv /\ [Next]_vars => IInv'
<1> SUFFICES ASSUME IInv, [Next]_vars PROVE IInv'
  OBVIOUS
<1>1. CASE \E c \in Calls : PostStep(c)
  <2> PICK c \in Calls : PostStep(c)
    BY <1>1
  <2>1. CASE \E S \in SUBSET Ids : Reserve(c, S)
    BY <2>1, ReserveInv
  <2>2. CASE Refuse(c) \/ PassThrough(c)
    BY <2>2, RefuseInv
  <2>3. CASE \E H \in SUBSET Ids : Dispatch(c, H)
    BY <2>3, DispatchInv
  <2>4. CASE Settle(c)
    BY <2>4, SettleInv
  <2>5. CASE Disconnect(c)
    BY <2>5, DisconnectInv
  <2> QED BY <2>1, <2>2, <2>3, <2>4, <2>5 DEF PostStep
<1>2. CASE \E c \in Calls, i \in Ids : HandlerStep(c, i)
  BY <1>2, HandlerStartInv, BuiltinHandlerInv, HandlerReturnInv, CancelInv, SuppressInv
     DEF HandlerStep
<1>3. CASE \E c \in Calls, i \in Ids : SendStep(c, i)
  BY <1>3, SendStartInv, SendSucceedsInv, SendFailsInv DEF SendStep
<1>4. CASE Close
  BY <1>4, CloseInv
<1>5. CASE UNCHANGED vars
  BY <1>5 DEF vars, flags, sdkVars, IInv, TypeOK, OwnersAreCurrent, SdkFollowsDispatch,
         CapturesAreOwn, FlagsFollowSdk, LiveIsDispatchedOwner, OneLiveRequestPerId,
         AnswersGoHome, Live
<1> QED BY <1>1, <1>2, <1>3, <1>4, <1>5 DEF Next

(* The inductive invariant holds in every reachable state.                  *)
THEOREM Invariance == Spec => []IInv
<1>1. Init => IInv
  BY InitInv
<1>2. IInv /\ [Next]_vars => IInv'
  BY NextInv
<1> QED BY <1>1, <1>2, PTL DEF Spec

(* Types, for any number of POSTs and ids.                                  *)
THEOREM TypeCorrect == Spec => []TypeOK
<1>1. IInv => TypeOK
  BY DEF IInv
<1> QED BY <1>1, Invariance, PTL

(* No two live requests ever share an id.                                   *)
THEOREM UniqueLiveRequest == Spec => []OneLiveRequestPerId
<1>1. IInv => OneLiveRequestPerId
  BY DEF IInv
<1> QED BY <1>1, Invariance, PTL

(* A live request of an open session owns its id.                           *)
THEOREM LiveOwnership == Spec => []LiveRequestKeepsItsId
<1>1. IInv => LiveRequestKeepsItsId
  BY DEF IInv, LiveIsDispatchedOwner, LiveRequestKeepsItsId
<1> QED BY <1>1, Invariance, PTL

(* Answers go out on the response of the POST that asked.                   *)
THEOREM AnswerDelivery == Spec => []AnswersGoHome
<1>1. IInv => AnswersGoHome
  BY DEF IInv
<1> QED BY <1>1, Invariance, PTL

-----------------------------------------------------------------------------
(* The refinement of RequestOwnership.                                      *)
Exchanges == {e \in Entries : Live(e[1], e[2])}

LEMMA ExchangesAreLive ==
  /\ Exchanges \subseteq Entries
  /\ \A c \in Calls, i \in Ids : <<c, i>> \in Exchanges <=> Live(c, i)
  /\ Exchanges' \subseteq Entries
  /\ \A c \in Calls, i \in Ids : <<c, i>> \in Exchanges' <=> Live(c, i)'
BY DEF Exchanges, Entries

LEMMA ExchangesEqual ==
  ASSUME \A c \in Calls, i \in Ids : Live(c, i)' <=> Live(c, i)
  PROVE  Exchanges' = Exchanges
<1>1. \A e \in Entries : e \in Exchanges' <=> e \in Exchanges
  BY ExchangesAreLive DEF Entries
<1> QED BY <1>1, ExchangesAreLive

(* A step of one request ends its exchange, gives its id back, both, or     *)
(* neither.                                                                *)
LEMMA StepRefines ==
  ASSUME IInv, NEW c \in Calls, NEW i \in Ids, StepEffect(c, i)
  PROVE  /\ \/ Ownership!End(c, i)
            \/ UNCHANGED <<active, Exchanges, closed>>
         /\ ReleaseIsJustified
<1>1. CASE Live(c, i) /\ ~Live(c, i)'
  <2>1. <<c, i>> \in Exchanges
    BY <1>1, ExchangesAreLive
  <2>2. Exchanges' = Exchanges \ {<<c, i>>}
    <3>1. \A e \in Entries : e \in Exchanges' <=> e \in Exchanges /\ e # <<c, i>>
      <4> SUFFICES ASSUME NEW d \in Calls, NEW j \in Ids
                   PROVE  <<d, j>> \in Exchanges' <=> <<d, j>> \in Exchanges /\ <<d, j>> # <<c, i>>
        BY DEF Entries
      <4>1. CASE d = c /\ j = i
        BY <1>1, <4>1, ExchangesAreLive
      <4>2. CASE d # c \/ j # i
        BY <4>2, ExchangesAreLive DEF StepEffect
      <4> QED BY <4>1, <4>2
    <3> QED BY <3>1, ExchangesAreLive
  <2>3. active' \in {active, [active EXCEPT ![i] = None]}
    <3>1. CASE active'[i] = active[i]
      <4>1. \A j \in Ids : active'[j] = active[j]
        BY <3>1 DEF StepEffect
      <4> QED BY <4>1 DEF StepEffect, IInv, TypeOK
    <3>2. CASE active'[i] # active[i]
      <4>1. \A j \in Ids : active'[j] = IF j = i THEN None ELSE active[j]
        BY <3>2 DEF StepEffect
      <4> QED BY <4>1 DEF StepEffect, IInv, TypeOK
    <3> QED BY <3>1, <3>2
  <2>4. Ownership!End(c, i)
    BY <2>1, <2>2, <2>3 DEF Ownership!End, Exchanges, StepEffect
  <2>5. ReleaseIsJustified
    <3> SUFFICES ASSUME NEW d \in Calls, NEW j \in Ids, active[j] = d, active'[j] # d
                 PROVE  ~Live(d, j)' /\ <<d, j>> \in dispatched
      BY DEF ReleaseIsJustified
    <3>1. j = i /\ d = c
      BY DEF StepEffect
    <3>2. ~closed
      BY DEF IInv, OwnersAreCurrent
    <3> QED BY <1>1, <3>1, <3>2 DEF IInv, LiveIsDispatchedOwner
  <2> QED BY <2>4, <2>5
<1>2. CASE ~(Live(c, i) /\ ~Live(c, i)')
  <2>1. \A j \in Ids : active'[j] = active[j]
    BY <1>2 DEF StepEffect
  <2>2. active' = active
    BY <2>1 DEF StepEffect, IInv, TypeOK
  <2>3. \A d \in Calls, j \in Ids : Live(d, j)' <=> Live(d, j)
    BY <1>2 DEF StepEffect
  <2>4. Exchanges' = Exchanges
    BY <2>3, ExchangesEqual
  <2> QED BY <2>2, <2>4 DEF StepEffect, ReleaseIsJustified
<1> QED BY <1>1, <1>2

LEMMA DispatchRefines ==
  ASSUME IInv, NEW c \in Calls, NEW H \in SUBSET Ids, Dispatch(c, H)
  PROVE  Ownership!Begin(c, batch[c])
<1>1. \A i \in batch[c] : i \in Ids /\ active[i] = c /\ sdk[<<c, i>>] = "idle"
  BY DEF IInv, TypeOK, OwnersAreCurrent, SdkFollowsDispatch, Dispatch
<1>2. \A i \in batch[c] : \A d \in Calls : ~Live(d, i)
  BY <1>1 DEF IInv, LiveIsDispatchedOwner, Live, Dispatch
<1>3. \A d \in Calls, i \in Ids : sdk'[<<d, i>>] =
        IF d = c /\ i \in batch[c]
        THEN IF i \in H THEN "queued" ELSE "unhandled" ELSE sdk[<<d, i>>]
  BY DEF Dispatch, Entries
<1>4. Exchanges' = Exchanges \cup ({c} \X batch[c])
  <2>1. \A e \in Entries : e \in Exchanges' <=> e \in Exchanges \/ e \in {c} \X batch[c]
    <3> SUFFICES ASSUME NEW d \in Calls, NEW j \in Ids
                 PROVE  <<d, j>> \in Exchanges' <=> <<d, j>> \in Exchanges \/ <<d, j>> \in {c} \X batch[c]
      BY DEF Entries
    <3>1. CASE d = c /\ j \in batch[c]
      BY <1>3, <3>1, ExchangesAreLive DEF Live
    <3>2. CASE ~(d = c /\ j \in batch[c])
      <4>1. Live(d, j)' <=> Live(d, j)
        BY <1>3, <3>2 DEF Live, Dispatch
      <4> QED BY <3>2, <4>1, ExchangesAreLive
    <3> QED BY <3>1, <3>2
  <2>2. {c} \X batch[c] \subseteq Entries
    BY <1>1 DEF Entries
  <2> QED BY <2>1, <2>2, ExchangesAreLive
<1>5. \A i \in batch[c] : \A d \in Calls : <<d, i>> \notin Exchanges
  BY <1>1, <1>2, ExchangesAreLive
<1> QED BY <1>1, <1>4, <1>5 DEF Ownership!Begin, Exchanges, Dispatch

LEMMA SettleRefines ==
  ASSUME IInv, NEW c \in Calls, Settle(c)
  PROVE  Ownership!GiveBack(Undispatched(c)) /\ ReleaseIsJustified
<1>1. \A i \in Undispatched(c) : i \in Ids /\ active[i] = c /\ <<c, i>> \notin dispatched /\ ~closed
  BY DEF IInv, TypeOK, OwnersAreCurrent, Undispatched
<1>2. \A i \in Undispatched(c) : \A d \in Calls : ~Live(d, i)
  BY <1>1 DEF IInv, LiveIsDispatchedOwner
<1>3. \A d \in Calls, i \in Ids : Live(d, i)' <=> Live(d, i)
  BY DEF Live, Settle, sdkVars
<1>4. Exchanges' = Exchanges
  BY <1>3, ExchangesEqual
<1>5. \A i \in Undispatched(c) : \A d \in Calls : <<d, i>> \notin Exchanges
  BY <1>1, <1>2, ExchangesAreLive
<1>6. Ownership!GiveBack(Undispatched(c))
  BY <1>4, <1>5 DEF Ownership!GiveBack, Exchanges, Settle
<1>7. phase'[c] = "settled"
  BY DEF Settle, IInv, TypeOK
<1>8. \A i \in Ids : i \notin Undispatched(c) => active'[i] = active[i]
  BY DEF Settle
<1>9. ReleaseIsJustified
  BY <1>1, <1>2, <1>3, <1>7, <1>8 DEF ReleaseIsJustified
<1> QED BY <1>6, <1>9

(* Every step of the guard is a step of the lock or changes nothing of it, *)
(* and no release is early.                                                *)
LEMMA NextRefines ==
  ASSUME IInv, [Next]_vars
  PROVE  [Ownership!Next]_<<active, Exchanges, closed>> /\ [ReleaseIsJustified]_vars
<1>1. ASSUME NEW c \in Calls, NEW S \in SUBSET Ids, Reserve(c, S)
      PROVE  Ownership!Acquire(c, S) /\ ReleaseIsJustified
  <2>1. \A d \in Calls, i \in Ids : Live(d, i)' <=> Live(d, i)
    BY <1>1 DEF Live, Reserve, sdkVars
  <2>2. Exchanges' = Exchanges
    BY <2>1, ExchangesEqual
  <2> QED BY <1>1, <2>2 DEF Ownership!Acquire, Exchanges, Reserve, InUse, ReleaseIsJustified
<1>2. ASSUME NEW c \in Calls, Refuse(c) \/ PassThrough(c) \/ Disconnect(c)
      PROVE  UNCHANGED <<active, Exchanges, closed>> /\ ReleaseIsJustified
  <2>1. \A d \in Calls, i \in Ids : Live(d, i)' <=> Live(d, i)
    BY <1>2 DEF Live, Refuse, PassThrough, Disconnect, sdkVars
  <2>2. Exchanges' = Exchanges
    BY <2>1, ExchangesEqual
  <2> QED BY <1>2, <2>2 DEF Refuse, PassThrough, Disconnect, ReleaseIsJustified
<1>3. ASSUME NEW c \in Calls, NEW H \in SUBSET Ids, Dispatch(c, H)
      PROVE  Ownership!Begin(c, batch[c]) /\ batch[c] \in SUBSET Ids /\ ReleaseIsJustified
  BY <1>3, DispatchRefines DEF Dispatch, ReleaseIsJustified, IInv, TypeOK
<1>4. ASSUME NEW c \in Calls, Settle(c)
      PROVE  Ownership!GiveBack(Undispatched(c)) /\ Undispatched(c) \in SUBSET Ids
             /\ ReleaseIsJustified
  BY <1>4, SettleRefines DEF Undispatched, IInv, TypeOK
<1>5. ASSUME NEW c \in Calls, NEW i \in Ids, HandlerStep(c, i) \/ SendStep(c, i)
      PROVE  StepEffect(c, i)
  BY <1>5, HandlerStartInv, BuiltinHandlerInv, HandlerReturnInv, CancelInv, SuppressInv,
     SendStartInv, SendSucceedsInv, SendFailsInv DEF HandlerStep, SendStep
<1>6. ASSUME Close
      PROVE  Ownership!EndSession /\ ReleaseIsJustified
  <2>1. \A d \in Calls, i \in Ids : Live(d, i)' <=> Live(d, i)
    BY <1>6 DEF Live, Close
  <2>2. Exchanges' = Exchanges
    BY <2>1, ExchangesEqual
  <2> QED BY <1>6, <2>2 DEF Ownership!EndSession, Exchanges, Close, ReleaseIsJustified
<1>7. ASSUME UNCHANGED vars
      PROVE  UNCHANGED <<active, Exchanges, closed>>
  <2>1. \A d \in Calls, i \in Ids : Live(d, i)' <=> Live(d, i)
    BY <1>7 DEF Live, vars, sdkVars
  <2>2. Exchanges' = Exchanges
    BY <2>1, ExchangesEqual
  <2> QED BY <1>7, <2>2 DEF vars
<1>8. CASE \E c \in Calls : PostStep(c)
  <2> PICK c \in Calls : PostStep(c)
    BY <1>8
  <2> QED BY <1>1, <1>2, <1>3, <1>4 DEF PostStep, Ownership!Next
<1>9. CASE \E c \in Calls, i \in Ids : HandlerStep(c, i) \/ SendStep(c, i)
  BY <1>5, <1>9, StepRefines DEF Ownership!Next
<1>10. CASE Close
  BY <1>6, <1>10 DEF Ownership!Next
<1> QED BY <1>7, <1>8, <1>9, <1>10 DEF Next

(* An id is never released early, whatever the interleaving.                *)
THEOREM ReleaseDiscipline == Spec => ReleasedOnlyWhenOver
<1>1. IInv /\ [Next]_vars => [ReleaseIsJustified]_vars
  BY NextRefines
<1> QED BY <1>1, Invariance, PTL DEF Spec, ReleasedOnlyWhenOver

(* The guard implements the lock.                                           *)
THEOREM Refinement == Spec => ImplementsOwnership
<1>1. Init => Ownership!Init
  <2>1. Init => Exchanges = {}
    BY DEF Init, Exchanges, Live, Entries
  <2> QED BY <2>1 DEF Init, Ownership!Init, Exchanges
<1>2. IInv /\ [Next]_vars => [Ownership!Next]_(Ownership!avars)
  BY NextRefines DEF Ownership!avars, Exchanges
<1> QED BY <1>1, <1>2, Invariance, PTL DEF Spec, Ownership!Spec, ImplementsOwnership
-----------------------------------------------------------------------------
(* No id is held for nothing: the safety half of IdsComeBack.  Of each       *)
(* request, the state of the SDK and the flags say whether its finish is    *)
(* still to come.                                                          *)
Accounted(c, i) ==
  /\ active[i] = c => \/ phase[c] = "handling"
                      \/ Live(c, i)
                      \/ <<c, i>> \in aborted \ handlerObserved
  /\ active[i] = c => i \in batch[c]
  /\ active[i] = c /\ sdk[<<c, i>>] = "running" => <<c, i>> \in handlerObserved
  /\ active[i] = c /\ sdk[<<c, i>>] = "sending" => sendEntry[<<c, i>>] = c
  /\ <<c, i>> \in handlerObserved =>
       /\ handlerEntry[<<c, i>>] = c
       /\ <<c, i>> \in handlerDone \/ sdk[<<c, i>>] = "running"
  /\ <<c, i>> \in terminalStarted => sdk[<<c, i>>] \in {"sending", "failed", "over"}

LEMMA ReclaimsAccounted == Reclaims <=> \A c \in Calls, i \in Ids : Accounted(c, i)
BY DEF Reclaims, OwnersAreWaitedFor, OwnersAreCaptured, SdkFollowsFlags, Accounted

(* The same of a request that a step leaves alone.                          *)
SameRequest(c, i) ==
  /\ active'[i] = c => active[i] = c
  /\ batch'[c] = batch[c]
  /\ phase[c] = "handling" => phase'[c] = "handling"
  /\ sdk'[<<c, i>>] = sdk[<<c, i>>]
  /\ sendEntry'[<<c, i>>] = sendEntry[<<c, i>>]
  /\ handlerEntry'[<<c, i>>] = handlerEntry[<<c, i>>]
  /\ <<c, i>> \in aborted' <=> <<c, i>> \in aborted
  /\ <<c, i>> \in handlerObserved' <=> <<c, i>> \in handlerObserved
  /\ <<c, i>> \in handlerDone' <=> <<c, i>> \in handlerDone
  /\ <<c, i>> \in terminalStarted' <=> <<c, i>> \in terminalStarted

LEMMA SameIsAccounted ==
  ASSUME NEW c \in Calls, NEW i \in Ids, Accounted(c, i), SameRequest(c, i)
  PROVE  Accounted(c, i)'
BY DEF Accounted, SameRequest, Live

(* A step of one request accounts for it, and leaves the others alone.      *)
LEMMA OneAccounted ==
  ASSUME Reclaims, NEW c \in Calls, NEW i \in Ids, Accounted(c, i)',
         \A d \in Calls, j \in Ids : d # c \/ j # i => SameRequest(d, j)
  PROVE  Reclaims'
<1>1. \A d \in Calls, j \in Ids : Accounted(d, j)'
  BY ReclaimsAccounted, SameIsAccounted
<1>2. Reclaims' <=> (\A d \in Calls, j \in Ids : Accounted(d, j)')
  BY DEF Reclaims, OwnersAreWaitedFor, OwnersAreCaptured, SdkFollowsFlags, Accounted
<1> QED BY <1>1, <1>2

(* finish(entry) at the end of an answered or a cancelled request.          *)
LEMMA FinishReleases ==
  ASSUME TypeOK, NEW c \in Calls, NEW i \in Ids,
         NEW done, NEW succ, NEW snd, NEW ab,
         FinishEntry(c, i, done, succ, snd, ab),
         Finished(c, i, done, succ, snd, ab)
  PROVE  active'[i] # c
BY DEF FinishEntry, Release, TypeOK

(* finish touches no other entry of the map.                                *)
LEMMA FinishLeavesOthers ==
  ASSUME TypeOK, NEW c \in Calls \cup {None}, NEW i \in Ids,
         NEW done, NEW succ, NEW snd, NEW ab,
         FinishEntry(c, i, done, succ, snd, ab), NEW d \in Calls, NEW j \in Ids
  PROVE  active'[j] = d => active[j] = d
BY FinishEntryEffect

LEMMA PostAccounted ==
  ASSUME IInv, Reclaims, NEW c \in Calls, PostStep(c)
  PROVE  Reclaims'
<1>1. CASE \E S \in SUBSET Ids : Reserve(c, S)
  <2> PICK S \in SUBSET Ids : Reserve(c, S)
    BY <1>1
  <2>1. /\ UNCHANGED <<flags, closed, sdkVars>>
        /\ \A d \in Calls : phase'[d] = IF d = c THEN "handling" ELSE phase[d]
        /\ \A i \in Ids : active'[i] = IF i \in S THEN c ELSE active[i]
        /\ phase[c] = "new"
        /\ \A d \in Calls : batch'[d] = IF d = c THEN S ELSE batch[d]
        /\ \A i \in Ids : active[i] # c
    BY DEF Reserve, IInv, TypeOK, OwnersAreCurrent
  <2>2. \A i \in Ids : sdk[<<c, i>>] = "idle"
    BY <2>1 DEF IInv, SdkFollowsDispatch
  <2> QED
    BY <2>1, <2>2 DEF Reclaims, OwnersAreWaitedFor, OwnersAreCaptured, SdkFollowsFlags,
       Live, flags, sdkVars
<1>2. CASE Refuse(c) \/ PassThrough(c)
  <2>1. /\ UNCHANGED <<batch, active, flags, closed, sdkVars>>
        /\ \A d \in Calls : phase[d] = "handling" => phase'[d] = "handling"
    BY <1>2 DEF Refuse, PassThrough, IInv, TypeOK
  <2> QED
    BY <2>1 DEF Reclaims, OwnersAreWaitedFor, OwnersAreCaptured, SdkFollowsFlags,
       Live, flags, sdkVars
<1>3. CASE \E H \in SUBSET Ids : Dispatch(c, H)
  <2> PICK H \in SUBSET Ids : Dispatch(c, H)
    BY <1>3
  <2>1. \A d \in Calls, i \in Ids : sdk'[<<d, i>>] =
          IF d = c /\ i \in batch[c]
          THEN IF i \in H THEN "queued" ELSE "unhandled" ELSE sdk[<<d, i>>]
    BY DEF Dispatch, Entries
  <2>2. \A i \in Ids : active[i] = c => i \in batch[c]
    BY DEF Reclaims, OwnersAreCaptured
  <2>3. \A i \in Ids : sdk[<<c, i>>] = "idle"
    BY DEF IInv, SdkFollowsDispatch, Dispatch
  <2> QED
    BY <2>1, <2>2, <2>3 DEF Reclaims, OwnersAreWaitedFor, OwnersAreCaptured, SdkFollowsFlags,
       Live, Dispatch
<1>4. CASE Settle(c)
  <2>1. UNCHANGED <<flags, closed, sdkVars>>
    BY <1>4 DEF Settle
  <2>2. \A i \in Ids : active[i] = c /\ phase[c] = "handling" => i \in Undispatched(c)
    BY DEF Reclaims, OwnersAreCaptured, Undispatched, IInv, SdkFollowsDispatch
  <2> QED
    BY <1>4, <2>1, <2>2 DEF Settle, Undispatched, Reclaims, OwnersAreWaitedFor, OwnersAreCaptured,
       SdkFollowsFlags, Live, flags, sdkVars, IInv, TypeOK
<1>5. CASE Disconnect(c)
  BY <1>5 DEF Disconnect, Reclaims, OwnersAreWaitedFor, OwnersAreCaptured,
       SdkFollowsFlags, Live, flags, sdkVars
<1> QED BY <1>1, <1>2, <1>3, <1>4, <1>5 DEF PostStep

(* A handler starts with the entry of its request.                          *)
LEMMA HandlerStartAccounted ==
  ASSUME IInv, Reclaims, NEW c \in Calls, NEW i \in Ids, HandlerStart(c, i)
  PROVE  Reclaims'
<1>1. Accounted(c, i) /\ <<c, i>> \in Entries
  BY ReclaimsAccounted DEF Entries
<1>2. /\ sdk[<<c, i>>] = "queued" /\ sdk'[<<c, i>>] = "running"
      /\ UNCHANGED <<phase, batch, active, handlerDone, terminalStarted, sendEntry, aborted>>
  BY <1>1 DEF HandlerStart, IInv, TypeOK
<1>3. active[i] \in {c, None} /\ (active[i] = c => <<c, i>> \in dispatched)
  BY <1>2 DEF IInv, LiveIsDispatchedOwner, OwnersAreCurrent, Live
<1>4. /\ active[i] = c => /\ handlerEntry'[<<c, i>>] = c
                          /\ handlerObserved' = handlerObserved \cup {<<c, i>>}
      /\ active[i] # c => handlerObserved' = handlerObserved
  BY <1>1, <1>3 DEF HandlerStart, EntryOf, IInv, TypeOK
<1>5. <<c, i>> \notin handlerObserved
  BY <1>1, <1>2 DEF Accounted, IInv, FlagsFollowSdk
<1>6. Accounted(c, i)'
  BY <1>1, <1>2, <1>4, <1>5 DEF Accounted, Live
<1>7. ASSUME NEW d \in Calls, NEW j \in Ids, d # c \/ j # i
      PROVE  SameRequest(d, j)
  <2>1. <<d, j>> # <<c, i>> /\ <<d, j>> \in Entries
    BY <1>7 DEF Entries
  <2> QED
    BY <1>2, <1>4, <2>1 DEF HandlerStart, SameRequest, IInv, TypeOK
<1> QED BY <1>6, <1>7, OneAccounted

(* Without the wrapper the request is answered, or cancelled unobserved.    *)
LEMMA BuiltinAccounted ==
  ASSUME IInv, Reclaims, NEW c \in Calls, NEW i \in Ids, BuiltinHandler(c, i)
  PROVE  Reclaims'
<1>1. Accounted(c, i) /\ <<c, i>> \in Entries
  BY ReclaimsAccounted DEF Entries
<1>2. /\ sdk[<<c, i>>] = "queued" /\ sdk'[<<c, i>>] = "returned"
      /\ UNCHANGED <<phase, batch, active, flags, handlerEntry, sendEntry, aborted>>
  BY <1>1 DEF BuiltinHandler, IInv, TypeOK
<1>3. <<c, i>> \notin handlerObserved
  BY <1>1, <1>2 DEF Accounted, IInv, FlagsFollowSdk
<1>4. Accounted(c, i)'
  BY <1>1, <1>2, <1>3 DEF Accounted, Live, flags
<1>5. ASSUME NEW d \in Calls, NEW j \in Ids, d # c \/ j # i
      PROVE  SameRequest(d, j)
  <2>1. <<d, j>> # <<c, i>> /\ <<d, j>> \in Entries
    BY <1>5 DEF Entries
  <2> QED
    BY <1>2, <2>1 DEF BuiltinHandler, SameRequest, IInv, TypeOK, flags
<1> QED BY <1>4, <1>5, OneAccounted

(* The finally of a cancelled handler releases; another has yet to answer.  *)
LEMMA HandlerReturnAccounted ==
  ASSUME IInv, Reclaims, NEW c \in Calls, NEW i \in Ids, HandlerReturn(c, i)
  PROVE  Reclaims'
<1>1. Accounted(c, i) /\ <<c, i>> \in Entries
  BY ReclaimsAccounted DEF Entries
<1>2. /\ sdk[<<c, i>>] = "running" /\ sdk'[<<c, i>>] = "returned"
      /\ UNCHANGED <<phase, batch, handlerObserved, terminalStarted, handlerEntry,
                     sendEntry, aborted>>
  BY <1>1 DEF HandlerReturn, IInv, TypeOK
<1>3. /\ handlerEntry[<<c, i>>] \in {c, None}
      /\ handlerDone' = handlerDone \cup EntryOf(handlerEntry[<<c, i>>], i)
      /\ FinishEntry(handlerEntry[<<c, i>>], i, handlerDone', terminalSucceeded, sdk, aborted)
  BY DEF HandlerReturn, IInv, CapturesAreOwn
<1>4. \A d \in Calls, j \in Ids : active'[j] = d => active[j] = d
  BY <1>3, FinishLeavesOthers DEF IInv
<1>5. <<c, i>> \in handlerObserved => handlerEntry[<<c, i>>] = c /\ <<c, i>> \in handlerDone'
  BY <1>1, <1>3 DEF Accounted, EntryOf
<1>6. ASSUME active'[i] = c, <<c, i>> \in aborted
      PROVE  FALSE
  <2>1. active[i] = c /\ <<c, i>> \in handlerObserved
    BY <1>1, <1>2, <1>4, <1>6 DEF Accounted
  <2>2. SignalAborted(c, i, aborted) /\ <<c, i>> \notin terminalStarted
    BY <1>1, <1>2, <1>5, <1>6, <2>1 DEF SignalAborted, Accounted
  <2>3. Finished(c, i, handlerDone', terminalSucceeded, sdk, aborted)
    BY <1>5, <2>1, <2>2 DEF Finished
  <2> QED
    BY <1>3, <1>5, <1>6, <2>1, <2>3, FinishReleases DEF IInv
<1>7. Accounted(c, i)'
  BY <1>1, <1>2, <1>4, <1>5, <1>6 DEF Accounted, Live
<1>8. ASSUME NEW d \in Calls, NEW j \in Ids, d # c \/ j # i
      PROVE  SameRequest(d, j)
  <2>1. <<d, j>> # <<c, i>> /\ <<d, j>> \in Entries
    BY <1>8 DEF Entries
  <2>2. <<d, j>> \in handlerDone' <=> <<d, j>> \in handlerDone
    BY <1>3, <2>1 DEF EntryOf
  <2> QED
    BY <1>2, <1>4, <2>1, <2>2 DEF HandlerReturn, SameRequest, IInv, TypeOK
<1> QED BY <1>7, <1>8, OneAccounted

(* The abort listener releases when the handler is over and nothing was     *)
(* sent; otherwise an answer or the handler's end is still to come, or the  *)
(* guard never saw the handler.                                             *)
LEMMA CancelAccounted ==
  ASSUME IInv, Reclaims, NEW c \in Calls, NEW i \in Ids, Cancel(c, i)
  PROVE  Reclaims'
<1>1. Accounted(c, i) /\ <<c, i>> \in Entries
  BY ReclaimsAccounted DEF Entries
<1>2. /\ sdk[<<c, i>>] \in {"queued", "running", "returned", "sending"}
      /\ aborted' = aborted \cup {<<c, i>>}
      /\ UNCHANGED <<phase, batch, flags, sdk, handlerEntry, sendEntry>>
  BY DEF Cancel
<1>3. /\ handlerEntry[<<c, i>>] \in {c, None}
      /\ FinishEntry(handlerEntry[<<c, i>>], i, handlerDone, terminalSucceeded, sdk, aborted')
  BY DEF Cancel, IInv, CapturesAreOwn
<1>4. \A d \in Calls, j \in Ids : active'[j] = d => active[j] = d
  BY <1>3, FinishLeavesOthers DEF IInv
<1>5. ASSUME active'[i] = c, sdk[<<c, i>>] = "returned", <<c, i>> \in handlerObserved
      PROVE  FALSE
  <2>1. /\ handlerEntry[<<c, i>>] = c
        /\ <<c, i>> \in handlerDone
        /\ <<c, i>> \notin terminalStarted
    BY <1>1, <1>5 DEF Accounted
  <2>2. SignalAborted(c, i, aborted')
    BY <1>2, <2>1 DEF SignalAborted
  <2>3. Finished(c, i, handlerDone, terminalSucceeded, sdk, aborted')
    BY <2>1, <2>2 DEF Finished
  <2> QED
    BY <1>3, <1>5, <2>1, <2>3, FinishReleases DEF IInv
<1>6. Accounted(c, i)'
  BY <1>1, <1>2, <1>4, <1>5 DEF Accounted, Live, flags
<1>7. ASSUME NEW d \in Calls, NEW j \in Ids, d # c \/ j # i
      PROVE  SameRequest(d, j)
  <2>1. <<d, j>> # <<c, i>>
    BY <1>7
  <2> QED
    BY <1>2, <1>4, <2>1 DEF SameRequest, flags
<1> QED BY <1>6, <1>7, OneAccounted

(* A dropped answer is that of a cancelled request.                         *)
LEMMA SuppressAccounted ==
  ASSUME IInv, Reclaims, NEW c \in Calls, NEW i \in Ids, Suppress(c, i)
  PROVE  Reclaims'
<1>1. Accounted(c, i) /\ <<c, i>> \in Entries
  BY ReclaimsAccounted DEF Entries
<1>2. /\ sdk[<<c, i>>] = "returned" /\ sdk'[<<c, i>>] = "over" /\ <<c, i>> \in aborted
      /\ UNCHANGED <<phase, batch, active, flags, handlerEntry, sendEntry, aborted>>
  BY <1>1 DEF Suppress, IInv, TypeOK
<1>3. Accounted(c, i)'
  BY <1>1, <1>2 DEF Accounted, Live, flags
<1>4. ASSUME NEW d \in Calls, NEW j \in Ids, d # c \/ j # i
      PROVE  SameRequest(d, j)
  <2>1. <<d, j>> # <<c, i>> /\ <<d, j>> \in Entries
    BY <1>4 DEF Entries
  <2> QED
    BY <1>2, <2>1 DEF Suppress, SameRequest, IInv, TypeOK, flags
<1> QED BY <1>3, <1>4, OneAccounted

(* The send captures the owner's entry.                                     *)
LEMMA SendStartAccounted ==
  ASSUME IInv, Reclaims, NEW c \in Calls, NEW i \in Ids,
         SendAnswer(c, i) \/ SendFallback(c, i)
  PROVE  Reclaims'
<1>1. Accounted(c, i) /\ <<c, i>> \in Entries
  BY ReclaimsAccounted DEF Entries
<1>2. StartSend(c, i) /\ sdk[<<c, i>>] \in {"unhandled", "returned", "failed"} /\ Live(c, i)
  BY DEF SendAnswer, SendFallback, Live
<1>3. /\ sdk'[<<c, i>>] = "sending" /\ sendEntry'[<<c, i>>] = active[i]
      /\ UNCHANGED <<phase, batch, active, handlerObserved, handlerDone, handlerEntry, aborted>>
  BY <1>1, <1>2 DEF StartSend, IInv, TypeOK
<1>4. active[i] \in {c, None}
  BY <1>2 DEF IInv, LiveIsDispatchedOwner, OwnersAreCurrent
<1>5. Accounted(c, i)'
  BY <1>1, <1>2, <1>3 DEF Accounted, Live
<1>6. ASSUME NEW d \in Calls, NEW j \in Ids, d # c \/ j # i
      PROVE  SameRequest(d, j)
  <2>1. <<d, j>> # <<c, i>> /\ <<d, j>> \in Entries
    BY <1>6 DEF Entries
  <2>2. <<d, j>> \in terminalStarted' <=> <<d, j>> \in terminalStarted
    BY <1>2, <1>4, <2>1 DEF StartSend, EntryOf
  <2> QED
    BY <1>2, <1>3, <2>1, <2>2 DEF StartSend, SameRequest, IInv, TypeOK
<1> QED BY <1>5, <1>6, OneAccounted

(* The finally of a send that succeeded releases: the handler is over.      *)
LEMMA SendSucceedsAccounted ==
  ASSUME IInv, Reclaims, NEW c \in Calls, NEW i \in Ids, SendSucceeds(c, i)
  PROVE  Reclaims'
<1>1. Accounted(c, i) /\ <<c, i>> \in Entries
  BY ReclaimsAccounted DEF Entries
<1>2. /\ sdk[<<c, i>>] = "sending" /\ sdk'[<<c, i>>] = "over"
      /\ UNCHANGED <<phase, batch, handlerObserved, handlerDone, terminalStarted,
                     handlerEntry, sendEntry, aborted>>
  BY <1>1 DEF SendSucceeds, IInv, TypeOK
<1>3. /\ sendEntry[<<c, i>>] \in {c, None}
      /\ terminalSucceeded' = terminalSucceeded \cup EntryOf(sendEntry[<<c, i>>], i)
      /\ FinishEntry(sendEntry[<<c, i>>], i, handlerDone, terminalSucceeded', sdk', aborted)
  BY DEF SendSucceeds, IInv, CapturesAreOwn
<1>4. \A d \in Calls, j \in Ids : active'[j] = d => active[j] = d
  BY <1>3, FinishLeavesOthers DEF IInv
<1>5. active'[i] # c
  <2> SUFFICES ASSUME active'[i] = c
               PROVE  FALSE
    OBVIOUS
  <2>1. sendEntry[<<c, i>>] = c /\ <<c, i>> \in terminalSucceeded'
    BY <1>1, <1>2, <1>3, <1>4 DEF Accounted, EntryOf
  <2>2. ~InFlight(c, i, sdk')
    BY <1>2 DEF InFlight, IInv, CapturesAreOwn
  <2>3. <<c, i>> \in handlerObserved => <<c, i>> \in handlerDone
    BY <1>1, <1>2 DEF Accounted
  <2>4. Finished(c, i, handlerDone, terminalSucceeded', sdk', aborted)
    BY <2>1, <2>2, <2>3 DEF Finished
  <2> QED
    BY <1>3, <2>1, <2>4, FinishReleases DEF IInv
<1>6. Accounted(c, i)'
  BY <1>1, <1>2, <1>5 DEF Accounted, Live
<1>7. ASSUME NEW d \in Calls, NEW j \in Ids, d # c \/ j # i
      PROVE  SameRequest(d, j)
  <2>1. <<d, j>> # <<c, i>> /\ <<d, j>> \in Entries
    BY <1>7 DEF Entries
  <2> QED
    BY <1>2, <1>4, <2>1 DEF SendSucceeds, SameRequest, IInv, TypeOK
<1> QED BY <1>6, <1>7, OneAccounted

(* A failed send leaves the request answerable.                             *)
LEMMA SendFailsAccounted ==
  ASSUME IInv, Reclaims, NEW c \in Calls, NEW i \in Ids, SendFails(c, i)
  PROVE  Reclaims'
<1>1. Accounted(c, i) /\ <<c, i>> \in Entries
  BY ReclaimsAccounted DEF Entries
<1>2. /\ sdk[<<c, i>>] = "sending" /\ sdk'[<<c, i>>] = "failed"
      /\ UNCHANGED <<phase, batch, flags, handlerEntry, sendEntry, aborted>>
  BY <1>1 DEF SendFails, IInv, TypeOK
<1>3. \A d \in Calls, j \in Ids : active'[j] = d => active[j] = d
  <2>1. /\ sendEntry[<<c, i>>] \in Calls \cup {None}
        /\ FinishEntry(sendEntry[<<c, i>>], i, handlerDone, terminalSucceeded, sdk', aborted)
    BY DEF SendFails, IInv, CapturesAreOwn
  <2> QED
    BY <2>1, FinishLeavesOthers DEF IInv
<1>4. Accounted(c, i)'
  BY <1>1, <1>2, <1>3 DEF Accounted, Live, flags
<1>5. ASSUME NEW d \in Calls, NEW j \in Ids, d # c \/ j # i
      PROVE  SameRequest(d, j)
  <2>1. <<d, j>> # <<c, i>> /\ <<d, j>> \in Entries
    BY <1>5 DEF Entries
  <2> QED
    BY <1>2, <1>3, <2>1 DEF SendFails, SameRequest, IInv, TypeOK, flags
<1> QED BY <1>4, <1>5, OneAccounted

(* Every step accounts for the ids that are held.                           *)
LEMMA NextAccounted == IInv /\ Reclaims /\ [Next]_vars => Reclaims'
<1> SUFFICES ASSUME IInv, Reclaims, [Next]_vars PROVE Reclaims'
  OBVIOUS
<1>1. CASE \E c \in Calls : PostStep(c)
  BY <1>1, PostAccounted
<1>2. CASE \E c \in Calls, i \in Ids : HandlerStep(c, i)
  BY <1>2, HandlerStartAccounted, BuiltinAccounted, HandlerReturnAccounted,
     CancelAccounted, SuppressAccounted DEF HandlerStep
<1>3. CASE \E c \in Calls, i \in Ids : SendStep(c, i)
  BY <1>3, SendStartAccounted, SendSucceedsAccounted, SendFailsAccounted DEF SendStep
<1>4. CASE Close
  BY <1>4 DEF Close, Reclaims, OwnersAreWaitedFor, OwnersAreCaptured, SdkFollowsFlags, flags
<1>5. CASE UNCHANGED vars
  BY <1>5 DEF vars, flags, sdkVars, Reclaims, OwnersAreWaitedFor, OwnersAreCaptured,
     SdkFollowsFlags, Live
<1> QED BY <1>1, <1>2, <1>3, <1>4, <1>5 DEF Next

(* No id is held for nothing: whatever is cancelled, repeated or fails, in   *)
(* whatever order the sends and handlers end, the owner of an id is one the  *)
(* SDK has yet to look at or can still answer, or one cancelled under a      *)
(* handler the guard does not observe (release and finish, 40-58).          *)
THEOREM NoLostFinish == Spec => []OwnersAreWaitedFor
<1>1. Init => Reclaims
  BY DEF Init, Reclaims, OwnersAreWaitedFor, OwnersAreCaptured, SdkFollowsFlags, Entries
<1>2. IInv /\ Reclaims /\ [Next]_vars => Reclaims'
  BY NextAccounted
<1>3. Reclaims => OwnersAreWaitedFor
  BY DEF Reclaims
<1> QED BY <1>1, <1>2, <1>3, Invariance, PTL DEF Spec

=============================================================================
