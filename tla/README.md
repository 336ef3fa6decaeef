# dexter-mcp in TLA+

TLA+ models of the stateful parts of dexter-mcp, model-checked with TLC and, for
the safety properties that matter most, proved with TLAPS for every number of
sessions, requests, ids and credentials. Line numbers refer to the sources
under `src/`.

## 1. Inventory

dexter-mcp is one code base for two MCP servers over HTTP, the OpenDexter server
(`open-mcp-server.mjs`) and the full platform server (`http-server-oauth.mjs`),
with the tools they expose, a widget SDK for the hosts that render results, two
bridges for other transports, and the tooling that releases the OpenDexter
server. Nothing in the servers is persisted: sessions, pins and caches are maps
of one Node process; only the release tooling keeps its state in files.
Concurrency is that of JavaScript: a handler runs alone until it awaits, and
anything may run before it goes on.

| Component | State | Operations | Hard behaviour |
|---|---|---|---|
| Request correlation guard, `lib/open-request-correlation.mjs` | `active`: request id -> entry with five flags and an abort signal | reserve a batch, dispatch, observe a handler, send, cancel, release, close | two POSTs with one id; answer, handler end and cancel in any order; failed sends |
| OpenDexter session boundary, `open-mcp-server.mjs`, `lib/open-session-auth-state.mjs` | `transports`, `sessionMeta` (pins, lease), `userBindings` | authorize, pin, route, initialize, DELETE, onclose, reap, tool lookups | state read before an await and used after it; failing initialization; late lookups |
| Token verification and seeding, `lib/open-vault-oauth.mjs`, `lib/open-oauth-seed-budget.mjs` | key cache | verify, seed, bind | slow, refusing or malformed upstream |
| Legacy intent bridge, `lib/open-legacy-intent-bridge.mjs` | `records`: identity and request -> intent, amount, expiry, active or ambiguous | `recordCheck`, `rewriteLegacy`, purge | a second check of the same request; expiry; capacity |
| Open session resolution, `lib/open-session-resolution.mjs` | hints by token, token by MCP session | remember, link, resolve, create | two calls that both create |
| Full-platform server, `http-server-oauth.mjs` | nine maps by session id, `tokenCache` | authenticate, POST, GET, reap | transport used after awaits; late verdicts; cached tokens |
| Studio job runner, `toolsets/studio/lib/agentRunner.mjs` | `jobCache`, the job's row | start, run, cancel, summarize, evict | cancel against completion; a crash while running |
| Codex bridge, `codex-bridge.mjs` | client, transport, a promise used as a lock | run, reconnect, close | `onclose` of an old transport |
| Widget invocation lifecycle, `apps-sdk/ui/src/sdk/tool-invocation-lifecycle.ts` | up to 16 records with status and identity | input, metadata, result, cancel, timeout | two hosts' channels in any order; late results |
| Release activation, `scripts/release/open-release-core.mjs` | cutover lock, cutover journal, PM2's processes and its two dumps | acquire, activate, roll back, recover | a crash between any two steps; a failing rollback; two recoveries of one stale lock |
| Purchases, governed actions, wallet and portfolio reads | none of their own | requests to the Dexter API | deadlines; the state is elsewhere |
| Contracts, presentation, search policy, shared packages, widgets | none | pure functions and views | none of the kind modelled here |

How they interact: a request to `/mcp` of the OpenDexter server is authorized and
matched with a session (session boundary, which asks token verification);
a POST's body may be rewritten by the legacy bridge; then the session's
transport takes it through the correlation guard to the SDK, whose handlers
are the tools. Tools read the session tables by session id and, when they learn
whether the session has a vault, write to them. The reaper and the transport's
`onclose` end sessions from outside any request. The full-platform server has
its own tables and shares only toolsets and packages; it asks a provider who a token
belongs to before it looks at the session. The widget lifecycle
sees a call from the other end, in the host. The release tooling replaces the
process: to the tables above it is a restart. Its commands are processes of their own,
which meet in the lock directory, the journal and the files of PM2.

What makes the main components correct:

* correlation: an id names one live request; an answer leaves on the response of
  the POST that asked; an id is given up neither early nor never;
* sessions: a session has one owner from its opening on, only the owner reads,
  writes or closes it, nothing an awaited call answers late gives a closed
  session an identity again, an id that was closed never comes back, an unused
  session is closed, a request ends;
* legacy bridge: a fetch is rewritten to an intent only if the last word on that
  request is one unexpired check of the same identity and amount;
* jobs: a job ends in one final status that is the one users were told;
* invocation lifecycle: a result is shown for its own call, a cancelled call stays so;
* full platform: the same authority over sessions, no request with an expired token, a
  revoked one refused in the end, and no session kept for ever;
* release: one command at a time is at work; release and dumps change together, whatever
  fails and wherever a command dies; the other services' saved rows are never lost.

The hazards, each at its line, are in `PROJECT.json`.

## 2. Plan

1. `RequestCorrelation` against the abstract lock `RequestOwnership` - done.
2. `OpenSession` against the abstract `SessionAuthority` - done, with proofs.
3. `LegacyIntentBridge`: records, expiry and capacity with bounded time, against the
   history of checks - done, with proofs.
4. `StudioJob`: cache, row, runner, cancel, crash - done, with proofs.
5. `ToolInvocation`: the lifecycle store with the events of both channels - done,
   with proofs.
6. `PlatformSession`: the tables of the full-platform server and its token cache,
   against the same abstract `SessionAuthority` - done, with proofs.
7. `CutoverLock` against the abstract `CutoverClaim`: the lock, its recoveries and their
   mutual exclusion - done, with proofs.
8. `PrivateCutover` against the abstract `AtomicCutover`: failures and crashes at every
   step, rollback and recovery - done, with proofs.
9. Left: the public activation beyond its use of the lock, the Codex bridge, and a
   composition of `OpenSession` and `RequestCorrelation`, a session's close and the
   requests in flight; and proofs of the safety half of the remaining liveness
   properties. Open session resolution is dropped: no server imports it.

Theorems follow each module: the inductive invariant, its consequences, and the
refinement where there is an abstract specification. Runs stay under five
minutes: two or three actors, one or two of everything they fight over. Each
module has one run, its safety and liveness together, unless they need different
instances; the suite is a dozen.

## 3. Modules

| Module | What it is |
|---|---|
| `RequestOwnership` | abstract: an id is a lock, taken for a whole batch, given back when nothing is open under it |
| `RequestCorrelation` | the guard and, external, what the SDK does with a request |
| `MCRequestCorrelation` | instances and symmetry |
| `RequestCorrelation_proofs` | theorems about the guard |
| `SessionAuthority` | abstract: a session id is absent, live with one owner, gone |
| `OpenSession` | the session boundary of the OpenDexter server |
| `MCOpenSession` | instances and symmetry |
| `OpenSession_proofs` | theorems about the boundary |
| `LegacyIntentBridge`, `MCLegacyIntentBridge`, `LegacyIntentBridge_proofs` | the bridge for retired `x402_fetch` calls; its symmetry; its theorems |
| `StudioJob`, `MCStudioJob`, `StudioJob_proofs` | the Studio job runner; its symmetry; its theorems |
| `PlatformSession`, `MCPlatformSession`, `PlatformSession_proofs` | the sessions of the full-platform server, a second implementation of `SessionAuthority`; its instance; its theorems |
| `CutoverClaim` | abstract: an exclusive claim, taken when free, never taken from one at work |
| `CutoverLock`, `MCCutoverLock`, `CutoverLock_proofs` | the lock of the release commands; its symmetry; its theorems |
| `SavedState` | the saved state of PM2, shared by the next two |
| `AtomicCutover` | abstract: release and dumps change in one step |
| `PrivateCutover`, `PrivateCutover_proofs` | activation, rollback and recovery of the private service; its theorems |
| `ToolInvocation`, `MCToolInvocation`, `ToolInvocation_proofs` | the widget's store of tool calls; its symmetry; its theorems |

### RequestCorrelation

An entry of `active` is identified by its POST and its request id; the fields of an
entry are sets of entries (`dispatched`, `handlerObserved`, `handlerDone`,
`terminalStarted`, `terminalSucceeded`); `terminalInFlight` is derived from the
sends in progress. `phase` follows `transport.handleRequest`: `Reserve` and
`Refuse` are its synchronous part, `Settle` its `finally`, `Dispatch` the
`onmessage` wrapper. `HandlerStart`, `HandlerReturn` and `Cancel` are
`observeServer`'s wrapper, `StartSend`, `SendSucceeds` and `SendFails` the wrapped
`send`. `Finished` and `Release` are `finish` and `release`; they are called where
the code calls them, as part of those actions. The comparison in `release` (line 41) is
defensive: `finish` makes it too, an undispatched entry is still in the map when its
POST ends, and no property here depends on it. The SDK (external) is the small
machine `sdk`: it schedules a handler, drops the answer of an aborted request,
tries a second send after a failed one, and keys streams by request id.
Not modelled: the text of errors and the log lines. Notifications and responses
inside a batch reserve nothing and are left out. Each POST is used once, so a
retry is another POST.

### OpenSession

The handler of a request runs from await to await; `pc` names the await, and the
action that follows it is everything up to the next one: `seed` (a Bearer is
re-verified with dexter-api), `linkBind` and `linkProbe` (a link token is
bound), `body`, `sdk` (the SDK and the tool have the request), `closing`
(DELETE), `initBody`, `initSeed`, `initLink`, `connect` (initialization), and
`threw`: the async listener rejected, which ends a Node process without an
`unhandledRejection` handler. `meta` holds the fields of `sessionMeta` that any check
reads; `idle` is the age of `lastActivity` against the two leases (90 minutes and
7 days by default). `verdict` and `published` are history variables: what
dexter-api said of the credential, and the ids clients can know. Clients only
name ids that were sessions once; an unguessable id that never was one is
answered like a stale one. Requests that need no session state (discovery,
widgets, CORS) are not modelled.

`Age` does not let a lease pass while a session's request is reading its body
(Node gives it five minutes, the shortest lease is ninety) or while it is being
initialized (seconds). A tool call may outlast a lease.

### LegacyIntentBridge

`records` is the map; a key stands for the hash of identity and exact request.
`RecordCheck` and `RewriteLegacy` are the two functions whole, each beginning with the
purge; `Untouched` is the early return either may take after it. Both are synchronous,
so what can go wrong is a long sequence: conflicting checks, their different
expiries, and room running out. `offers` and `until` are history: which intents and
amounts the checks of a key named since the last time none of them was
unexpired, and when the last of them expires. A check refused for want of room is
not history: nothing is promised for it. `fetch` is the retired call just served. The
seller's expiries are reduced to the one that counts, and an expiry in the
past stands for none. The map is the process's; a restart is `Init`.

### StudioJob

`cache` and `row` are a job's status in `jobCache` and in `studio_jobs`; `runner` is where
`createJob` and then `runJob` await, `cancel` and `target` where each call of
`cancelJob` does. In memory a status changes at once, its row when the write
ends (`RowWrite`): a write that fails is logged and dropped, which the history variable
`lost` remembers, and a memory-only job (no database client) is one all of whose writes
are dropped. `AgentThrows`, `AgentMessage` and `AgentDone` are the agent's;
`overdue` says that it has run for longer than its limit. `Crash` ends the
process: `orphans` are the jobs it interrupted. Nothing orders the write of a cancel and
those of the runner, nor bounds how long one takes; only the writes of one
caller are in order, because it awaits them.

### ToolInvocation

The store handles one event in one go, so `store` is one variable, and the methods of
`ToolInvocationStore` are operators from store to store with the names of the code. A
record's key is its identity (tool, request, widget session, any of them unknown):
`Rekey` is `rekeyActiveRecord`, and `order` the insertion order of the `Map` that
`Prune` goes by. An output is reduced to its origin, the binding it came with or none;
`hydrates` marks the record `initialLegacyHydrationRecord` points to; `timer` is a timer
that is set. The events are those of `adapter.ts`: contexts, inputs, results and
cancellations of the MCP Apps bridge, and ChatGPT's globals, as a snapshot (which may
attach an output without a binding, once) or as a change; any number of each, in any
order. The adapter's filter for snapshots it has seen is left out: a snapshot may
come twice. `emit` calls the listeners in the middle of an event (after `activate`, for
one), and a component that subscribes there hydrates the globals before the outer event
is over: one event inside another is not modelled, and the properties speak of
the store between events. A record that was dropped or replaced keeps a timer in the code; it can
touch nothing the store still holds and is gone in the model. `MaxRecords` is 16 in
the code.

Two records can be of one call, one staged with its session and one without;
when a context completes the name of the active one, it replaces the other, whatever
the outcomes. No comment says which should win, so no property does.

### PlatformSession

A request is verified first, and only then is its session looked at: `ArriveLocal`,
`ArriveCached` and `ArriveUnknown` are the ways `validateTokenAndClaims` goes, and
`Decide` and `Deliver` the moment a provider makes up its mind and the moment its
answer arrives, between which sessions close, tokens expire and accounts lose
their access. `known` is `hasSession`, read before the await. `Admit` is what follows
the verdict; a POST then waits (`reading`) and an initialization goes through
`Publish`, `Serve` and `Seed`. `activity` is the age of `sessionLastActivity`; the
reaper goes by it alone. A `DELETE` is answered 405, so only the reaper and a restart end sessions.
Ids are random, so a client only names ids that were given out.

An expired entry of `tokenCache` is as good as none, although the code never removes
it; entries of locally verified tokens are written and never read, and are left out.
Which of two providers answers decides the kind of identity (`IdentityOf`), so an
outage of one can refuse the owner of a session for as long as a verdict is cached.
`sessionWalletOverrides`, which nothing clears and no check reads, is left out. A
`handleRequest` that throws after it published a session would leave it without an
activity record, out of the reaper's sight; the SDK catches what could throw there.

### CutoverLock

Every process is one run of a command, and `pc` names the file-system call it makes
next: the lock is a directory, and what is at its path may be renamed, emptied or replaced
between any two calls. `lock` is the directory at the path, by the process that made
it; `owner` and `written` are the existence and the contents of its `owner.json`; `aside` is a
recovery's quarantine. `Observe`, `Judge`, `Capture`, `Compare`, `Prepare`, `Install`, `Discard`
and `Restore` are the recovery's branch of `acquireReleaseCutoverLock`; `Look` to
`Abandon` its common end; `CheckRelease`, `Unlink` and `Rmdir` are `release`. `journal` is
what decides whom a recovery may replace. `Crash` ends a process before any call; a pid
is not used again. Whatever a process does with the lock is one word, `cs`. `Prepare` has no failure of its
own: the states after one are reached through a failed `Install`.

`Overlap` is the operator's discipline: a recovery is started when no other recovery
runs and the activation to be recovered is over. Activations come and go as they like.
With it the properties hold; without it they do not (finding 2).

### PrivateCutover

`live` and `up` are the row `dexter-mcp` of PM2 and the process behind it, `primary` and
`backup` the two dumps, reduced to the release they start and the rest of their rows.
`way` is what the running command is doing: `forward` to the commit; `refused`, because there is
a journal; `undo` before the service is touched, `rollback` after; `salvage` when the
rollback failed too; `recover`. `step` is the call it makes next, so an action is one
call with its effect, and `Fallback` is where a `catch` goes from each. `mine` is
what it read before it began, and the journal when it recovers. The lock is one word here,
which `CutoverLock` justifies. `kept` says that the public service is the process, and
the other rows are the rows, that the command or the journal saw: the code compares
pids and kernel identities, so after a reboot or a restart of the public service a
journal can no longer be recovered (`JournalIsResolved` names that case).

A failed call is one without effect; one that fails after its effect is the failure of
the next call. Two such cases have no next call and are left out: a `clear()` that
removes the journal and then fails to sync the directory makes a verified commit roll
back, without a journal meanwhile; and a PM2 command that times out may still take
effect later. A command that dies before its journal is whole, or a second
activation that dies over the journal of the first, leaves a lock no recovery may
replace (`orphaned`): an operator removes it by hand, which is not an action. `MaxFaults` bounds failures,
crashes, deaths of the service and disturbances together.

## 4. Runs

All runs use `-workers 2` and end within five minutes.

| Run | Instance | Shows |
|---|---|---|
| `correlation_batch` | 2 POSTs, 2 ids | one live request per id, early release never, answers on the right stream, no id kept that nobody will give back, with batches, cancels, failed sends, disconnects and close; `RequestOwnership` is implemented |
| `correlation_reuse` | 3 POSTs, 1 id, fair | an id is handed on only when its owner is over, and comes back but for `Stranded` |
| `session_safety` | 1 session id, 3 requests, 2 Bearers, 1 link token, 2 handles | one owner, used by the owner only, on which nobody else leaves a trace; orphans name nobody, bindings follow sessions; `SessionAuthority` is implemented: no reopening, no change of owner |
| `session_liveness` | 1 session id, 2 requests, fair | unused sessions close, requests end |
| `session_listener` | 1 session id, 2 requests | finding 1 of section 7 |
| `legacy_bridge` | 3 keys, 2 intents, 2 amounts, capacity 2, lifetimes 2 and 3, 5 instants | a retired call is rewritten exactly when its live checks agree; a check runs its course, whatever is checked after it; the map is bounded |
| `studio_jobs` | 2 jobs, 2 cancel calls, fair | final rows and settled outcomes, the same in memory and in the row, with dropped writes and crashes; jobs leave the cache |
| `tool_invocation` | 1 tool, 2 requests, 2 widget sessions, 2 records | outputs stay with their call, an unbound one with a single call; no wait without a timer; a finished call keeps its outcome, on the screen and beside it |
| `platform_sessions` | 1 session id, 2 requests, 1 token of a provider with 2 identities, 1 local token, lifetimes of 1 to 3, fair | only the owner is let through, with a live token; `SessionAuthority` is implemented; what a revoked token is good for only runs out; untouched sessions leave every table, revoked tokens are refused in the end |
| `cutover_lock` | 2 private and 1 public activations, 2 recoveries one after the other | one command at work, which finds its own lock when it releases it; a recovery captures the lock it judged; `CutoverClaim` is implemented |
| `cutover_contenders` | 1 activation of each kind, 2 recoveries at once | finding 2 |
| `private_cutover` | 2 releases, dumps with and without other rows, 3 faults, fair | `AtomicCutover` is implemented; the other services' rows stay; the service is always one a recovery may replace; an interrupted cutover is resolved |

Bounds. The correlation guard acts on one id at a time except for a batch, whose ids
interact only through "all free": two ids show it, and three POSTs on one id show
an old owner, a current one and a newcomer. In the session model requests
interact only through one session's tables: three show a user of the session, one
that closes it and one that presents another credential. That ids are not mixed up
is what the theorems add. Each id is drawn once, as `randomUUID` does, so the
number of sessions over time is bounded by `Sids`; restarts are not bounded.
Keys of the bridge meet only in its capacity, which three keys exhaust; two intents
and two amounts conflict in either; the clock ends at `Horizon`, after the
default lifetime has passed twice and the longest one once. Jobs never
meet; two show that a cancel call takes the right one, and two calls that one
cancels over the other. Crashes are not bounded. In the
widget's store identities are compared part by part: two requests and two
sessions disagree in either, two records are the call on the screen and another one, and
a third identity prunes. A context that fits two staged calls at once (line 282) needs a third
record, which that instance does not have; the five properties also hold with three
records and either one request or one session, instances too slow to keep. The theorems hold for any number of each.

In the full-platform model a second session id adds nothing the tables relate; the
theorems cover it. Its lifetimes are the smallest at which a token can outlive a
verdict, a verdict a request, and a request a session. Five processes at the lock are
the dead owner, the recovery that takes over, the next recovery, and an activation of either
kind that arrives in between; ten such commands differ from two in nothing the lock
records. Three faults are one in the activation, one in its rollback and one in the
recovery; releases and rows are only compared for equality.

`CHECK_DEADLOCK FALSE` is set where the system stops: a session whose POSTs
are all answered (the correlation runs), commands that have all ended (the two runs of the
lock), and a host that waits for its operator, over a torn journal or an orphaned lock
(`private_cutover`). The other models never stop: the session and job models
can restart, the bridge and the widget's store always take another event.

Symmetry is used in the runs without a liveness property; the abstract
specifications have no liveness part.

Every module has a `TypeOK`. It is proved for each (`TypeCorrect`) and only run for the
widget, where it says that the order lists the records and is never longer than the store has room
for; the other runs spend their time on properties that could be wrong.

## 5. Fairness

* correlation: `Settle`, and per request the disjunction of the SDK's own steps. A
  handler ends because every tool bounds its upstream calls by a timeout; cancels,
  disconnects, the close, a second send and the choice between success and failure
  are not assumed.
* sessions: weak fairness of every `Continuation` of a request (seed and bind calls
  carry timeouts of seconds, Node bounds the time a request may take to arrive), of the
  end of a tool call (but not of a GET, whose stream may stay open for ever), of
  time and of the reaper (a ten minute interval), and of a restart after a crash
  (a process manager runs the server). No fairness for arrivals or verdicts.
* jobs: `FairSpec` has weak fairness of the runner's own steps, of cancel calls (awaited
  calls end) and of time; nothing is assumed of the agent, which is another
  program. `TalkingSpec` adds that an overdue agent sends another message: `JobsLeave`
  holds under it.
* full platform: time passes and the reaper's interval fires; nothing is assumed of
  providers, bodies or database calls. So `UntouchedSessionsAreForgotten` leaves out the
  session whose own initialization never ends.
* private cutover: a command makes its next call, PM2 restarts what it keeps (weak), and an
  operator who sees a journal runs the recovery again (strong, since a lock
  held by another command disables it).

## 6. Proofs

`tlapm` checks every leaf. Assumptions are those of the modules: `None` is not a
POST, a credential, a handle, a session id, a process, a release or a dump, and Bearer
identities and link digests differ; in the full-platform model `None` is not a number either (an
absent lifetime is not one of zero); the bridge's lifetimes and capacity are positive, its
keys finite; the widget keeps two records at least; the kinds of tokens and of release
commands are disjoint; a journal is neither absent nor torn.

*Correlation.* `OneLiveRequestPerId` is not inductive by itself: it needs that
a live request owns its id and was dispatched (`LiveIsDispatchedOwner`), which
needs that handlers and sends captured their own entry (`CapturesAreOwn`), that flags
say what the SDK did (`FlagsFollowSdk`: an entry with a success is over, so that
`finish` releases nothing alive) and that a POST being handled holds all its ids
(`OwnersAreCurrent`). `Invariance` proves their conjunction `IInv`, one lemma per
action; `UniqueLiveRequest`, `LiveOwnership` and `AnswerDelivery` follow,
`ReleaseDiscipline` is an action property on top of it, and `Refinement` maps every
step to a step of `RequestOwnership` or a stutter. `NoLostFinish` is the safety half of
`IdsComeBack`: an owner in no one's hands would have missed the `finish` that releases it.
`Reclaims` strengthens it: whoever owns an id was handed its own entry by the wrapper
of `send` and of the handler (`OwnersAreCaptured`), and what its flags say has begun, the
SDK has come to (`SdkFollowsFlags`). What is left of `IdsComeBack` is fairness, and the one case of
an owner cancelled before a handler the guard does not observe answers.

*Sessions.* `OnlyOwnerUses` needs what each request may assume of its session between
its awaits (`RequestInv`): whoever got beyond verification was accepted and, if the
session still lives, is the one it is pinned to; whoever is initializing holds
an id no client knows (`InitIdsDiffer`), with metadata already pinned. With
`PublishedIsPinned`, `OrphansCarryNoIdentity`, `BindingsBelongToSessions` and
`MapsNest` this is inductive (`Invariance`). `Refinement` shows that a published session's
owner, read off its metadata, changes only when the session opens or closes. Two more
results need that invariant. `OwnersOnlyLeaveTraces`: while a session lives, a step that alters its
metadata, closes it or resets its age is one of a request that presented the owner's
credential and had it accepted, of the reaper, or a restart. `OnlyClosedSessionsThrow` says how
far finding 1 reaches: only a request accepted for a session, on which every check passed, makes
the listener throw, and only once that session is gone.

*Legacy bridge.* `RecordsFollowOffers` ties each unexpired record to the history of its
key: same expiry, its intent and amount are one of those named, and it is active exactly
when they are all that was named. Expired records not yet purged tell nothing.
It is inductive together with `RecordsAreBounded`; `FetchFollowsChecks` is part of the
conjunction because a call is served by the record it finds. `RecordsRunOn` is an action
property on top of it: a record that has not expired when a step ends is still there, with its intent and
amount, does not expire earlier than before, and is ambiguous if it was; full or not, no later check,
refusal or purge shortens an earlier one.

*Jobs.* `FinishedJobsAreFinal` needs what a row holds at every stage of its runner
(`RowsFollowRunners`) and that a cancel call's job has begun (`CancelsKnowTheirJob`), which
needs that a job is cached while it has a runner and pending until that begins
(`CacheFollowsRunner`). The action property `OutcomesAreSettled` follows from
the same invariant: a call that has read a row met no runner, so what it overwrites is
still running or was cancelled by another call. `OneOutcome` relates memory to the row: while a finished
job is cached, its row tells what the cache tells, or `cancelled`. It needs `MemoryKnows`, that the
outcome is in memory before it is written and stays there.

*Full platform.* `OnlyOwnerUses` is inductive together with what a request may rely on at each
stage (`Knows`): who was let through was compared with a session that lived then, an id it found
closed on arrival is never opened later, and whoever initializes has been verified.
`OnlyUnexpiredGoOn` is an action property on top of it: the three actions that let a
request go on all look at what is left of the token then. `Refinement` is the second
implementation of `SessionAuthority`. `RevocationHolds` is the safety half of
`RevokedTokensAreRefused`: once a provider has withdrawn an account, the answers it gave before run
out, one by one, and each can start one more verdict; between them the cached verdict
only grows older, and nobody goes on without it. `NothingIsOverlooked` is that of
`UntouchedSessionsAreForgotten`: the reaper goes by the activity alone, and whatever is kept of a session
has one, but while the request that opens it is at work.

*Cutover lock.* The proofs are in two layers, to tell the lock from the discipline of its users.
`Core` is inductive for any recoveries, overlapping or not, whose captures are the
compare-and-swap the code means them to be (`CasInvariance`, under `CaptureIsACas`). Its heart is
`HoldersHold`: whoever is at work owns the directory at the path, which stays so because a directory
has one place (`DirectoriesAreFresh`, `DirectoriesAreApart`) and a capture takes that of a dead owner
only. So `OnlyTheCaptureBreaks`, `OnlyTheCaptureLosesLocks` and `OnlyTheCaptureBreaksClaims` prove
that the capture of finding 2 is the only way mutual exclusion, the release and `CutoverClaim`
can fail. `Alone` adds, for recoveries that do not overlap (`~Overlap`), that what one has judged replaceable
stays where it is until it is captured (`ReplaceableStays`): the owner is dead, no other recovery runs
(`RecoveriesAreAlone`), and nobody else moves a directory. From it `CaptureCompares` proves the
condition, and `OneAtWork`, `OwnLock` and `Refinement` follow under `~Overlap` alone. `Refinement` maps the
owner of the directory at the path to the holder of `CutoverClaim`. `TypeCorrect` needs neither.

*Private cutover.* What a command has done so far is a function of its next call
(`LiveIsKnown`, `SavedIsKnown`), and whoever changes anything has its journal (`JournalIsMine`).
So while there is a journal the host maps to what the journal would bring back, and the step
that removes it finds either that (`undo`, `rollback`, `recover`) or the whole new state
(`forward`), which `Refinement` shows to be a stutter or one `Cutover`. `NeighboursStay` needs
`SameRest`: the rest of `dump.pm2` is the journal's at every moment. `RecoverableService` and `UnhinderedRecovery` are
the safety half of `JournalIsResolved`: the service is missing only under a journal, and what runs is one of the two
releases it names, so a recovery is never refused because of the service it is to replace.

*Widget.* `Sound` says of a store that each record fits its key (`RecordsFit`: the name knows all that the
binding of the output knows, a timer runs exactly while the call waits, and only the first,
anonymous record is nobody's), that an anonymous
call is alone until it has an output (`FirstIsAlone`, so a binding that takes its place always
finds a new record), and that the unbound output is that of the one record armed for it
(`OneHydrates`). One lemma per method of the store shows that it keeps a store sound: all of
them but the arming of the snapshot and the dropping and renaming of records come down to `PutKeeps`,
the writing of one record. `BoundOutputs`, `UnboundOutput` and `Deadlines` are read off `Sound`. `Outcomes` needs one more look
at every method: for a finished call all but `activateHostContext` do nothing, complete its name
or stage another one beside it, and the contexts that do not fit it differ from it in a part that
both know (`Apart`), so what they bring on the screen cannot be mistaken for it. Of the calls beside the screen
it says that the shown call is renamed and changed, and nothing else (`Beside`), but where a call is staged or comes
on the screen: a staged call with an outcome keeps it (`StagedLeaves`), and a context that completes a
name never meets the record of another call under the completed one, which it would have chosen instead (`StagedFor`).
The capacity must be two at least: with one, the record that is made beside an
unclaimed output would drop itself.

Only model-checked: liveness (`IdsComeBack`, `UnusedSessionsClose`, `RequestsEnd`,
`JobsLeave`, `UntouchedSessionsAreForgotten`, `RevokedTokensAreRefused`, `JournalIsResolved`)
and the violated properties; the provers have no ENABLED and no liveness rules. Of four of
them the safety half named above is proved; of `UnusedSessionsClose`, `RequestsEnd` and `JobsLeave` nothing is but the invariants.

## 7. Findings

1. `session_listener`: a POST's body is awaited before the transport is fetched
   (3941, 3966). If the session closed meanwhile, `undefined.handleRequest` throws out
   of the listener, where the comment next to it promises a 404.
2. `cutover_contenders`: a recovery reads the stale owner, judges it, and then renames
   whatever directory is at the path (`open-release-core.mjs:1936-1978`). When another command took and
   released the lock in between, and a third one made its own, the live one is moved aside: the next
   command finds the path free and is at work beside its owner. The comment there says that
   only one contender can capture the observed dead owner and every other one loses.

Seen but not counted, as no comment says otherwise or the harm is small:

* the reaper walks `transports`, so metadata without a transport (an initialization
  answered 400, a tool lookup that ends after its session closed) stays until a restart
  (`open-mcp-server.mjs:4199`), and a link token on such an id is told it belongs to another
  authorization, not 404 (3777);
* a tool lookup without a binding clears `vaultBound`, which moves an authenticated session to
  the lease meant for sessions never bound (4202);
* a session that closes while its owner is re-verified answers that owner 401, not 404;
* a Studio job's time limit is looked at only when its agent sends a message
  (`agentRunner.mjs:463`), so a silent agent is never given up; a cancelled job's agent goes on and
  its outcome replaces the cancellation (the code says "best effort"); no code ends the
  `running` row of a job that a crash interrupted;
* a call named without its widget session may show the unbound output of session a and
  then be named with session b: sessions are compared for unnamed records only
  (`tool-invocation-lifecycle.ts:292, 311, 333`), the order the test at line 721 has;
* a public activation looks for a journal before it takes the lock
  (`open-release-core.mjs:3260-3261`), so a private cutover may be interrupted in between.

## 8. Not modelled

Payloads, wording and formatting; HTTP details other than the status class;
verification of tokens and signatures (their verdicts are nondeterministic);
the MCP SDK beyond what the guard relies on, its batch bookkeeping among
others; PM2 beyond the row of one service and the files it saves; files other than the
lock, the journal and the dumps; everything listed `not_modelled` in `PROJECT.json`, with
the reason there. Most of the repository's lines are compiled widget bundles, schemas,
wording and adapters from a tool call to one remote request: there is no state of the
program's own in them.
