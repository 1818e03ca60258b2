# OpenACP in TLA+

OpenACP bridges coding agents (processes speaking the Agent Client Protocol) to
chat platforms: Telegram, an SSE/HTTP API, other adapters. One daemon process
runs many *sessions*; a session has one agent process, a prompt queue, one or more
connected adapters and a durable record. The code is single-threaded TypeScript.
Inside the daemon everything hard happens at an `await`: every promise that is pending
lets any other handler run, and most of the code after an `await` is there to find out
what changed meanwhile. Around it, processes that die between two file operations leave
the next one to find out how far they came, and commands of the command line share files
with the daemon.

The modules of this directory model those interleavings. **An action is a run of
the code from one await to the next**, or, where the process may die or another one
reads, one file operation; a promise that may settle late, fail or never settle is an
action of its own. This document says what the parts are, which
module models which, what the runs show, what is proved, and what is left.

Paths below are relative to the repository; the program is under `src/core` and
`src/plugins` there. `PROJECT.json` maps every definition to its lines.

## 1. Inventory

### The session core (modelled or partly modelled)

| Component | State | Operations | Interacts with |
|---|---|---|---|
| **Prompt queue** `core/sessions/prompt-queue.ts` | `queue`, `processing`, one active frame with its abort generation, `cleanup`, `closed`, `terminalReleased` | `enqueue`, `abortCurrent`, `clear`, `close`, `releaseAfterTerminalTeardown`, `clearPending`, `prioritize`, `process` | one per session; the session supplies the processor (a prompt to the agent) and the cancellation (`beforeDrain`) |
| **Session turns** `core/sessions/session.ts` | status machine, turn identity, terminal boundary, terminal delivery (recipients, claims, completions), controls (config options, model), agent instance | `enqueuePrompt`, `abortPrompt`, `activate/fail/finish/markCancelled`, `beginTermination`, `switchAgent`, `destroy`, terminal delivery operations | queue, permission gate, agent instance, bridges (listeners), manager (lifecycle events) |
| **Permission gate** `permission-gate.ts` | one pending request, its promise and its timer (10 minutes) | `setPending`, `resolve`, `reject`, timeout | the handler the first bridge installs; the adapters' click callbacks; an HTTP route |
| **Session bridge** `session-bridge.ts` | connected, tracked listeners, owner of the permission handler, terminal events in flight | `connect`, `disconnect`, `dispatchAgentEvent`, `deliverTerminalEvent`, `resolvePermission` | session, middleware chain, adapter, manager |
| **Session manager** `session-manager.ts` | live sessions, registration leases, mutation queue per record, admission lock and reservations, cancellation and teardown operations, shutdown | `reserveSessionCapacity`, `register`, `ensureSessionPromptAdmission`, `patchRecord`, `cancelSession`, `finalizeFinishedSession`, `startSessionTeardown`, `removeRecord`, `shutdownAll`, `destroyAll` | session, store, factory |
| **Session store** `session-store.ts` | working records, durable generation, pending mutations, debounce timer, file | `save` (immediate or debounced), `remove`, `flush`, `cleanup` (expiry), load | file system; the manager is its only writer |
| **Session factory** `session-factory.ts` | resume locks, lazy resume promises | `create`, `lazyResume`, `wireSideEffects` | agent manager, manager, core |
| **Agent switch** `core/agent-switch-handler.ts` | the lock per session, attached adapters leased for the switch, the transaction's snapshot | `switch` = `doSwitch` | session, bridges, manager, plugins' `agent:beforeSwitch` |
| **Orchestrator** `core/core.ts` | bridges per adapter and session, services | `createSession`, `handleNewSession`, message routing, `attachAdapter`, `detachAdapter`, headless handlers | everything |
| **Elicitation gate** `elicitation-gate.ts` | up to eight pending forms with timers, the last 64 settled ids | `request`, `resolve`, `cancel`, `cancelTurn`, `cancelAll`, timeout | bridges, adapters, API route, agent |
| **Terminals** `terminal-manager.ts` | agent-owned child processes, an output ring each | `createTerminal`, `getOutput`, `waitForExit`, `kill`, `release`, `destroyAll` | agent instance |

### Around the core

| Component | What it keeps | Hard behaviour |
|---|---|---|
| Agent instance and connection `core/agents/agent-instance.ts` | one child process, the ACP connection; for all of them the failed handshakes and their capacity | destroys that fail and are tried again, a shutdown under a budget |
| Agent manager `core/agents/agent-manager.ts` | one warm process, its prewarm, claim, reaper and destroy | a route or definition that changes during a prewarm or a claim; the shutdown at any moment |
| Agent catalog, store, installer `core/agents/*` | `agents.json`, the directory of a runtime, a journal per transaction, a lock | crashes between renames, rollbacks that fail, names rewritten beside it |
| Agent actions `core/agents/agent-action-policy.ts`, `core/agent-action-delivery.ts` | policy, deliveries | decisions racing the end of their turn |
| Attachment delivery `core/attachment-delivery/*` | a journal of deliveries surviving restarts | idempotent retries, a crash between sending and recording |
| Plugin installation `core/plugin/plugin-installer.ts` | package tree, plugin data, registry entry, their backups and a journal | three things that change together or not at all, whatever fails or dies |
| Plugin runtime `core/plugin/*` | load order, states, error budget, middleware chain, services | hot reload, middleware that times out, topological boot |
| Network proxy settings `core/network/*` | policy and credentials in two files, a journal, a lock; transports | crashes between the two files, readers without the lock, candidates tested for seconds |
| Configuration, settings | JSON files with serialized transactions | read-modify-write against hand edits |
| Adapter primitives `core/adapter-primitives/*` | rate-limited queue, drafts being edited | superseded edits, flushes racing finalization |
| API server, SSE adapter `plugins/api-server`, `plugins/sse-adapter` | tokens, refresh deadlines, connections, a replay buffer | replay against live events, eviction at the limits |
| Tunnels `plugins/tunnel` | tunnel processes, retries, a persisted list | retry against stop, restart with a stale list |
| Telegram adapter `plugins/telegram` | topics, permission callbacks | clicks on buttons of requests that are over |
| Notifications, context, speech, files, identity, security | small services | mostly data |
| CLI, setup, doctor, UI packages, plugin SDK | none in the daemon | argument parsing, wizards, types |

`PROJECT.json` lists all of them under `components` with their sources and status, and
under `hazards` each thing in this code that is hard to test, at its line.

### How the parts interact

- **Calls**: adapters call the orchestrator; the orchestrator creates and resumes
  sessions through factory and manager; bridges call the manager for records.
- **Events**: an agent emits into the session, the session to the listeners of
  every connected bridge, a bridge through the middleware chain to its adapter.
- **Promises kept by one party and settled by another**: a permission (gate, bridge,
  adapter, API), a prompt's completion (queue, agent, cancellation), the terminal
  delivery (session, every bridge), cancellation and teardown (manager, factory).
- **Shared durable state**: the record of a session. Bridges, the switch, cancellation,
  shutdown and resumption all write it, through one FIFO per session in the manager and
  through the store's working view.

### What makes each part correct

- *Queue*: one processor at a time; a cancellation requested for a turn is over before
  another turn starts; every submission settles; a terminal teardown frees its callers.
- *Completion*: exactly one of completion, cancellation and shutdown wins; a completion
  is published only when it is durable; a recipient is not cut off in the middle; a
  claimed delivery and a cancellation that joined it end.
- *Permissions*: an answer reaches the request it was given for, never its successor; a
  request some bridge took on is answered.
- *Switch*: one agent process per session; the controls shown are those of the committed
  agent; a failed switch rolls back agent, controls and record together; the bridges
  leased come back; a cancellation frees the switch; no agent is orphaned.
- *Admission*: the limit holds under concurrent creation, resumption and reactivation; a
  running session owns its slot; who is in line is answered.
- *Store*: the working view is the durable generation with the pending mutations
  replayed over it, also after a failed write in the middle; what was accepted is
  scheduled for the disk.
- *Records*: an acknowledged cancellation is undone by no attempt it overtook, no queued
  patch, no shutdown and no crash; an agent nobody destroys belongs to the registered
  session; record and published session end together, and a published session runs on
  a durable record; a superseded attempt and a cancellation settle.
- *Attachments*: a delivery id has one receipt for ever, over retries, aborts and
  restarts; the provider is first asked for a target that is still the one resolved; the
  file is there while it is read; the service closes behind the last delivery.
- *Plugin installation*: packages, data and registry are the old ones or the new ones; the
  command reports which; an interrupted install is finished or undone by whoever is next.
- *Agent installation*: `agents.json` names the runtime that is in the directory; a
  replaced runtime survives until the commit; an interrupted transaction is ended.
- *Warm pool*: every live process has exactly one owner; a session gets no process of
  another runtime or of an older policy; route changes and the shutdown return.
- *Proxy policy*: what was saved stays saved, as a whole, through crashes and other
  writers; nobody is locked out by a process that died or a lock that was left behind.

## 2. Modules

| Module | Models | Actions (await by await) |
|---|---|---|
| `PromptQueue` | `prompt-queue.ts` with the owner's calls of `session.ts` | `Submit`, `SubmitRefused`, `Abort`, `Clear`, `Close`, `ReleaseAfterTerminalTeardown`, `ClearPending`, `Prioritize`; `StartProcessor`, `ProcessorSettles`, `CancelSettles`, `FinishUnaborted`, `EnterCleanup`, `ObserveAgain`, `FinishAborted` are the segments of `process()` |
| `PromptLine` | what the queue promises: a prompt joins, is served alone, leaves or is discarded | `Join`, `Serve`, `Leave`, `Discard` |
| `TerminalDelivery` | `session_end` through every bridge, the recipient barrier of `session.ts`, headless completion of `core.ts`, the record FIFO, cancellation and shutdown of `session-manager.ts`, attach and detach | `AgentEnds`, `EventPasses/Blocked`, `PersistTerminal`, `DeliveryStep/Ends`, `Headless*`, `Mutate*`, `Cancel*`, `Shutdown*`, `TeardownSettles`, `Attach`, `Detach` |
| `PermissionRouting` | `permission-gate.ts` complete, `resolvePermission()`, the handler's ownership, both answer paths | `Ask`, `PipelineDecides`, `SendSettles`, `PromiseObserved`, `UserAnswers`, `ApiAnswers`, `GateTimesOut`, `Connect`, `Disconnect`, `Terminate`, `Destroy` |
| `AgentSwitch` | `agent-switch-handler.ts` complete, `Session.switchAgent()`, process teardown shared by all who destroy an agent | `SwitchBegin` ... `SwitchCommits`, `Rollback*`, `LateAgent`, `Killed`, `KillFails`, `Cancel*`, `Attach`, `Detach`, `PromptStarts`, `PromptSettles` |
| `SessionAdmission` | the admission lock and the capacity accounting of `session-manager.ts`, with the lifecycle releases of `session.ts` | `AskCreation`, `Reserve`, `ReadLimit`, `Register`, `ActivateResumed`, `Submit`, `TakeSlot`, `ShareSlot`, `Reactivate`, `SessionFails`, `Teardown`, ... |
| `SessionStore` | `session-store.ts`: working view, generation, pending list, timer, load, expiry | `SaveLater`, `SaveNow`, `SaveNowFails`, `FlushNow*`, `TimerFlush*`, `Cleanup`, `Crash`, `Load*` |
| `SessionRecords` | one durable session through several process lives: `createSession()` and lazy resume under a registration lease, `patchRecord()` and its queue, `cancelSession()`, `deleteTopic()`, `shutdownAll()`, crash and restart | `BeginFresh`, `BeginResume`, `Register`, `Restored`, `Publish`, `Discarded`, `Mutate*`, `Cancel*`, `Delete*`, `Shutdown*`, `Restart` |
| `RecordStore` | what a caller of the store may rely on | accept, make durable, reject, publish, expire, crash |
| `AttachmentDelivery` | `attachment-delivery-service.ts`, `delivery-journal.ts`, `TelegramAdapter.deliverAttachment()` behind the send queue, with the retry after a 429 | `Resolve`, `Deliver`, `Enter`, `Stage*`, `TimesOut`, `SendStarts`, `Accepts`, `Refuses`, `RateLimited`, `Repeats`, `AbortReaches`, `Commit*`, `Answer`, `RemoveStaged`, `Close`, `Closed`, `Restart`, and the changes of agent, session and adapter |
| `DeliveryLedger` | what delivery promises: sends and one receipt per id | `Send`, `Answer` |
| `PluginInstall` | one install, registry edit or recovery at a time under the install lock: staging, snapshot, the exchange of each boundary, the registry, commit, rollback, `recover*` | one action per file operation; `Fault`, `Crash` |
| `Installation` | packages, data and registry entry change together | `Install`, `Edit` |
| `AgentInstall` | install, replacement, uninstall and recovery of one binary agent, beside the reconciliation of its name | one action per file operation; `Crash`, `CatalogLoads`, `Reconcile` |
| `WarmPool` | the warm pool of `agent-manager.ts`, the spawns beside it, the failed handshakes of `agent-instance.ts`, a route change and the shutdown | `Boot`, `Take`, `Claimed`, `ClaimFails`, `Discard`, `Warm*`, `Expires`, `Cleanup*`, `Failure*`, `RouteChanges`, `ChangeGoesOn`, `Shutdown*`, `Sweep*`, ... |
| `ProxyStore` | `proxy-store.ts` and the mutations of `proxy-service.ts`, in the daemon and in commands beside it | `Begin`; the lock file step by step (`Acquire`, `AcquireFails`, `FindsStale`, `UnlinkStale`, `GiveUp`); one action per read (`CheckConsistency`, `ReadAgain`, `ReadCredentials`), test and write (`WriteJournal`, `WriteConfig`, `WriteSecrets`, `WriteLkg`, `Unlink`), `Recover`, `Crash`, `WriteFails`, `ListenersSettle` |
| `PolicyRegister` | one value of settings and credentials, changed by whole transactions | `Commit`, `Loosen`, `Break` |

`PromptQueueProofs`, `SessionAdmissionProofs`, `SessionStoreProofs`, `SessionRecordsProofs`,
`ProxyStoreProofs`, `AttachmentDeliveryProofs`, `AgentSwitchProofs` and `PluginInstallProofs`
hold the theorems.

A variable is named for the field it models where one field is enough. Data is
reduced to what the properties tell apart: a prompt, a session or an agent is a model
value, a record is its status (or an opaque value), a message is the stage its sender
awaits. Promise callbacks that run in the same microtask as the code they follow are
part of its action; a callback behind a real await is an action.

### Abstract specifications

- `PromptLine`: prompts of one session wait in a line that is only ever shortened or
  appended to; they are served from its head, one at a time, each at most once, and none
  after it is shut. `PromptQueue` implements it (`ImplementsPromptLine`, checked
  by TLC, and proved) although the queue drops, aborts, prioritizes and abandons prompts.
- `RecordStore`: a map of records of which some part is durable. A mutation is accepted
  (later durable), made durable at once, or rejected *without leaving a trace*, although
  the failed write may sit in the middle of others; a crash loses what is accepted only.
  `SessionStore` implements it: checked by TLC (`ImplementsRecordStore`) and proved
  (`StoreImplementsRecordStore`).
- `DeliveryLedger`: a delivery id is sent, perhaps several times (the provider has no key
  to recognize a repetition), and answered once, with a message that was posted; after
  that nobody asks the provider again. `AttachmentDelivery` implements it
  (`ImplementsDeliveryLedger`): a failed write of the journal must not lead to a receipt,
  and one that reached the file only must not be contradicted after a restart. Checked as
  a part of `DeliveriesAreSound`, and proved.
- `Installation`: packages, data and registry entry of a plugin in one step. The refinement
  mapping of `PluginInstall` takes what the journal names while the install is not
  committed, and the files otherwise (`ImplementsInstallation`): the abstract state does not
  move while the concrete files are moved one by one, rolled back, or recovered. Checked,
  and proved for any number of boundaries.
- `PolicyRegister`: revision, edits and credentials of the proxy policy as one value. A
  mutation has a kind, which decides alone what it does to the credentials: a route or an
  endpoint keeps them, a profile sets or clears them. The mapping of `ProxyStore` takes the
  journal when there is one, since that is what a new store would find (`PolicyIsKept`). It is
  conditional, see section 6: once somebody has read the two files beside a journal
  (`peeked`), a commit may carry wrong credentials, and once two processes have been under the
  lock together (`shared`) nothing is promised.

## 3. The runs

Twelve runs; each property has a mutant of the model, a plausible bug in the mapped
code, under which TLC finds it violated. A property that joins several named parts is
broken by a mutant for each of the parts that matter most. Every module has one type
invariant `TypeOK`, left out of the table.

| Run | Configuration | Shows |
|---|---|---|
| `prompt_queue` | 3 prompts, 2 cancellations; 70 thousand states | `SerialExecution`, `CancellationNeverLeaks`, `ImplementsPromptLine`; `CallersAreFreed`: every submission settles if the agent answers, and a terminal teardown frees its callers even if it never does |
| `terminal_delivery` | 2 bridges or none at the start, 2 completion events, every switch on; 156 thousand states | `DeliveryIsHonoured`: one winner of completion, cancellation and shutdown, a durable record before the teardown, no recipient cut short; `ClaimedDeliveryEnds`: a claimed delivery is finalized and a cancellation that joined it is bounded |
| `permission_routing` | 2 bridges, 2 requests of which one may be granted without asking; 44 thousand states | `RequestsKeepApart`: late clicks and superseded requests never answer another one, and a request a bridge took on is answered |
| `agent_switch` | 2 agents, 2 adapters, 2 switches; 57 thousand states | `SwitchIsAtomic`: one runtime, controls, record and bridges of the same agent, the leased bridges back at the end, nothing behind the terminal boundary; `SwitchesSettle`: every switch ends and no agent is orphaned, whatever becomes of the cancellation's write |
| `session_admission` | 2 sessions of which one is resumed, 2 prompts, a limit that changes between 1 and 2; 729 thousand states | `CapacityNeverExceeded`, `RunningSessionsOwnASlot`: both but for resumed sessions the factory activated after they failed; `AdmissionsSettle`: whoever is in line is answered |
| `session_store` | 2 records, 2 values, up to 3 pending mutations; 9 thousand states | `WorkingViewIsReplay`, `PendingIsScheduled`, `ImplementsRecordStore` |
| `session_records` | one session, 2 attempts to create or resume it, 2 queued mutations; 418 thousand states | `GenerationsAgree`: acknowledged cancellations stick, agents are registered, record follows session, what is published is durable, what ended on disk is reopened by a resumed session only; `LifecyclesSettle` |
| `attachment_delivery` | 2 calls of one id, 2 targets, one change of the situation, one restart; 212 thousand states | `DeliveriesAreSound`: it implements `DeliveryLedger`, the file outlives its send, the first send is for a current target, a closed service has nothing under way; `DeliveriesSettle`: `deliver()` settles, `close()` returns |
| `plugin_install` | 2 package boundaries, 2 installs, an edit, one failing operation, 2 crashes; 576 thousand states | `NothingIsLost`: originals survive and reports are true; `ImplementsInstallation`; `RecoveryCompletes` |
| `agent_install` | 4 transactions, one rename of the entry, 2 failing operations (reads of `agents.json` included), 2 crashes; 776 thousand states | `RuntimeIsKept`: entry and directory agree, the previous runtime survives, but for entries recovery did not recognize or could not read; `RecoveryCompletes` |
| `warm_pool` | 2 creations, 3 processes, 2 runtimes, one change, 2 failing destroys; 476 thousand states | `OwnershipIsKept`: every process has one owner, one warm process, no process of an older policy behind a route change, a claim hands over the current runtime, the shutdown is final; `PoolSettles` |
| `proxy_store` | queue and scope registrations of the daemon, a command; 2 mutations, 2 crashes, one failing operation; 1.1 million states | `PolicyIsKept`: what was reported stays, the files agree, they implement `PolicyRegister`, as long as the lock excludes; `MutationsEnd`: nobody stays at the lock or in the middle of a commit, and the queue goes on if its listeners settle |

### Bounds, and why they are enough

- **Three prompts, two cancellations**: a frame can be running, one waiting in the
  cleanup of an abort and one behind it; a second cancellation can be requested while
  the first is observed. No rule of the queue looks further than the head.
- **Two bridges**: one that owns what is owned (the permission handler, the delivery's
  finalization) and one that survives it; the primary one cannot be detached. The
  configurations start with both or with none, and bridges attach in between. **Two
  events**: an event of the session and a duplicate that must be ignored.
- **Two permission requests**: the current one and the one that supersedes it while
  its promise, its prompt on a screen or its click is still under way.
- **Two agents and two switches**: there and back, also to an agent that was in the
  history, with a failure and its rollback in between; `MaxSwitches` bounds the history.
  Processes are numbered by the switch and by whether they are its target or its
  rollback.
- **Two sessions for one or two slots**, one of them resumed: the smallest case where a slot is contended,
  and where lowering the limit leaves more in use than it allows. `highest` records the
  greatest limit there ever was, since lowering it evicts nobody.
- **Two attempts** to create or resume one session: the second one meets what a
  cancellation, a completion or a crash left of the first. `MaxQueue` = 2: outside events
  are handled while fewer than two mutations wait, so that a patch can be queued behind
  the one that makes it stale; what an operation that is under way appends is not bounded.
- **Three pending mutations**: an immediate write that fails has one before and one
  after it, so taking it back is a removal from the middle (`MaxPending`).
- **Two deliveries of one id** contend for its lock and its receipt; the second may come
  from the next process. Two targets are the one resolved before and after the change; a
  second file would only add refusals. One retry after a 429 (the code: a bounded number).
- **Two package boundaries**, of which one may be absent: one is exchanged, the other
  not yet, when the process dies. Two crashes: one in the install, one in its recovery.
  The code has three; with one, the optional lock file would be all there is to install,
  so `BoundsAssumption` asks for two at least.
- **Four transactions** of one agent: install, replace, uninstall and one more on what
  they left; two faults let a step of a rollback fail too.
- **Three processes**: the warm one, its refill and a fresh spawn. `MaxAttempts` = 2: a
  destroy that fails is tried again and then given up, both with `MaxFaults` = 2.
- **Three actors** for the proxy files: two of one process, which interleave only while
  one of them tests its candidate, and one of another, which interleaves anywhere. Two
  mutations: one that is cut off, or that commits, and one that builds on it or could lose
  it; starting a store is an operation as well, and takes the lock, so that all three
  actors contend for a lock left behind. The proof of `PolicyIsKept` has no such bound.

The checked instances are small; the theorems of section 4 cover any size for the safety
properties of eight of the twelve components.

### Fairness

Liveness is asked only under what the code's scheduling justifies.

- *Queue*: microtasks run (`Continuation`); a cancellation's promise settles, because
  the session bounds every agent cancellation with `AGENT_CANCEL_TIMEOUT_MS`. That the
  agent answers is **not** assumed: it is the premise `AgentAnswers` of the property
  that needs it.
- *Completion*: middleware either passes or blocks an event (the chain has a timeout);
  every step of a recipient's delivery settles (the bridge bounds each of them);
  queued record mutations run. Nobody has to cancel, shut down or attach.
- *Permissions*: the gate's timer fires, middleware and sends settle. No user has to
  click, no session has to end.
- *Switch*: middleware, cleanup of adapters, record patches, `destroy()` and the write of a
  cancellation settle, one way or the other (each is bounded, or a file operation). The
  factory and the aborted prompt may hang for ever; `SwitchEnds` takes their settling as a
  premise, and does without once a teardown is under way. A cancellation whose write
  failed starts none: then only a switch that still waits for the prompt may stay.
- *Admission*: the await of the limit settles, and the holder of the lock proceeds. **Not**
  that a spawn ends: it awaits `initialize()`, which has no time-out, so a reservation may be
  held for ever. Who is in line is refused or served all the same.
- *Records*: queued mutations run, a claimed delivery completes, and an attempt proceeds
  once what it awaits has settled. Neither a spawn nor the end of an agent process
  is assumed to settle.
- *Attachments*: timers fire, the disk answers, promises settle. Nothing is assumed of the
  provider or of the caller: a provider that never answers runs into the time-out.
- *Plugin and agent installation*: whoever holds the lock goes on (`Work`), and somebody
  starts a process that recovers. Operations that fail and crashes are bounded.
- *Warm pool*: continuations run before anything else; destroys succeed or fail, since
  `performDestroy()` bounds its waits; timers fire; opening a session has a time-out.
  **None for `initialize()`**, which has no time-out (`agent-instance.ts:694`).
- *Proxy policy*: a process that lives goes on, and a candidate's test has a time-out. No
  process is ever started again. `GiveUp` (two seconds) is fair only against a lock file that a
  living process has left behind, or that was never written; against a lock at work or one of a
  process that is gone, nobody has to lose patience. Nothing is assumed of the route
  listeners the queue awaits; `MutationsEnd` takes their settling as a premise of its second
  part.
- *Store*: none. `PendingIsScheduled` says a timer is armed; that callers pause long
  enough for it to fire is up to them.

## 4. What is proved

TLAPS checks the proofs for every value of the constants; the constants are only assumed
to be sets with the obvious structure (`NoPrompt` is no prompt, the sessions are
finitely many, and so on), under named assumptions that TLC evaluates in the runs.

### Prompt queue (`PromptQueueProofs`)

`TypeCorrectness`, `SerialExecutionHolds`, `CancellationContained` and `Refinement`
(`ImplementsPromptLine`) for any prompts and any cancellations. Neither safety property is
inductive: that one processor runs says nothing of whose it is, and the next frame opens when the *frame* is over. The strengthening
says where things are: a processor that is scheduled or running belongs to the open frame,
or the queue was closed and abandoned it (`OwnedProcessors`); a cancellation in flight is
in the barrier of the open frame, or the queue is closed (`OwnedCancellations`); only a
closed queue is released (`OnlyClosedReleases`). Each way of finishing a turn then
establishes `Quiet` before `DrainNext` may open a frame.

For the refinement, `LineInv` adds that items are pending only behind an open frame of an open
queue, that a closed queue has aborted the frame it leaves open, and that whoever is in line was
accepted. An item that moves from the queue to its frame is not seen by the line
(`DrainNextSeen`); it is served when its microtask runs unaborted, which `LineInv` shows cannot
be after `close()` (`StartSeen`). What `clear`, `prioritize` and `close` leave is a selection of
the line, also with a scheduled prompt before it; the lemmas from `EmptySelection` to
`PrefixedSelection` build the order-preserving map that the abstract `Discard` asks for.

### Session admission (`SessionAdmissionProofs`)

`TypeCorrectness`, `CapacityHolds`, `RunningSessionsOwnASlotHolds` for any sessions, prompts
and limits. The capacity is checked against a limit that was awaited, by whoever is at the
head of the admission lock, while lifecycle transitions outside the lock go on. The
invariant says that whoever is in line is there once and at the await that waits for it
(`WaitersWait`), that reservations belong to creations and slots to registered sessions
(`SlotsAndReservationsApart`), that a claim is held between the guard and what follows it
(`ClaimsAreHeld`), what a prompt at work may assume of its session (`PromptsAtWork`),
and that the limit read was configured (`ReadingsAreConfigured`). Two counting lemmas
(`NoSlotTaken`, `OneSlotTaken`) reduce each action to whether it takes a slot; only
`Reserve` and `TakeSlot` do, behind their comparison with the limit. The factory's activation of
a resumed session that has failed takes none and runs: `revived` remembers these, the two
properties name them as their only exception, and `UsedSplits` counts them apart from those
the limit bounds.

### Session store (`SessionStoreProofs`)

`WorkingViewIsReplayHolds`, `PendingIsScheduledHolds`, `TypeCorrectness` and the refinement
`StoreImplementsRecordStore`, for any finite set of sessions and any values. The replay of
a list of mutations is defined by the *last* mutation that touches a record, so that no
recursion is needed; `EveryTouchHasALast` makes that choice well defined. The lemmas
`ReplayOfConcatenation`, `ReplayOfStaged` and `ReplayOfRemovals` say what appending does to a
replay; taking a failed mutation out of the middle is what the code does by replaying, and
`Step` shows the working view is the replay of what is left.

### Session records (`SessionRecordsProofs`)

`Invariance`, `TypesKept` and `Agreement` (`GenerationsAgree`) for any number of attempts to
create or resume the session, any mutations that wait for the record, and any crashes. That
`MaxQueue` bounds the checked instance is not used. None of the promises is inductive: a
mutation was queued in another state than the one it runs in. `Founded` says what of that state
is left when it runs: the author of an initial patch is still recording, a terminal status that
was captured is the session's status still, a cancellation's patch has the cancellation waiting
for it, and nobody has two of either (`Queued`). `Bounded` is the terminal boundary: behind a
cancellation or a shutdown nobody is registered who is not on the way out, and no lease is
left to register with; it is why patches queued before the boundary are skipped behind it.
`Firsts` is about the one attempt that has no lease: until its record is written there is
nothing to contradict, and nobody else. `Sealed` holds the cancelled record from its write,
before anybody is told, and `Told` says that a session that runs has a record that runs, or, if it
has finished, one that will have ended when its status patch has run. Every action has a lemma
of its own; `QueueKept`, `QueueGrows` and `QueueShrinks` reduce what it does to the queue to
what it does to one mutation.

The action property `EndedStays` (a record that has ended on disk is overwritten by nothing but
the first write of a resumed session, and a cancelled one not even by that) needs more: a current
lease keeps every other attempt out (`Leases`), and nobody is about to write a first record when
it is cancelled, also not when `/cancel` did that behind the manager's back (`Spent`).
`Elsewhere` covers the steps that write nothing, `Writes` those that do.

### Proxy policy store (`ProxyStoreProofs`)

`PolicyIsKeptByTheFiles` (the refinement of `PolicyRegister` and `FilesAgree`) and `TypesAreKept`,
for any actors, however they are spread over processes, and any number of mutations, crashes
and failing operations; only that no transaction equals `None`, and no actor is called `"dead"`
or `"empty"`, is assumed. The lock is a file in the proof as in the model: created exclusively,
left behind by failures, examined and unlinked in separate steps. It does not exclude always, so
the invariant has two parts. Types and the shape of an operation at each of its steps
(`Shapes`) hold whatever happens. `Good` holds as long as no two were under the lock at once
(`shared`): one at a time between `Acquire` and the end (`Mutex`); what the holder knows of
the files (`Holders`: while the journal lies there it *is* the transaction being written, and
the files written so far are its); that the public settings are those of the policy or
carry an older revision (`Lag`); that mutations are told apart (`Distinct`); and that one still to
be committed has read the policy there is or an older one, and has kept its credentials unless
somebody looked at the files beside a journal (`Builders`). Comparing revisions under the lock
then means comparing policies. `WriteJournal` is the one step that maps to `Commit`, and changes
the credentials as the kind of its mutation says; every other one leaves the value of the
register, which `OneStep` and `QuietStep` reduce to what the acting operation has to show. A
step that lets a second one under the lock maps to `Break`.

### Attachment delivery (`AttachmentDeliveryProofs`)

`TypesKept` and `Soundness` (the refinement of `DeliveryLedger`, `FileOutlivesSend`,
`FirstSendIsCurrent`, `CloseDrains`) for any calls, delivery ids, files, targets, changes and
restarts. What makes a receipt unique is the chain of promises per delivery id, so the
invariant starts there: a tail holds the calls of its id that have not settled, once each
(`Locks`), and only its head may be staging, sending or committing, and does so only while the
journal has no entry for the id (`Holders`). `OneHolder` is the mutual exclusion that follows.
The rest says what one side may assume of the other across an await: an operation of the
adapter that is not aborted works for a call that is still sending, with its file staged
(`Workers`, `Queued`); a journal entry is in its file and names a message that was posted
(`Records`, which is what survives the restart); a target whose situation was replaced differs
from the current one in its agent, its objects or its process (`Dates`). Nearly every action
is about one call, and `FinishStep` proves it from what it does to that call; the actions that
abort many at once (`AdapterStops`, `Close`, `Restart`) have proofs of their own.

### Agent switch (`AgentSwitchProofs`)

`TypesKept` and `Atomicity` (`SwitchIsAtomic`) for any agents, adapters and number of switches.
`OneRuntime` is not inductive: at the moment the factory returns, nothing in the runtime says
that the old agent is gone. `Succession` says it: besides the installed agent only the process
the last factory made may live, and the installed agent is then dead. `Destroyed` ties
`destroy()` to the processes, `Served` says between which awaits the installed agent works,
`Hidden` and `Committed` when controls are shown and what the record then names, `Bridged` what
the list of leases means while adapters are attached and detached beside the switch. The two
action properties, what may happen behind a cancellation and which bridges a switch must leave,
are the step lemmas `Crosses` and `Returns`. `LeasedBridgesReturn` used to be an invariant about
idle sessions; the induction failed with three adapters: a bridge whose adapter stopped and
was attached again after the switch need not be connected. It is a promise of the switch, and now
an action property of its last step.

### Plugin installation (`PluginInstallProofs`)

`TypesKept`, `Safety` (`NothingIsLost`) and `Refinement` (`ImplementsInstallation`) for any number
of package boundaries, installs, edits, faults and crashes. A crash forgets everything but the
files, so the first part of the invariant is about the files alone (`Disk`): without a journal
nothing lies beside the live trees (`Settled`), with one it is valid, its originals are older than
the new version and each is in place or in its backup (`Described`); that is what any later process
recovers from. The other parts are about the session: what its journal names is what it started
from (`Remembers`), and when it goes back its memory agrees with the journal although a failed
write has taken back only half of a step (`GoingBack`); going ahead, the boundaries in front of
the one at work are replaced, those behind it wait (`GoingAhead`). The journal writes are reduced
to what they say (`Written`, thirteen of them in `Writes`), and every step is one of a session that
waits, goes ahead or goes back (`Steps`). For the refinement, `MarkSeen` shows that the one journal
write of `markRegistryCommitted()` is the `Install` of packages, data and registry together, and
`SeenAlike`, `InitializeSeen`, `CleanJournalSeen` that nothing else shows. Two things had to be
found out: the bound of `installs` is an invariant only because a session that took the lock for
an install still has one to make (`Begins`), and the refinement is false with a single boundary,
the one that may be missing from a new tree.

### Only model-checked

Liveness under fairness and `ENABLED` are beyond the prover, and so is induction over data.
`CallersAreFreed`, `AdmissionsSettle`, `SwitchesSettle`, `LifecyclesSettle`, `DeliveriesSettle`,
`RecoveryCompletes`, `ClaimedDeliveryEnds`, `PoolSettles` and `MutationsEnd` are what TLC says.
Four components (completion, permissions, agent installation, warm pool) are model-checked only,
their safety invariants too: these hold for the instances of section 3 and are claimed for no
other. Section 7 says which of them a proof would start with, and where.

## 5. How the models correspond to the code

- **One action per handler segment.** What runs between two awaits is one action,
  including every call it makes that changes state: `DrainNext` is part of the actions
  that finish a turn, the release of a slot is part of the transition to an ended
  status, the sweep of a superseded request is part of `setPending`.
- **Mutations of a record are FIFO entries.** `withRecordMutation()` chains one promise
  per session; `mutations` is that chain. Its callbacks recheck the world when they
  run, and so do the `Mutate*` actions.
- **Who is live.** `live` is the identity in `SessionManager.sessions`, `term` the terminal
  boundary of a session. They change at different times: a cancelled session stays
  registered until its agent is gone, a finished one is removed at once. Every check of
  `isCurrentLiveSession()` is `CurrentLive`.
- **Working and durable records.** `rec` and `disk` are separate: a debounced save
  changes the first, a flush or an immediate save the second. A failed immediate save
  is rolled back. `SessionStore` models how; the other modules use the result.
- **Two kinds of time-out.** A bound the code puts on an await (the gate's ten
  minutes, the session's cancellation time-out, the manager's deadline on teardown) is an action that may
  fire at any time; fairness makes it fire.
- **Failure.** Writes fail, factories fail, `destroy()` fails, adapters reject, and what the
  catch and finally blocks around the mapped lines then do is in the models: what is undone,
  what is swallowed (a lock that could not be unlinked, a read of `agents.json`, a backup
  that stays), what is left for later. The list of abstractions below names the failures
  left out.
- **Crashes** are modelled where something survives them: in the store, in
  `SessionRecords` and `AttachmentDelivery`, where `Restart` keeps nothing but the disk, and
  in the installers and the proxy store between any two file operations, a recursive
  removal included (it leaves a broken tree).
- **Journals.** Each journaled transaction decides from journal, files and entry what to
  do, also in the middle of its own recovery; the models keep the order in which the code
  looks and writes, since that order is what makes them right.

### Abstractions

- Contents of prompts, events, records (other than their status), controls and messages.
- The order of adapters matters only where the code iterates over them (the switch).
- `SessionRecords` takes the delivery of a completion as one step and the store as what
  `RecordStore` promises; `TerminalDelivery` and `SessionStore` have the steps. An agent
  destroyed outside `startSessionTeardown()` counts as dead, as nobody waits for its end.
  The two locks of a lazy resume (by session, by thread) only share a promise; the
  lease decides, and is modelled.
- `TerminalDelivery` has one session; what sessions share is in `SessionAdmission` and
  `SessionStore`. `SessionAdmission` does not model the queue behind `StartPrompt`, but
  keeps its seriality as a guard.
- A handler installed while no bridge is connected grants a request without asking if its
  rule says so. If not, it returns a promise nobody keeps (`core/core.ts:989`: "never
  resolves; gate will time out", but no gate holds it): `AskHeadless` models it and
  `BridgedRequestAnswered` is therefore about the requests a bridge took on.
- `AttachmentDelivery`: one session and its primary adapter; the expiry of a target is a
  failure on the way in; an unlink that fails is only logged; an abort while the file is
  staged is not seen by `invokeAdapter()`. A time-out of the provider is ambiguous, and
  the retry of its caller may post a second message: the ledger allows it.
- `PluginInstall`: the lock is exclusive; the last boundary stands for the optional lock
  file; temporary trees of a restore and the half-written snapshot are abstracted; the write
  of the journal fails only before its rename, that of the registry before or after.
- `AgentInstall`: binary agents only; downloads end before the lock is taken; the lock is
  exclusive (its takeover is one step); the removal of a backup is one step; the read with
  which `uninstallAgent()` finds the name of the lock succeeds.
- `WarmPool`: all who ask for the agent ask for the pool's workspace, or miss; `destroy()`
  succeeds or fails; a process that dies elsewhere than in the pool shows as a failed
  handshake; a reaper whose entry is gone is taken off with it. `resume()` has the shape of
  the spawn beside the pool. The branches of `prewarm()` for an entry that is there cannot
  be reached: `main.ts:528` and `agent-manager.ts:584` are its only callers.
- `ProxyStore`: a write of a file is one step, or fails; the public settings are the set of
  edits they include, the credentials the mutation that set them; `recoverJournal()` and the
  comparison under the lock read in one step; the removal of a stale lock does not itself fail;
  validation, quarantine and the reuse of process ids are left out.

## 6. Disagreements met while modelling

The models follow the code. Where a comment, test or document says something else, the
property of the run is stated for what the code does keep, with the exception named in it;
the counterexamples TLC gives without the exception are these.

- **A route or profile saved with old credentials** (`PolicyIsKept`, exception `loose`).
  `load()` and `getSecrets()` read `proxy.json` and `proxy-secrets.json` without the lock and do
  not look at the journal (`core/network/proxy-store.ts:195-210`). A save of a profile writes
  journal and settings and dies or fails before the credentials; the next mutation of a
  daemon that runs on, `registerScope()` or `setRoute()`, reads the new settings with the old
  credentials (both "have credentials", so they are consistent); its commit first finishes
  the old save, finds the revision it expects, and writes the old credentials over the new
  ones. `docs/adr/0003-transactional-proxy-policy-store.md:27` says a crash "can be recovered
  without combining mismatched public/secret state". The same happens without a failure when another
  process commits between the two reads. If the two files disagree, every `load()` of the
  running daemon reports the policy corrupt until a new store is opened. A save that
  fails after its journal was written is reported as failed and completed by the next one.
- **Two under the proxy lock** (`PolicyIsKept`, exception `shared`). Two processes that contend
  for a lock left by a third may both find it stale; the second one unlinks by then the fresh
  lock of the first (`core/network/proxy-store.ts:253-264`). Both compare the same revision and
  commit, and the later one replaces an edit that was reported as saved.
- **A lock under a living process** (`MutationsEnd` counts a refusal as an end). A failed write or
  flush of the lock file (`proxy-store.ts:241-245`), or a failed unlink, which is swallowed (line
  234), leaves a lock that names a process that lives. Every mutation is then refused with
  `PROXY_STORE_BUSY` until that process ends, its own included.
- **Listeners in the mutation queue** (`MutationsEnd`, second part). `setRoute()`, `clearRoute()` and
  the deletion of a profile await the route listeners before the queue takes the next mutation
  (`proxy-service.ts:457`, `498`, `527`); one of them is `destroyWarm()`, which waits without a
  bound (below).
- **A committed agent removed by its recovery** (`RuntimeIsKept`, exception `unfinished`).
  The recovery of an install compares the whole entry with the one it wrote
  (`core/agents/agent-installer.ts:672`). A display name that a catalog reconciled in between
  (`agent-catalog.ts:532`) makes it undo an install whose metadata is committed, although line 686
  calls the commit "the point of no return" and the recovery of an uninstall allows for
  "cosmetic registry reconciliation" (line 754).
- **A read that fails is an empty store** (`RuntimeIsKept`, exception `unfinished`).
  `AgentStore.load()` logs a read of `agents.json` that fails and goes on with no agents
  (`core/agents/agent-store.ts:77-84`). Recovery that reads in such a moment removes the runtime of
  an install that is committed, or completes the removal of one whose entry is still there, and
  leaves the entry without a runtime.
- **Journals side by side.** A backup or journal of an uninstall that cannot be removed is
  reported as `cleanup-pending` (`core/agents/agent-installer.ts:792-804`); the callers at 330 and 1407
  do not look at the answer and go on, so that an install journal comes to lie beside it.
- **A repeated send for a replaced target** (`FirstSendIsCurrent` is about the first call).
  After a 429 the transformer waits and calls `sendDocument` again without asking whether the
  target is current (`plugins/telegram/adapter.ts:581`); `core/channel.ts:55` wants that "before
  every provider I/O so queued or timed-out work cannot late-send".
- **Recovery that is refused for ever** (`HalfRemoved`). When recovery dies inside the removal
  of a snapshot it has restored (`core/plugin/plugin-installer.ts:553-568`), or of a new runtime
  whose marker went first (`core/agents/agent-installer.ts:699`), what is left looks like
  somebody else's and every later recovery refuses. If the rollback of a committed entry dies
  in the removal with the marker still there, recovery keeps the half runtime, and the
  journal of an older uninstall is refused because of it.
- **A prewarm that wedges the daemon** (`Wedged`). An agent that never answers `initialize()`
  keeps `destroyWarm()`, hence the route change and all proxy mutations behind it, and
  `shutdownWarmPool()` waiting (`core/agents/agent-instance.ts:694`). Nor is the pool
  filled again after a route change, which the documentation of the command calls a rebuild.
- **A detached last recipient** (`ClaimedDeliveryEnds` starts at the claims): if the last bridge is
  detached while its middleware is pending, the barrier completes, nobody finalizes the session
  and its agent is never torn down (`core/sessions/session.ts:728`). If middleware blocks the
  completion for one recipient only, a cancellation that joined waits for ever
  (`session-manager.ts:1010`).
- **A permission owner that leaves** takes the handler with it; the bridges that stay deny
  unseen (`session-bridge.ts:491`).
- **A refused switch** whose adapter is not running leaves the adapters behind it without
  their bridge (`core/agent-switch-handler.ts:89`).
- **A cancellation that could not be written** (`SwitchesSettle`, the quiesced switch). When the
  immediate save or the flush of `cancelSession()` throws, the session is terminating already
  and no teardown was started (`core/sessions/session-manager.ts:985-1004`): its agent lives on
  until somebody cancels again, and a switch that waits for a prompt that never settles
  keeps waiting.
- **A session without a slot** (`CapacityNeverExceeded`, `RunningSessionsOwnASlot`, exception
  `revived`). A resumed session that fails while it is being resumed gives its slot back; the
  factory activates it all the same when its record is written, as it only asks whether it is
  registered and live (`core/sessions/session-factory.ts:503-530`, `624`), and `activate()` accepts
  "error" (`session.ts:688`). Under a limit of one, two then run.
- **A cancelled failed session** keeps its slot until it is torn down, when its prompt awaits the
  limit (`session-manager.ts:492`).

Met while reading, not run: a rollback's patch of the status to "error" is always skipped
(`core/agent-switch-handler.ts:352`); prompts submitted during a switch run on the
agent that is being destroyed; an error handler that throws keeps the drained
prompt's caller waiting (`core/sessions/session.ts:1051`, `prompt-queue.ts:33`).
`PromptQueue` has a constant `OnErrorMayThrow` for the last. A bridge attached while a
headless completion awaits middleware takes its patch over, and the teardown then precedes
it, so that the record stays active (`core/core.ts:1055`). A message that activates a
resumed session while its record is being written makes the resume report a failure
although the session runs (`core/sessions/session-factory.ts:624`). `deleteTopic()` removes
the record of a session that was resumed meanwhile, or that failed and is still live,
without ending it (`plugins/telegram/topic-manager.ts:108`). Every save of the session store
re-arms its timer, so that frequent ones postpone the write (`session-store.ts:297`). Two
contenders may both find an install lock stale, and the second unlink takes the lock of the
first (`plugin-installer.ts:290`, `agent-installer.ts:572`). A fresh agent install
that is rolled back ignores that its entry could not be removed; a crash inside the removal of
a runtime whose entry is still there keeps the half of it.

## 7. Plan

Order of the modules, the most important behaviour first. Done: 1 to 12.

1. `PromptQueue`, `PromptLine`, `PromptQueueProofs`.
2. `TerminalDelivery`: the completion of a session across its bridges.
3. `PermissionRouting`.
4. `AgentSwitch`, `AgentSwitchProofs`.
5. `SessionAdmission`, `SessionAdmissionProofs`.
6. `SessionStore`, `RecordStore`, `SessionStoreProofs`.
7. `SessionRecords`, `SessionRecordsProofs`: one durable session through several process lives.
8. `AttachmentDelivery`, `DeliveryLedger`, `AttachmentDeliveryProofs`: idempotence across crashes.
9. `PluginInstall`, `Installation`, `PluginInstallProofs`: the journaled install and its recovery.
10. `AgentInstall`: the exchange of a runtime and its recovery.
11. `WarmPool`: who owns which process.
12. `ProxyStore`, `PolicyRegister`, `ProxyStoreProofs`: the policy in two files.
13. `ElicitationGate` and the turn identity of `session.ts`: concurrent forms,
    the answer that comes after its turn.
14. `PluginLifecycle`: load order, hot reload (`unloadPlugin()` against `boot()`), a `setup()` or
    `migrate()` that goes on after its time-out, the error budget.
15. The transports of `proxy-service.ts` with their leases; drafts; `TunnelRegistry`;
    `TokenStore` and `SseConnections`; `ConfigMutation`.

Proofs still to come, in order: `TypeOK` and `OwnershipIsKept` of `WarmPool` (every process has
one owner); `RuntimeIsKept` of `AgentInstall`, whose journal can follow `PluginInstallProofs`;
`RequestsKeepApart` of `PermissionRouting` with its one-promise invariant; the parts of
`DeliveryIsHonoured`. Until then they rest on TLC's instances.

## 8. Not modelled, and why

- **Pure conversions and formatting** (message transformer, display specs, formatters,
  menus): functions of their input without state.
- **I/O without concurrency** (registry refresh, downloads, archives, setup, doctor, the CLI's
  own commands): sequences of downloads and file writes, tested as such.
- **The ACP stream and child processes**: what the session sees of them (a prompt that
  settles late or never, a kill that fails) is in the models, the protocol is not.
- **Components of plan items 13 to 15**: not yet.
- **HTTP, Telegram and other platform APIs**: external; a send settles or fails.
