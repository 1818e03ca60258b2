------------------------------ MODULE AgentSwitch ------------------------------
(***************************************************************************)
(* Replacing the agent of a running session: AgentSwitchHandler.doSwitch() *)
(* (agent-switch-handler.ts) await by await, Session.switchAgent() and its *)
(* rollback (session.ts), adapters attached and detached meanwhile         *)
(* (core.ts), and a cancellation that may cross at every await.            *)
(* What the switch guarantees: one agent process at a time, controls that  *)
(* are enabled only for the agent the durable record names, and nothing    *)
(* resurrected behind a cancellation.                                      *)
(***************************************************************************)
EXTENDS Naturals, Sequences, FiniteSets, SequencesExt

CONSTANTS
  Agents,       \* the installed agents, by name
  First,        \* the agent the session was created with
  Adapters,     \* the adapters that may be attached
  Channel,      \* the session's own adapter, which is never detached
  MaxSwitches   \* bound: how many switches are requested

ASSUME SwitchAssumption ==
  /\ First \in Agents /\ Channel \in Adapters
  /\ MaxSwitches \in Nat /\ IsFiniteSet(Adapters)

VARIABLES
  terminating, \* Session.isTerminating
  agent,       \* the process of Session.agentInstance
  name,        \* Session.agentName
  history,     \* Session.agentSwitchHistory, the names of the agents
  suspended,   \* Session._agentActionsSuspended
  proc,        \* every agent process
  destroyOp,   \* Session._agentDestroyOps: the shared destroy() of a process
  attached,    \* Session.attachedAdapters, in their order
  available,   \* the adapters registered in this run of the program
  conn,        \* the adapters with a connected bridge
  prompt,      \* the prompt the queue is processing
  record,      \* the durable record: the agent it names and the status
  pc,          \* the await doSwitch() is at; "idle" without a switch
  frame,       \* doSwitch()'s locals
  cancel,      \* the await cancelSession() is at
  teardown,    \* Session._destroyOperation
  switches     \* how many switches were requested

session == <<agent, name, history>>
vars == <<terminating, agent, name, history, suspended, proc, destroyOp, attached,
          available, conn, prompt, record, pc, frame, cancel, teardown, switches>>

\* Every switch starts at most two processes, its target and a rollback.
Procs == 1 .. 1 + 2 * MaxSwitches

Points == {"idle", "middleware", "cleanup", "quiesce", "creating", "patching", "patched",
           "rbKill", "rbCreating", "rbPatching", "rbPatched", "rbDestroy", "rbRecord"}

NoFrame == [to |-> First, from |-> First, leases |-> <<>>, todo |-> {},
            had |-> FALSE, failed |-> FALSE, new |-> 1]

\* A session restored from its record may name adapters that are not running,
\* and only its own channel is bridged.
Init ==
  /\ terminating = FALSE /\ agent = 1 /\ name = First /\ history = <<>> /\ suspended = FALSE
  /\ proc = [p \in Procs |-> IF p = 1 THEN "live" ELSE "unborn"]
  /\ destroyOp = [p \in Procs |-> "none"]
  /\ available \in SUBSET Adapters
  /\ attached \in {<<Channel>>} \cup {<<Channel, a>> : a \in Adapters \ {Channel}}
  /\ conn \in {{}, {Channel} \cap available}
  /\ prompt = "none"
  /\ record = [name |-> First, agent |-> 1, history |-> <<>>, status |-> "active"]
  /\ pc = "idle" /\ frame = NoFrame /\ cancel = "none" /\ teardown = "none" /\ switches = 0

Attached == ToSet(attached)
Leased   == ToSet(frame.leases)

\* attachedAdapters.filter(), for a sequence that holds every adapter once
Without(s, a) == IF a \in ToSet(s) THEN RemoveAt(s, CHOOSE i \in DOMAIN s : s[i] = a) ELSE s

(***************************************************************************)
(* Agent processes: destroyAgent() is shared by its callers, retried only  *)
(* after a failure; a factory in flight is a process that is starting.     *)
(***************************************************************************)
\* destroyAgent(): a second caller joins the first.
Destroying(p) == [destroyOp EXCEPT ![p] = IF @ = "done" THEN @ ELSE "pending"]

\* createReplacementAgent(): the factory starts.
StartsFactory(next) ==
  \E p \in Procs :
    /\ proc[p] = "unborn" /\ \A q \in Procs : q < p => proc[q] # "unborn"
    /\ proc' = [proc EXCEPT ![p] = "starting"]
    /\ frame' = [frame EXCEPT !.new = p] /\ pc' = next

\* The old process is not awaited before the replacement is created.
MutantQuiescesWithoutKill(p) == prompt # "aborted"

\* quiesceQueueForAgentSwitch() returns: the process is gone and the aborted
\* prompt settled, or the terminal teardown released it.
QuiescedOf(p) == destroyOp[p] = "done" /\ (prompt # "aborted" \/ teardown = "done")

(***************************************************************************)
(* Bridges.                                                                *)
(***************************************************************************)
\* reconnectCurrentAttachments() goes through the leases that are still
\* current, in order, and throws at the first adapter that is gone.
Reconnected ==
  {frame.leases[i] : i \in {k \in DOMAIN frame.leases :
                              \A j \in 1 .. k : frame.leases[j] \in available}}

AllReachable == Leased \subseteq available

(***************************************************************************)
(* What the session and the switch do at their boundaries.                 *)
(***************************************************************************)
\* The destruction of the session is not started.
MutantOnlyMarksTerminating ==
  /\ terminating' = TRUE /\ suspended' = TRUE /\ conn' = {} /\ teardown' = "killing"
  /\ UNCHANGED destroyOp

\* session.destroy() crosses the terminal boundary and destroys the agent;
\* it joins the teardown that is under way or over, and retries a failed one.
DestroySession ==
  /\ terminating' = TRUE /\ suspended' = TRUE /\ conn' = {}
  /\ IF teardown \in {"killing", "done"} THEN UNCHANGED <<teardown, destroyOp>>
     ELSE teardown' = "killing" /\ destroyOp' = Destroying(agent)

\* The catch of doSwitch(): a terminating session stops the switch, any other
\* failure disconnects the bridges and retires the installed process.
EnterRollback ==
  IF terminating
  THEN pc' = "idle" /\ UNCHANGED <<conn, destroyOp>>
  ELSE pc' = "rbKill" /\ conn' = {} /\ destroyOp' = Destroying(agent)

\* The rollback throws: the switch gives up without ending the session.
MutantRollbackGivesUp ==
  pc' = "idle" /\ UNCHANGED <<terminating, suspended, conn, teardown, destroyOp>>

\* The inner catch: the session fails, loses its bridges and is destroyed.
RollbackFails ==
  IF terminating
  THEN pc' = "idle" /\ UNCHANGED <<terminating, suspended, conn, teardown, destroyOp>>
  ELSE pc' = "rbDestroy" /\ DestroySession

(***************************************************************************)
(* doSwitch(), from one await to the next.                                 *)
(***************************************************************************)
\* switch() takes the lock and runs the agent:beforeSwitch middleware.
SwitchBegin(to) ==
  /\ pc = "idle" /\ ~terminating /\ to # name /\ switches < MaxSwitches
  /\ switches' = switches + 1 /\ pc' = "middleware"
  /\ frame' = [NoFrame EXCEPT !.to = to, !.from = name]
  /\ UNCHANGED <<terminating, session, suspended, proc, destroyOp, attached, available,
                 conn, prompt, record, cancel, teardown>>

\* The leases are captured, the bridges disconnected and the controls
\* suspended in one step; a veto or a cancellation ends the switch.
MiddlewareReturns(allowed) ==
  /\ pc = "middleware"
  /\ IF terminating \/ ~allowed
     THEN pc' = "idle" /\ UNCHANGED <<frame, conn, suspended>>
     ELSE /\ pc' = "cleanup" /\ conn' = {} /\ suspended' = TRUE
          /\ frame' = [frame EXCEPT !.leases = attached, !.todo = Attached, !.had = conn # {}]
  /\ UNCHANGED <<terminating, session, proc, destroyOp, attached, available, prompt,
                 record, cancel, teardown, switches>>

\* One adapter retires its controls and its session state. A detached adapter
\* is skipped, one that is gone or that rejects is a cleanup error.
AdapterCleaned(a, ok) ==
  /\ pc = "cleanup" /\ a \in frame.todo
  /\ frame' = [frame EXCEPT !.todo = @ \ {a},
                            !.failed = @ \/ (a \in Leased /\ (~ok \/ a \notin available))]
  /\ UNCHANGED <<terminating, session, suspended, proc, destroyOp, attached, available,
                 conn, prompt, record, pc, cancel, teardown, switches>>

\* The cleanup failed: the old controls and bridges come back, and an adapter
\* that is gone only adds to the errors.
CleanupFailed ==
  /\ pc = "cleanup" /\ frame.todo = {} /\ frame.failed /\ ~terminating
  /\ pc' = "idle" /\ suspended' = FALSE
  /\ conn' = IF frame.had THEN conn \cup Reconnected ELSE conn
  /\ UNCHANGED <<terminating, session, proc, destroyOp, attached, available, prompt,
                 record, frame, cancel, teardown, switches>>

CleanupStopped ==
  /\ pc = "cleanup" /\ frame.todo = {} /\ terminating /\ pc' = "idle"
  /\ UNCHANGED <<terminating, session, suspended, proc, destroyOp, attached, available,
                 conn, prompt, record, frame, cancel, teardown, switches>>

\* switchAgent() records the old agent in the history, aborts its prompt and
\* destroys it.
SwitchAgent ==
  /\ pc = "cleanup" /\ frame.todo = {} /\ ~frame.failed /\ ~terminating
  /\ history' = Append(history, name)
  /\ prompt' = IF prompt = "running" THEN "aborted" ELSE prompt
  /\ destroyOp' = Destroying(agent) /\ pc' = "quiesce"
  /\ UNCHANGED <<terminating, agent, name, suspended, proc, attached, available, conn,
                 record, frame, cancel, teardown, switches>>

\* The old agent is quiet: the factory of its replacement starts.
Quiesced ==
  /\ pc = "quiesce" /\ QuiescedOf(agent)
  /\ IF terminating THEN pc' = "idle" /\ UNCHANGED <<proc, frame>>
     ELSE StartsFactory("creating")
  /\ UNCHANGED <<terminating, session, suspended, destroyOp, attached, available, conn,
                 prompt, record, cancel, teardown, switches>>

\* The terminal boundary wins the race with a factory.
TerminationWins ==
  /\ pc \in {"creating", "rbCreating"} /\ terminating /\ pc' = "idle"
  /\ UNCHANGED <<terminating, session, suspended, proc, destroyOp, attached, available,
                 conn, prompt, record, frame, cancel, teardown, switches>>

\* The late agent of a terminated session is kept running.
MutantForgetsLateAgent(p) == UNCHANGED destroyOp

\* observeReplacementCleanup(): a late agent is destroyed in the background.
ObserveReplacementCleanup(p) == destroyOp' = [destroyOp EXCEPT ![p] = "pending"]

\* A factory yields a process after the terminal boundary.
LateAgent(p) ==
  /\ proc[p] = "starting" /\ terminating
  /\ proc' = [proc EXCEPT ![p] = "live"] /\ ObserveReplacementCleanup(p)
  /\ UNCHANGED <<terminating, session, suspended, attached, available, conn, prompt,
                 record, pc, frame, cancel, teardown, switches>>

\* A factory fails after the terminal boundary.
LateFailure(p) ==
  /\ proc[p] = "starting" /\ terminating
  /\ proc' = [proc EXCEPT ![p] = "dead"]
  /\ UNCHANGED <<terminating, session, suspended, destroyOp, attached, available, conn,
                 prompt, record, pc, frame, cancel, teardown, switches>>

\* The replacement is installed with whatever the lifecycle is by then.
MutantInstallsUnguarded(p) == proc[p] = "starting" /\ pc = "creating" /\ p = frame.new

\* assertReplacementAllowed() after the factory returned.
MayInstall(p) == proc[p] = "starting" /\ pc = "creating" /\ p = frame.new /\ ~terminating

\* The replacement is installed and the bridges come back to it, before the
\* record is written; an adapter that is gone starts the rollback.
Installed(p) ==
  /\ MayInstall(p)
  /\ proc' = [proc EXCEPT ![p] = "live"] /\ agent' = p /\ name' = frame.to
  /\ IF frame.had /\ ~AllReachable
     THEN pc' = "rbKill" /\ conn' = {} /\ destroyOp' = [destroyOp EXCEPT ![p] = "pending"]
     ELSE /\ pc' = "patching" /\ UNCHANGED destroyOp
          /\ conn' = IF frame.had THEN conn \cup Leased ELSE conn
  /\ UNCHANGED <<terminating, history, suspended, attached, available, prompt, record,
                 frame, cancel, teardown, switches>>

\* Neither resume nor spawn yields an agent.
FactoryFails(p) ==
  /\ proc[p] = "starting" /\ pc = "creating" /\ p = frame.new /\ ~terminating
  /\ proc' = [proc EXCEPT ![p] = "dead"] /\ EnterRollback
  /\ UNCHANGED <<terminating, session, suspended, attached, available, prompt, record,
                 frame, cancel, teardown, switches>>

\* The patch carries a status of its own.
MutantPatchesStatus ==
  record' = [record EXCEPT !.name = name, !.agent = agent, !.history = history, !.status = "error"]

\* patchRecord() with expectedSession: nothing for a terminating session.
PatchRecord ==
  record' = IF terminating THEN record
            ELSE [record EXCEPT !.name = name, !.agent = agent, !.history = history]

PatchRuns ==
  /\ pc = "patching" /\ PatchRecord /\ pc' = "patched"
  /\ UNCHANGED <<terminating, session, suspended, proc, destroyOp, attached, available,
                 conn, prompt, frame, cancel, teardown, switches>>

PatchFails ==
  /\ pc = "patching" /\ EnterRollback
  /\ UNCHANGED <<terminating, session, suspended, proc, attached, available, prompt,
                 record, frame, cancel, teardown, switches>>

\* The switch is committed: the controls of the new agent are published.
SwitchCommits ==
  /\ pc = "patched" /\ pc' = "idle"
  /\ suspended' = terminating
  /\ UNCHANGED <<terminating, session, proc, destroyOp, attached, available, conn, prompt,
                 record, frame, cancel, teardown, switches>>

(***************************************************************************)
(* The rollback.                                                           *)
(***************************************************************************)
RollbackKilled ==
  /\ pc = "rbKill" /\ destroyOp[agent] = "done"
  /\ IF terminating THEN pc' = "idle" /\ UNCHANGED <<proc, frame>>
     ELSE StartsFactory("rbCreating")
  /\ UNCHANGED <<terminating, session, suspended, destroyOp, attached, available, conn,
                 prompt, record, cancel, teardown, switches>>

\* restoreAgentAfterFailedSwitch(): the history entry is taken back.
RolledBack(p) ==
  /\ proc[p] = "starting" /\ pc = "rbCreating" /\ p = frame.new /\ ~terminating
  /\ proc' = [proc EXCEPT ![p] = "live"]
  /\ agent' = p /\ name' = frame.from /\ history' = Front(history) /\ pc' = "rbPatching"
  /\ UNCHANGED <<terminating, suspended, destroyOp, attached, available, conn, prompt,
                 record, frame, cancel, teardown, switches>>

RollbackFactoryFails(p) ==
  /\ proc[p] = "starting" /\ pc = "rbCreating" /\ p = frame.new /\ ~terminating
  /\ proc' = [proc EXCEPT ![p] = "dead"] /\ RollbackFails
  /\ UNCHANGED <<session, attached, available, prompt, record, frame, cancel, switches>>

\* The rolled back identity is not written to the record again.
MutantSkipsRollbackPatch ==
  /\ pc = "rbPatching" /\ pc' = "rbPatched"
  /\ UNCHANGED <<terminating, session, suspended, proc, destroyOp, attached, available,
                 conn, prompt, record, frame, cancel, teardown, switches>>

RollbackPatchRuns ==
  /\ pc = "rbPatching" /\ PatchRecord /\ pc' = "rbPatched"
  /\ UNCHANGED <<terminating, session, suspended, proc, destroyOp, attached, available,
                 conn, prompt, frame, cancel, teardown, switches>>

RollbackPatchFails ==
  /\ pc = "rbPatching" /\ RollbackFails
  /\ UNCHANGED <<session, proc, attached, available, prompt, record, frame, cancel, switches>>

\* The rolled back agent stays without the bridges the switch took away.
MutantRollsBackUnbridged ==
  /\ pc = "rbPatched" /\ pc' = "idle" /\ suspended' = terminating
  /\ UNCHANGED <<terminating, session, proc, destroyOp, attached, available, conn, prompt,
                 record, frame, cancel, teardown, switches>>

\* The controls come back and then the bridges; an adapter that is gone is a
\* failure of the rollback.
RollbackCommits ==
  /\ pc = "rbPatched"
  /\ IF ~terminating /\ frame.had /\ ~AllReachable THEN RollbackFails
     ELSE /\ pc' = "idle" /\ suspended' = terminating
          /\ conn' = IF terminating \/ ~frame.had THEN conn ELSE conn \cup Leased
          /\ UNCHANGED <<terminating, teardown, destroyOp>>
  /\ UNCHANGED <<session, proc, attached, available, prompt, record, frame, cancel, switches>>

\* The destroyed session's patch to "error" is skipped like any other.
RollbackAbandoned ==
  /\ pc = "rbRecord" /\ pc' = "idle" /\ PatchRecord
  /\ UNCHANGED <<terminating, session, suspended, proc, destroyOp, attached, available,
                 conn, prompt, frame, cancel, teardown, switches>>

(***************************************************************************)
(* Process teardown, shared by the switch and the session's destruction.   *)
(***************************************************************************)
Killed(p) ==
  /\ destroyOp[p] = "pending"
  /\ destroyOp' = [destroyOp EXCEPT ![p] = "done"] /\ proc' = [proc EXCEPT ![p] = "dead"]
  /\ UNCHANGED <<terminating, session, suspended, attached, available, conn, prompt,
                 record, pc, frame, cancel, teardown, switches>>

\* quiesceQueueForAgentSwitch() throws: the rollback retries the same process.
QuiesceKillFails(p) ==
  /\ destroyOp[p] = "pending" /\ p = agent /\ pc = "quiesce" /\ ~terminating
  /\ EnterRollback
  /\ UNCHANGED <<terminating, session, suspended, proc, attached, available, prompt,
                 record, frame, cancel, teardown, switches>>

\* The rollback cannot retire the installed process.
RollbackKillFails(p) ==
  /\ destroyOp[p] = "pending" /\ p = agent /\ pc = "rbKill" /\ ~terminating
  /\ RollbackFails
  /\ UNCHANGED <<session, proc, attached, available, prompt, record, frame, cancel, switches>>

\* Behind the terminal boundary every caller waiting for the process observes
\* the failure; the next caller of destroyAgent() tries again.
KillFails(p) ==
  /\ destroyOp[p] = "pending" /\ terminating
  /\ destroyOp' = [destroyOp EXCEPT ![p] = "failed"]
  /\ pc' = CASE p = agent /\ pc \in {"quiesce", "rbKill"} -> "idle"
             [] p = agent /\ pc = "rbDestroy" -> "rbRecord"
             [] OTHER -> pc
  /\ teardown' = IF p = agent /\ teardown = "killing" THEN "failed" ELSE teardown
  /\ UNCHANGED <<terminating, session, suspended, proc, attached, available, conn,
                 prompt, record, frame, cancel, switches>>

\* performDestroy() goes on: the queue is released and the session destroyed.
TeardownDone ==
  /\ teardown = "killing" /\ destroyOp[agent] = "done" /\ teardown' = "done"
  /\ pc' = IF pc = "rbDestroy" THEN "rbRecord" ELSE pc
  /\ UNCHANGED <<terminating, session, suspended, proc, destroyOp, attached, available,
                 conn, prompt, record, frame, cancel, switches>>

(***************************************************************************)
(* The rest of the session meanwhile.                                      *)
(***************************************************************************)
\* cancelSession() crosses the terminal boundary before its first await.
Cancel ==
  /\ cancel = "none" /\ cancel' = "persisting"
  /\ terminating' = TRUE /\ suspended' = TRUE /\ conn' = {}
  /\ UNCHANGED <<session, proc, destroyOp, attached, available, prompt, record, pc, frame,
                 teardown, switches>>

CancelPersists ==
  /\ cancel = "persisting" /\ cancel' = "destroying"
  /\ record' = [record EXCEPT !.status = "cancelled"] /\ DestroySession
  /\ UNCHANGED <<session, proc, attached, available, prompt, pc, frame, switches>>

\* The terminal record cannot be saved or flushed: cancelSession() rejects. The
\* session stays terminating, its teardown is not started, and a later call may
\* try again.
CancelFails ==
  /\ cancel = "persisting" /\ cancel' = "none"
  /\ UNCHANGED <<terminating, session, suspended, proc, destroyOp, attached, available,
                 conn, prompt, record, pc, frame, teardown, switches>>

\* A cancellation after a failed teardown tries it again.
CancelAgain ==
  /\ cancel = "destroying" /\ teardown = "failed" /\ DestroySession
  /\ UNCHANGED <<session, proc, attached, available, prompt, record, pc, frame, cancel, switches>>

\* attachAdapter(), once the thread exists: bound and bridged in one step.
Attach(a) ==
  /\ ~terminating /\ a \in available /\ a \notin Attached
  /\ attached' = Append(attached, a) /\ conn' = conn \cup {a}
  /\ UNCHANGED <<terminating, session, suspended, proc, destroyOp, available, prompt,
                 record, pc, frame, cancel, teardown, switches>>

\* The detached adapter's lease stays current.
MutantDetachKeepsLease(a) ==
  /\ ~terminating /\ a # Channel /\ a \in Attached
  /\ attached' = Without(attached, a) /\ conn' = conn \ {a}
  /\ UNCHANGED <<terminating, session, suspended, proc, destroyOp, available, prompt,
                 record, pc, frame, cancel, teardown, switches>>

\* detachAdapter(), after its notice: the bridge goes, and the new attachment
\* generation makes every captured lease of the adapter stale for good.
Detach(a) ==
  /\ ~terminating /\ a # Channel /\ a \in Attached
  /\ attached' = Without(attached, a) /\ conn' = conn \ {a}
  /\ frame' = [frame EXCEPT !.leases = Without(@, a)]
  /\ UNCHANGED <<terminating, session, suspended, proc, destroyOp, available, prompt,
                 record, pc, cancel, teardown, switches>>

\* A prompt starts whenever the queue is free, the switch does not stop it.
PromptStarts ==
  /\ prompt = "none" /\ ~terminating /\ prompt' = "running"
  /\ UNCHANGED <<terminating, session, suspended, proc, destroyOp, attached, available,
                 conn, record, pc, frame, cancel, teardown, switches>>

PromptSettles ==
  /\ prompt # "none" /\ prompt' = "none"
  /\ UNCHANGED <<terminating, session, suspended, proc, destroyOp, attached, available,
                 conn, record, pc, frame, cancel, teardown, switches>>

Next ==
  \/ \E to \in Agents : SwitchBegin(to)
  \/ \E allowed \in BOOLEAN : MiddlewareReturns(allowed)
  \/ \E a \in Adapters, ok \in BOOLEAN : AdapterCleaned(a, ok)
  \/ CleanupFailed \/ CleanupStopped \/ SwitchAgent \/ Quiesced \/ TerminationWins
  \/ \E p \in Procs : \/ LateAgent(p) \/ LateFailure(p)
                      \/ Installed(p) \/ FactoryFails(p)
                      \/ RolledBack(p) \/ RollbackFactoryFails(p)
  \/ PatchRuns \/ PatchFails \/ SwitchCommits
  \/ RollbackKilled \/ RollbackPatchRuns \/ RollbackPatchFails \/ RollbackCommits
  \/ RollbackAbandoned
  \/ \E p \in Procs : \/ Killed(p) \/ QuiesceKillFails(p) \/ RollbackKillFails(p)
                      \/ KillFails(p)
  \/ TeardownDone \/ Cancel \/ CancelPersists \/ CancelFails \/ CancelAgain
  \/ \E a \in Adapters : Attach(a) \/ Detach(a)
  \/ PromptStarts \/ PromptSettles

Spec == Init /\ [][Next]_vars

(***************************************************************************)
(* Fairness: middleware, adapter cleanup, patches, the cancellation's      *)
(* write and destroy() settle one way or the other. A factory and a prompt *)
(* may stay pending for ever.                                              *)
(***************************************************************************)
FactorySettles ==
  \E p \in Procs : \/ LateAgent(p) \/ LateFailure(p) \/ Installed(p) \/ FactoryFails(p)
                   \/ RolledBack(p) \/ RollbackFactoryFails(p)

KillSettles(p) ==
  Killed(p) \/ QuiesceKillFails(p) \/ RollbackKillFails(p) \/ KillFails(p)

Fairness ==
  /\ WF_vars(\E allowed \in BOOLEAN : MiddlewareReturns(allowed))
  /\ \A a \in Adapters : WF_vars(\E ok \in BOOLEAN : AdapterCleaned(a, ok))
  /\ WF_vars(CleanupFailed \/ CleanupStopped \/ SwitchAgent)
  /\ WF_vars(Quiesced) /\ WF_vars(TerminationWins)
  /\ WF_vars(PatchRuns \/ PatchFails) /\ WF_vars(SwitchCommits)
  /\ WF_vars(RollbackKilled) /\ WF_vars(RollbackPatchRuns \/ RollbackPatchFails)
  /\ WF_vars(RollbackCommits) /\ WF_vars(RollbackAbandoned)
  /\ \A p \in Procs : WF_vars(KillSettles(p))
  /\ WF_vars(TeardownDone) /\ WF_vars(CancelPersists \/ CancelFails)

FairSpec == Spec /\ Fairness

(***************************************************************************)
(* Properties.                                                             *)
(***************************************************************************)
TypeOK ==
  /\ terminating \in BOOLEAN /\ suspended \in BOOLEAN
  /\ agent \in Procs /\ name \in Agents /\ history \in Seq(Agents)
  /\ proc \in [Procs -> {"unborn", "starting", "live", "dead"}]
  /\ destroyOp \in [Procs -> {"none", "pending", "done", "failed"}]
  /\ attached \in Seq(Adapters) /\ available \subseteq Adapters /\ conn \subseteq Adapters
  /\ prompt \in {"none", "running", "aborted"}
  /\ record \in [name : Agents, agent : Procs, history : Seq(Agents),
                 status : {"active", "cancelled"}]
  /\ pc \in Points
  /\ frame \in [to : Agents, from : Agents, leases : Seq(Adapters),
                todo : SUBSET Adapters, had : BOOLEAN, failed : BOOLEAN, new : Procs]
  /\ cancel \in {"none", "persisting", "destroying"}
  /\ teardown \in {"none", "killing", "done", "failed"}
  /\ switches \in 0 .. MaxSwitches

\* A session never has two agent processes, whatever switch, rollback and late
\* factory do: the old one is gone before its replacement is asked for.
OneRuntime == Cardinality({p \in Procs : proc[p] \in {"starting", "live"}}) <= 1

\* Controls are enabled only for the agent, and the history, that the durable
\* record names: the switch publishes them after runtime, bridges and record.
ControlsAreCommitted ==
  ~terminating /\ ~suspended =>
     record.agent = agent /\ record.name = name /\ record.history = history

\* A switch that is over left the session terminating or working: with a live
\* agent and its controls enabled, even if every step of it failed.
SwitchLeavesAgent ==
  pc = "idle" /\ ~terminating => proc[agent] = "live" /\ ~suspended

\* An adapter that was detached, at any await of a switch, is never bridged
\* again, and behind the terminal boundary no bridge is left.
BridgesAreAttached == conn \subseteq IF terminating THEN {} ELSE Attached

\* When a switch that disconnected the bridges is over, committed, rolled back
\* or refused, every adapter it had and that stayed attached is bridged again,
\* up to the first one that is gone (reconnectCurrentAttachments()).
LeasedBridgesReturn ==
  [][pc # "idle" /\ pc' = "idle" /\ ~terminating' /\ frame.had => Reconnected \subseteq conn']_vars

\* Nothing is resurrected behind the terminal boundary: no agent installed,
\* no bridge connected, no control enabled and no record patched.
TerminalBoundaryHolds ==
  [][terminating => /\ terminating' /\ suspended' /\ agent' = agent /\ name' = name
                    /\ conn' \subseteq conn
                    /\ record' \in {record, [record EXCEPT !.status = "cancelled"]}]_vars

\* What may be observed at any await of a switch, what it left when it is over,
\* and what it may do behind a cancellation.
SwitchIsAtomic ==
  /\ [](OneRuntime /\ ControlsAreCommitted /\ SwitchLeavesAgent /\ BridgesAreAttached)
  /\ LeasedBridgesReturn /\ TerminalBoundaryHolds

\* A cancellation frees the switch, its lock and its caller even if the factory
\* never settles, and once its teardown is started even if the aborted prompt
\* never does: one whose write failed leaves a switch behind that prompt. If they
\* settle, every switch ends.
SwitchEnds ==
  /\ terminating ~> pc \in {"idle", "quiesce"}
  /\ teardown # "none" ~> pc = "idle"
  /\ WF_vars(FactorySettles) /\ WF_vars(PromptSettles) => (pc # "idle" ~> pc = "idle")

\* No process outlives its replacement, or the teardown of its session, even one
\* whose factory settles long after the session ended, unless its destroy() fails.
NoOrphanAgent ==
  \A p \in Procs :
    proc[p] = "live" /\ (teardown # "none" \/ p # agent) ~> proc[p] = "dead" \/ destroyOp[p] = "failed"

\* Switches and cancellations end, and so does every process they leave behind.
SwitchesSettle == SwitchEnds /\ NoOrphanAgent
=============================================================================
