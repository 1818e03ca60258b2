------------------------------ MODULE WarmPool ------------------------------
(***************************************************************************)
(* The warm pool of AgentManager (core/agents/agent-manager.ts): one agent  *)
(* process is started and initialized ahead of the next session.  A session *)
(* claims it, a timer reaps it, a changed definition or proxy route makes   *)
(* it worthless, and the daemon takes it down when it stops.  Beside it the *)
(* processes of ordinary spawns, and those whose handshake failed, which    *)
(* AgentInstance owns until they are gone (core/agents/agent-instance.ts).  *)
(*                                                                         *)
(* A process is started from a runtime: the definition of the agent and the *)
(* environment its proxy route gives it.  Whoever asks for the agent asks   *)
(* for the one workspace the pool is for, or misses.                        *)
(***************************************************************************)
EXTENDS Naturals, FiniteSets

CONSTANTS None,
          Callers,          \* sessions being created
          Runtimes,         \* what resolveWarmRuntime() may return
          MaxProcs,         \* processes of a run
          MaxAttempts,      \* WARM_CLEANUP_MAX_ATTEMPTS, INITIALIZATION_CLEANUP_MAX_ATTEMPTS
          Capacity,         \* INITIALIZATION_CLEANUP_CAPACITY
          MaxChanges, MaxFaults   \* bounds: changes of the runtime, failing destroys

ASSUME WarmPoolAssumption ==
    /\ MaxProcs \in Nat /\ MaxAttempts \in Nat \ {0} /\ Capacity \in Nat
    /\ MaxChanges \in Nat /\ MaxFaults \in Nat
    /\ None \notin Runtimes

Procs == 1..MaxProcs

VARIABLES life,         \* the child processes
          runtime,      \* what the agent resolves to now, None when it is not installed
          policy,       \* policyGeneration of the proxy service
          committed,    \* history: its value at the last route change that was committed
          warming,      \* the prewarm in flight
          entry,        \* warmEntry
          expiry,       \* warmExpiryTimer: the entry to reap and the generation it was armed in
          claiming,     \* warmClaiming: the entry belongs to a claim
          cleanup,      \* warmCleanup
          generation,   \* warmGeneration
          closing,      \* warmPoolClosing
          caller,       \* AgentManager.spawn() of each session
          failed,       \* AgentInstance.initializationCleanups
          owned,        \* the processes that hold a place of its capacity
          change,       \* the listener of a route change: destroyWarm()
          shut,         \* shutdownWarmPool()
          sweep,        \* what its shutdownInitializationCleanups() has taken
          booted, changes, faults

pool == <<warming, entry, expiry, claiming, cleanup>>
world == <<runtime, policy, committed, changes>>
initializing == <<failed, owned>>
control == <<change, shut, sweep, closing, generation, booted>>
vars == <<life, world, pool, initializing, control, caller, faults>>

Warmings == [proc : Procs, made : Runtimes, policy : Nat, generation : Nat, stage : {"starting", "cleanup", "failed"}]
Entries == [proc : Procs, made : Runtimes, policy : Nat]
Expiries == [proc : Procs, generation : Nat]
Cleanups == [proc : Procs, state : {"pending", "failed"}, attempts : Nat, timer : BOOLEAN, schedule : BOOLEAN]
\* Their attempts are limited, but for the last one, of the shutdown.
Failures == {f \in [state : {"pending", "failed", "terminal"}, attempts : 1..(MaxAttempts + 1),
                    timer : BOOLEAN, final : BOOLEAN] : f.final \/ f.attempts <= MaxAttempts}
Waits == [pc : {"idle", "warming", "claim", "cleanup", "backoff", "sweep", "done"},
          proc : Procs \union {None}, attempt : Nat, round : Nat]
At(pc) == [pc |-> pc, proc |-> None, attempt |-> 0, round |-> 0]

-----------------------------------------------------------------------------
(* Processes *)

Alive == {p \in Procs : life[p] = "alive"}
Unused == {p \in Procs : life[p] = "none" /\ \A q \in 1..(p - 1) : life[q] # "none"}

\* spawnSubprocess() takes a place before it starts the child and refuses when
\* all are taken.  A run that is out of processes refuses as well.
Places == {p \in Unused : Cardinality(owned) < Capacity}
Start(p) == life' = [life EXCEPT ![p] = "alive"] /\ owned' = owned \union {p}

\* A failed handshake: its child stays owned until destroy() succeeds.
Retain(p) == failed' = [failed EXCEPT ![p] = [state |-> "pending", attempts |-> 1, timer |-> FALSE, final |-> FALSE]]
FirstAttempt(p) == failed[p] # None /\ failed[p].state = "pending" /\ failed[p].attempts = 1

\* beginWarmCleanup(): joins the destroy that is under way, or starts another.
Begin(p, schedule) ==
    IF cleanup = None
    THEN [proc |-> p, state |-> "pending", attempts |-> 1, timer |-> FALSE, schedule |-> schedule]
    ELSE IF cleanup.state = "pending" THEN cleanup
    ELSE [cleanup EXCEPT !.state = "pending", !.attempts = @ + 1, !.timer = FALSE, !.schedule = schedule]

\* The attempt somebody waits for has not settled.
Attempting(p, n) == cleanup # None /\ cleanup.proc = p /\ cleanup.state = "pending" /\ cleanup.attempts = n

-----------------------------------------------------------------------------
(* prewarm() *)

\* The process is started with the runtime, the policy and the generation of now,
\* unless the pool is closing or busy with another one.  It has no entry when it
\* is asked: main() asks first, and a claim when it has taken the entry away.
Prewarm ==
    IF runtime # None /\ ~closing /\ warming = None /\ cleanup = None /\ Places # {}
    THEN \E p \in Places :
           /\ warming' = [proc |-> p, made |-> runtime, policy |-> policy, generation |-> generation, stage |-> "starting"]
           /\ Start(p)
    ELSE UNCHANGED <<warming, life, owned>>

\* main() warms the default agent once.
Boot ==
    /\ ~booted /\ booted' = TRUE
    /\ Prewarm
    /\ UNCHANGED <<world, entry, expiry, claiming, cleanup, failed, change, shut, sweep, closing, generation, caller, faults>>

Invalidated == \/ closing \/ warming.generation # generation \/ warming.policy # policy
               \/ warming.made # runtime

Candidate == [proc |-> warming.proc, made |-> warming.made, policy |-> warming.policy]

WarmReady ==
    /\ warming # None /\ warming.stage = "starting" /\ ~Invalidated
    /\ entry' = Candidate /\ warming' = None
    /\ expiry' = [proc |-> warming.proc, generation |-> generation]
    /\ owned' = owned \ {warming.proc}
    /\ UNCHANGED <<life, world, claiming, cleanup, failed, control, caller, faults>>

\* It is not published but goes the way of every warm process.
WarmInvalidated ==
    /\ warming # None /\ warming.stage = "starting" /\ Invalidated
    /\ entry' = Candidate /\ cleanup' = Begin(warming.proc, ~closing)
    /\ warming' = [warming EXCEPT !.stage = "cleanup"]
    /\ owned' = owned \ {warming.proc}
    /\ UNCHANGED <<life, world, expiry, claiming, failed, control, caller, faults>>

WarmFails ==
    /\ warming # None /\ warming.stage = "starting"
    /\ Retain(warming.proc) /\ warming' = [warming EXCEPT !.stage = "failed"]
    /\ UNCHANGED <<life, world, entry, expiry, claiming, cleanup, owned, control, caller, faults>>

WarmingSettled ==
    /\ warming # None
    /\ warming.stage = "cleanup" => ~Attempting(warming.proc, 1)
    /\ warming.stage = "failed" => ~FirstAttempt(warming.proc)
    /\ warming.stage # "starting"
WarmingEnds ==
    /\ WarmingSettled /\ warming' = None
    /\ UNCHANGED <<life, world, entry, expiry, claiming, cleanup, initializing, control, caller, faults>>

Expires ==
    /\ expiry # None /\ expiry' = None
    /\ cleanup' = IF /\ ~closing /\ expiry.generation = generation
                     /\ entry # None /\ entry.proc = expiry.proc
                  THEN Begin(entry.proc, TRUE) ELSE cleanup
    /\ UNCHANGED <<life, world, warming, entry, claiming, initializing, control, caller, faults>>

-----------------------------------------------------------------------------
(* spawn() *)

Now(c, pc, p) == caller' = [caller EXCEPT ![c] = [pc |-> pc, proc |-> p]]

\* AgentInstance.spawn(): refused without a runtime or a place.
Fresh(c) ==
    IF runtime # None /\ Places # {}
    THEN \E p \in Places : Start(p) /\ Now(c, "starting", p)
    ELSE Now(c, "failed", None) /\ UNCHANGED <<life, owned>>

\* The entry can be looked at: nobody claims it, nothing takes it down.
Free == entry # None /\ cleanup = None /\ claiming = None
Fit == entry.policy = policy /\ entry.made = runtime /\ life[entry.proc] = "alive"

\* Another workspace, or no entry to be had.
Miss(c) ==
    /\ caller[c].pc = "idle"
    /\ Fresh(c)
    /\ UNCHANGED <<world, pool, failed, control, faults>>

\* takeWarm() finds it stale or dead, or too old and the reaper late: it is taken
\* down beside the spawn.
Discard(c) ==
    /\ caller[c].pc = "idle" /\ Free
    /\ expiry' = None /\ cleanup' = Begin(entry.proc, TRUE)
    /\ Fresh(c)
    /\ UNCHANGED <<world, warming, entry, claiming, failed, control, faults>>

Take(c) ==
    /\ caller[c].pc = "idle" /\ Free /\ Fit
    /\ expiry' = None /\ claiming' = entry.proc
    /\ Now(c, "claiming", entry.proc)
    /\ UNCHANGED <<life, world, warming, entry, cleanup, initializing, control, faults>>

\* The agent opened the session.  The runtime is compared once more before the
\* process is handed over and the pool refilled.
MutantStillFits(p) == TRUE
StillFits(p) == runtime # None /\ entry.made = runtime

Claimed(c) ==
    /\ caller[c].pc = "claiming" /\ StillFits(caller[c].proc)
    /\ Now(c, "got", caller[c].proc)
    /\ entry' = None /\ claiming' = None
    /\ Prewarm
    /\ UNCHANGED <<world, expiry, cleanup, failed, control, faults>>

\* The agent refused or did not answer in time, or the runtime changed.
ClaimFails(c) ==
    /\ caller[c].pc = "claiming"
    /\ claiming' = None /\ cleanup' = Begin(caller[c].proc, TRUE)
    /\ Now(c, "unclaimed", caller[c].proc)
    /\ UNCHANGED <<life, world, warming, entry, expiry, initializing, control, faults>>

Unclaimed(c) == caller[c].pc = "unclaimed" /\ ~Attempting(caller[c].proc, 1)
FallsBack(c) ==
    /\ Unclaimed(c) /\ Fresh(c)
    /\ UNCHANGED <<world, pool, failed, control, faults>>

Initialized(c) ==
    /\ caller[c].pc = "starting"
    /\ Now(c, "opening", caller[c].proc)
    /\ UNCHANGED <<life, world, pool, initializing, control, faults>>

Opened(c) ==
    /\ caller[c].pc = "opening"
    /\ Now(c, "got", caller[c].proc)
    /\ owned' = owned \ {caller[c].proc}
    /\ UNCHANGED <<life, world, pool, failed, control, faults>>

Fails(c) ==
    /\ Retain(caller[c].proc) /\ Now(c, "retained", caller[c].proc)
    /\ UNCHANGED <<life, world, pool, owned, control, faults>>
InitializeFails(c) == caller[c].pc = "starting" /\ Fails(c)
OpenFails(c) == caller[c].pc = "opening" /\ Fails(c)

Retained(c) == caller[c].pc = "retained" /\ ~FirstAttempt(caller[c].proc)
SpawnEnds(c) ==
    /\ Retained(c) /\ Now(c, "failed", None)
    /\ UNCHANGED <<life, world, pool, initializing, control, faults>>

-----------------------------------------------------------------------------
(* The destroy of a warm process *)

\* A mutant that gives the slot free although the process may live.
MutantCleanupFails ==
    /\ cleanup # None /\ cleanup.state = "pending"
    /\ faults < MaxFaults /\ faults' = faults + 1
    /\ cleanup' = None /\ entry' = None /\ claiming' = None
    /\ UNCHANGED <<life, world, warming, expiry, initializing, control, caller>>

\* A mutant that does not try again.
MutantCleanupGivenUp ==
    /\ cleanup # None /\ cleanup.state = "pending" /\ cleanup.proc \in Alive
    /\ faults < MaxFaults /\ faults' = faults + 1
    /\ cleanup' = [cleanup EXCEPT !.state = "failed"]
    /\ UNCHANGED <<life, world, warming, entry, expiry, claiming, initializing, control, caller>>

\* A reaper that outlives its entry finds it gone and does nothing: it is taken
\* off here.
CleanupDestroys ==
    /\ cleanup # None /\ cleanup.state = "pending"
    /\ life' = [life EXCEPT ![cleanup.proc] = "gone"]
    /\ cleanup' = None /\ entry' = None /\ expiry' = None
    /\ UNCHANGED <<world, warming, claiming, initializing, control, caller, faults>>

CleanupFails ==
    /\ cleanup # None /\ cleanup.state = "pending" /\ cleanup.proc \in Alive
    /\ faults < MaxFaults /\ faults' = faults + 1
    /\ cleanup' = [cleanup EXCEPT !.state = "failed",
                    !.timer = cleanup.schedule /\ ~closing /\ cleanup.attempts < MaxAttempts]
    /\ UNCHANGED <<life, world, warming, entry, expiry, claiming, initializing, control, caller>>

CleanupRetries ==
    /\ cleanup # None /\ cleanup.timer
    /\ cleanup' = Begin(cleanup.proc, TRUE)
    /\ UNCHANGED <<life, world, warming, entry, expiry, claiming, initializing, control, caller, faults>>

-----------------------------------------------------------------------------
(* The processes whose handshake failed: runInitializationCleanup() *)

Destroying(p) == failed[p] # None /\ failed[p].state = "pending"

FailureDestroyed(p) ==
    /\ Destroying(p)
    /\ life' = [life EXCEPT ![p] = "gone"]
    /\ failed' = [failed EXCEPT ![p] = None] /\ owned' = owned \ {p}
    /\ UNCHANGED <<world, pool, control, caller, faults>>

\* A mutant that tries for ever.
MutantFailureKept(p) ==
    /\ Destroying(p) /\ p \in Alive
    /\ faults < MaxFaults /\ faults' = faults + 1
    /\ failed' = [failed EXCEPT ![p] = [@ EXCEPT !.state = "failed", !.timer = TRUE]]
    /\ UNCHANGED <<life, world, pool, owned, control, caller>>

FailureKept(p) ==
    /\ Destroying(p) /\ p \in Alive
    /\ faults < MaxFaults /\ faults' = faults + 1
    /\ failed' = [failed EXCEPT ![p] =
          IF @.final \/ @.attempts >= MaxAttempts THEN [@ EXCEPT !.state = "terminal"]
          ELSE [@ EXCEPT !.state = "failed", !.timer = TRUE]]
    /\ UNCHANGED <<life, world, pool, owned, control, caller>>

Again(p, final) == [failed[p] EXCEPT !.state = "pending", !.attempts = @ + 1, !.timer = FALSE, !.final = final]

FailureRetried(p) ==
    /\ failed[p] # None /\ failed[p].timer
    /\ failed' = [failed EXCEPT ![p] = Again(p, FALSE)]
    /\ UNCHANGED <<life, world, pool, owned, control, caller, faults>>

\* A warm child dies by itself.  Anywhere else this is a handshake that fails or
\* a destroy that succeeds.
Exits(p) ==
    /\ p \in Alive /\ entry # None /\ entry.proc = p
    /\ life' = [life EXCEPT ![p] = "gone"]
    /\ UNCHANGED <<world, pool, initializing, control, caller, faults>>

-----------------------------------------------------------------------------
(* Changes of the runtime *)

\* The agent is installed anew, removed or reconfigured: nobody tells the pool.
DefinitionChanges ==
    /\ changes < MaxChanges /\ changes' = changes + 1
    /\ runtime' \in (Runtimes \union {None}) \ {runtime}
    /\ UNCHANGED <<life, policy, committed, pool, initializing, control, caller, faults>>

-----------------------------------------------------------------------------
(* destroyWarm(): each await captures what it waits for *)

Claims == {c \in Callers : caller[c].pc = "claiming" \/ (caller[c].pc = "unclaimed" /\ Attempting(caller[c].proc, 1))}

\* A mutant that waits for nobody's prewarm.
MutantAwait(from, round) ==
    IF Claims # {} /\ from \in {"warming", "claim"}
    THEN [pc |-> "claim", proc |-> caller[CHOOSE c \in Claims : TRUE].proc, attempt |-> 0, round |-> round]
    ELSE IF entry # None /\ from # "end"
    THEN [pc |-> "cleanup", proc |-> entry.proc, attempt |-> Begin(entry.proc, TRUE).attempts, round |-> round]
    ELSE At("idle")

\* The prewarm in flight, then the claim, then the destroy of the entry.
Await(from, round) ==
    IF warming # None /\ from = "warming"
    THEN [pc |-> "warming", proc |-> warming.proc, attempt |-> 0, round |-> round]
    ELSE IF Claims # {} /\ from \in {"warming", "claim"}
    THEN [pc |-> "claim", proc |-> caller[CHOOSE c \in Claims : TRUE].proc, attempt |-> 0, round |-> round]
    ELSE IF entry # None /\ from # "end"
    THEN [pc |-> "cleanup", proc |-> entry.proc, attempt |-> Begin(entry.proc, TRUE).attempts, round |-> round]
    ELSE At("idle")

Joins(w, schedule) == cleanup' = IF w.pc = "cleanup" THEN Begin(w.proc, schedule) ELSE cleanup

Settled(w) ==
    CASE w.pc = "warming" -> (warming # None => warming.proc # w.proc)
      [] w.pc = "claim" -> \A c \in Claims : caller[c].proc # w.proc
      [] w.pc = "cleanup" -> ~Attempting(w.proc, w.attempt)
      [] OTHER -> FALSE
After(w) ==
    CASE w.pc = "warming" -> "claim" [] w.pc = "claim" -> "cleanup" [] OTHER -> "end"

\* A route of the agents is committed; destroyWarm() runs as its listener, and
\* the next mutation waits until it returns.
RouteChanges ==
    /\ change.pc = "idle"
    /\ changes < MaxChanges /\ changes' = changes + 1
    /\ policy' = policy + 1 /\ committed' = policy + 1
    /\ runtime' \in IF runtime = None THEN {None} ELSE Runtimes
    /\ generation' = generation + 1 /\ expiry' = None
    /\ LET w == Await("warming", 0) IN change' = w /\ Joins(w, TRUE)
    /\ UNCHANGED <<life, warming, entry, claiming, initializing, shut, sweep, closing, booted, caller, faults>>

ChangeGoesOn ==
    /\ Settled(change)
    /\ LET w == Await(After(change), 0) IN change' = w /\ Joins(w, TRUE)
    /\ UNCHANGED <<life, world, warming, entry, expiry, claiming, initializing, shut, sweep, closing, generation, booted, caller, faults>>

\* A policy is invalidated before its commit.  The commit is refused, or it saves
\* a profile, of which no listener is told: the entry is left to takeWarm().
PolicyInvalidated ==
    /\ change.pc = "idle"
    /\ changes < MaxChanges /\ changes' = changes + 1
    /\ policy' = policy + 1
    /\ runtime' \in IF runtime = None THEN {None} ELSE Runtimes
    /\ UNCHANGED <<life, committed, pool, initializing, control, caller, faults>>

-----------------------------------------------------------------------------
(* shutdownWarmPool() *)

\* shutdownInitializationCleanups() takes those that are retained now.
StartSweep ==
    /\ shut' = At("sweep")
    /\ sweep' = {p \in Procs : failed[p] # None}
    /\ failed' = [p \in Procs |-> IF failed[p] = None THEN None ELSE [failed[p] EXCEPT !.timer = FALSE]]

ShutdownAwaits(w, slot) ==
    IF w.pc = "idle" THEN StartSweep /\ cleanup' = slot
    ELSE /\ shut' = w /\ UNCHANGED <<failed, sweep>>
         /\ IF w.pc = "cleanup" THEN Joins(w, FALSE) ELSE cleanup' = slot

Shutdown ==
    /\ shut.pc = "idle" /\ closing' = TRUE
    /\ generation' = generation + 1 /\ expiry' = None
    /\ ShutdownAwaits(Await("warming", 0), IF cleanup = None THEN None ELSE [cleanup EXCEPT !.timer = FALSE])
    /\ UNCHANGED <<life, world, warming, entry, claiming, owned, change, booted, caller, faults>>

ShutdownContinues(w) ==
    /\ ShutdownAwaits(w, cleanup)
    /\ UNCHANGED <<life, world, warming, entry, expiry, claiming, owned, change, closing, generation, booted, caller, faults>>

\* A destroy that failed is followed by a pause and one round more, as long as
\* there is any left.
ShutdownGoesOn ==
    /\ Settled(shut)
    /\ LET again == shut.pc = "cleanup" /\ entry # None /\ shut.round + 1 < MaxAttempts
       IN ShutdownContinues(IF again THEN [At("backoff") EXCEPT !.round = shut.round + 1]
                            ELSE Await(After(shut), shut.round))
BackedOff ==
    /\ shut.pc = "backoff"
    /\ ShutdownContinues(Await("cleanup", shut.round))

\* Each retained process gets a last attempt after the one under way.
SweepRuns(p) ==
    /\ shut.pc = "sweep" /\ p \in sweep
    /\ failed[p] # None /\ failed[p].state # "pending" /\ ~failed[p].final
    /\ failed' = [failed EXCEPT ![p] = Again(p, TRUE)]
    /\ UNCHANGED <<life, world, pool, owned, control, caller, faults>>

\* All have had it, or the budget of four seconds is spent: what is left is given
\* up, and counted.
SweepEnds ==
    /\ shut.pc = "sweep"
    /\ shut' = At("done")
    /\ failed' = [p \in Procs |-> IF p \in sweep /\ failed[p] # None
                                  THEN [failed[p] EXCEPT !.state = "terminal", !.timer = FALSE] ELSE failed[p]]
    /\ UNCHANGED <<life, world, pool, owned, change, sweep, closing, generation, booted, caller, faults>>

-----------------------------------------------------------------------------
Init ==
    /\ life = [p \in Procs |-> "none"]
    /\ runtime = CHOOSE r \in Runtimes : TRUE
    /\ policy = 0 /\ committed = 0
    /\ warming = None /\ entry = None /\ expiry = None /\ claiming = None /\ cleanup = None
    /\ generation = 0 /\ closing = FALSE
    /\ caller = [c \in Callers |-> [pc |-> "idle", proc |-> None]]
    /\ failed = [p \in Procs |-> None] /\ owned = {} /\ sweep = {}
    /\ change = At("idle") /\ shut = At("idle")
    /\ booted = FALSE /\ changes = 0 /\ faults = 0

\* What an agent, a user or an operator may or may not do.
Environment ==
    \/ Boot \/ Expires \/ DefinitionChanges \/ RouteChanges \/ PolicyInvalidated \/ Shutdown
    \/ WarmReady \/ WarmInvalidated \/ WarmFails
    \/ \E c \in Callers : Miss(c) \/ Discard(c) \/ Take(c) \/ Initialized(c) \/ InitializeFails(c)
    \/ \E p \in Procs : Exits(p)

\* What a timer bounds.
PoolWork == CleanupDestroys \/ CleanupFails \/ CleanupRetries
FailureWork(p) == FailureDestroyed(p) \/ FailureKept(p) \/ FailureRetried(p) \/ SweepRuns(p)
CallerWork(c) == Claimed(c) \/ ClaimFails(c) \/ Opened(c) \/ OpenFails(c)
ShutdownWork == BackedOff \/ SweepEnds

\* The continuations of what has settled run before the event loop turns to
\* anything else.
Continues == \/ WarmingEnds \/ ChangeGoesOn \/ ShutdownGoesOn
             \/ \E c \in Callers : FallsBack(c) \/ SpawnEnds(c)
Due == \/ WarmingSettled \/ Settled(change) \/ Settled(shut)
       \/ \E c \in Callers : Unclaimed(c) \/ Retained(c)

Next ==
    \/ Continues
    \/ ~Due /\ \/ Environment \/ PoolWork \/ ShutdownWork
               \/ \E p \in Procs : FailureWork(p)
               \/ \E c \in Callers : CallerWork(c)

Spec == Init /\ [][Next]_vars

\* initialize() of an agent has no timeout: no fairness ends a handshake.
Fairness ==
    /\ WF_vars(Continues) /\ WF_vars(~Due /\ PoolWork) /\ WF_vars(~Due /\ ShutdownWork)
    /\ \A p \in Procs : WF_vars(~Due /\ FailureWork(p))
    /\ \A c \in Callers : WF_vars(~Due /\ CallerWork(c))
FairSpec == Spec /\ Fairness

-----------------------------------------------------------------------------
(* Properties *)

TypeOK ==
    /\ life \in [Procs -> {"none", "alive", "gone"}]
    /\ runtime \in Runtimes \union {None} /\ policy \in Nat /\ committed \in Nat
    /\ warming \in Warmings \union {None} /\ entry \in Entries \union {None} /\ expiry \in Expiries \union {None}
    /\ claiming \in Procs \union {None} /\ cleanup \in Cleanups \union {None}
    /\ generation \in Nat /\ closing \in BOOLEAN /\ booted \in BOOLEAN
    /\ caller \in [Callers -> [pc : {"idle", "claiming", "unclaimed", "starting", "opening", "retained", "got", "failed"},
                               proc : Procs \union {None}]]
    /\ failed \in [Procs -> Failures \union {None}] /\ owned \subseteq Procs /\ Cardinality(owned) <= Capacity /\ sweep \subseteq Procs
    /\ change \in Waits /\ shut \in Waits
    /\ changes \in 0..MaxChanges /\ faults \in 0..MaxFaults

Holders(p) == {c \in Callers : caller[c].proc = p /\ caller[c].pc \in {"starting", "opening", "got"}}
\* Every process that lives has exactly one owner: a session, the prewarm, the
\* pool's slot, or the set of failed handshakes.  Whatever fails, none is lost,
\* and no process of a session is one that the pool may still destroy.
EveryProcessHasOneOwner ==
    \A p \in Alive :
       Cardinality(Holders(p))
       + (IF failed[p] # None THEN 1 ELSE 0)
       + (IF entry # None /\ entry.proc = p THEN 1 ELSE 0)
       + (IF warming # None /\ warming.proc = p /\ warming.stage = "starting" THEN 1 ELSE 0) = 1

\* At most one process is kept warm, and never a claimed one destroyed.
OneWarmProcess ==
    /\ warming # None /\ entry # None => warming.proc = entry.proc
    /\ cleanup # None => entry # None /\ entry.proc = cleanup.proc /\ claiming = None
    /\ claiming # None => entry # None /\ entry.proc = claiming

\* When a route change has returned, no process of an older policy is there to be
\* claimed, not even one whose prewarm was in flight.
ChangesReachThePool ==
    change.pc = "idle" /\ entry # None /\ cleanup = None => entry.policy >= committed

\* After the shutdown the slot is empty or reports the destroy that failed, no
\* timer is left, and no prewarm comes.
ShutdownIsFinal ==
    shut.pc = "done" =>
       /\ warming = None /\ claiming = None /\ expiry = None
       /\ entry # None => cleanup # None /\ (cleanup.state = "failed" => ~cleanup.timer)
       /\ \A p \in sweep : failed[p] # None => failed[p].state = "terminal" /\ ~failed[p].timer

\* A session never receives a warm process of another runtime than the agent has
\* at that moment, although it may have changed while the session was opened.
HandedOverCurrent ==
    [][\A c \in Callers : caller[c].pc = "claiming" /\ caller'[c].pc = "got"
          => entry.made = runtime /\ life[entry.proc] # "none"]_vars

OwnershipIsKept ==
    [](EveryProcessHasOneOwner /\ OneWarmProcess /\ ChangesReachThePool /\ ShutdownIsFinal) /\ HandedOverCurrent

\* The agent of a prewarm never answers its initialize().
Wedged == warming # None /\ warming.stage = "starting"
Settles ==
    /\ Wedged \/ (change.pc = "idle" /\ (closing => shut.pc = "done"))
    /\ \A c \in Callers : caller[c].pc \in {"idle", "starting", "got", "failed"}
    /\ \/ cleanup = None \/ closing
       \/ cleanup.state = "failed" /\ cleanup.attempts >= MaxAttempts
    /\ \A p \in Procs : failed[p] = None \/ failed[p].state = "terminal"

\* When no more is asked of the pool, and unless an agent leaves its handshake
\* unanswered for ever, the route change has returned and the shutdown has
\* ended; every creation has ended or waits for a handshake; and a destroy that
\* failed has been tried until it succeeded, the attempts were used up, or the
\* daemon stopped.
PoolSettles == <>[]Settles
=============================================================================
