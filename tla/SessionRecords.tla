---------------------------- MODULE SessionRecords ----------------------------
(***************************************************************************)
(* The durable record of one session and the processes that come and go    *)
(* behind it: the session is created, completes, is resumed by a message   *)
(* (session-factory.ts, core.ts), cancelled, deleted and carried through a *)
(* shutdown or a crash (session-manager.ts).  Whoever changes the record   *)
(* queues a mutation, and each mutation looks again at what is live when   *)
(* it runs.  The store is reduced to what RecordStore promises of it.      *)
(*                                                                         *)
(* An attempt is one run of createSession() for the session's id: it       *)
(* spawns an agent, registers a Session object, restores its controls,     *)
(* persists the record and publishes the session.  TerminalDelivery says   *)
(* how a completion is delivered; here it is one step.                     *)
(***************************************************************************)
EXTENDS Naturals, Sequences, FiniteSets

CONSTANTS
  Attempts,   \* createSession() calls for this session, in the order they begin
  NoOne,      \* no attempt
  MaxQueue    \* bound: no outside event is handled while that many mutations wait

ASSUME AttemptsAssumption ==
  /\ Attempts \subseteq Nat /\ IsFiniteSet(Attempts) /\ NoOne \notin Attempts
  /\ MaxQueue \in Nat \ {0}

VARIABLES
  rec, disk,             \* the record in the working view, and on disk
  queue,                 \* recordMutationTails: the mutations still to run
  pc,                    \* what an attempt awaits
  lease,                 \* its SessionRegistrationLease
  live,                  \* SessionManager.sessions: the attempt whose Session is registered
  status, term,          \* Session._status, Session.isTerminating
  published,             \* attempts whose Session has its bridge connected
  agent,                 \* the agent process of an attempt
  delivery,              \* Session._terminalDelivery
  teardown,              \* SessionManager.sessionTeardownOps
  cancel,                \* performCancelSession()
  removal,               \* TopicManager.deleteTopic()
  closing,               \* SessionManager._closing, shutdownAll(), _shutdownComplete
  created,               \* history: the session's id has been given to a session
  acked                  \* history: a cancellation that found the record was acknowledged

storeVars   == <<rec, disk, queue>>
attemptVars == <<pc, lease>>
sessionVars == <<live, status, term, published, agent, delivery, teardown>>
ownerVars   == <<cancel, removal, closing, created, acked>>
vars == <<storeVars, attemptVars, sessionVars, ownerVars>>

NoRecord == "none"
Statuses == {"initializing", "active", "error", "finished", "cancelled"}
Terminal(s)  == s \in {"finished", "cancelled"}
Running(s)   == s \in {"initializing", "active"}
Over         == {"done", "failed"}
NoCancel     == [stage |-> "idle", of |-> NoOne, joins |-> FALSE,
                 already |-> FALSE, final |-> "cancelled", found |-> FALSE]
NoTeardown   == [of |-> NoOne, failed |-> FALSE]
Mutation(kind, a, s) == [kind |-> kind, by |-> a, to |-> s]

\* A daemon that starts with an empty store, or with the record of a session that
\* finished.
Init ==
  /\ rec \in {NoRecord, "finished"} /\ disk = rec /\ queue = <<>>
  /\ pc = [a \in Attempts |-> "idle"] /\ lease = [a \in Attempts |-> "none"]
  /\ live = NoOne /\ status = [a \in Attempts |-> "initializing"]
  /\ term = {} /\ published = {}
  /\ agent = [a \in Attempts |-> "none"] /\ delivery = [a \in Attempts |-> "none"]
  /\ teardown = NoTeardown /\ cancel = NoCancel /\ removal = "idle"
  /\ closing = "no" /\ created = (rec # NoRecord) /\ acked = FALSE

\* isCurrentLiveSession().
CurrentLive(a) == live = a /\ a \notin term

\* Outside events are handled while the queue has room for what they patch.
HasRoom == Len(queue) < MaxQueue

(***************************************************************************)
(* Registration leases and the end of an agent process.                    *)
(***************************************************************************)
\* Invalidated leases of the attempts in flight: a cancellation or a shutdown.
Invalidated == [a \in Attempts |-> IF lease[a] = "current" THEN "void" ELSE lease[a]]

\* No finally block releases the lease.
MutantKeepsLease(a, result) == pc' = [pc EXCEPT ![a] = result] /\ UNCHANGED lease

\* An attempt is over and its lease released.
EndAttempt(a, result) ==
  /\ pc' = [pc EXCEPT ![a] = result]
  /\ lease' = [lease EXCEPT ![a] = "none"]

\* Session.destroy() was called and has not settled.
Destroying(a) == [agent EXCEPT ![a] = IF @ = "dead" THEN "dead" ELSE "dying"]

\* startSessionTeardown(): joins a pending teardown, starts or retries otherwise.
StartTeardown(a, removeLiveIdentity) ==
  IF teardown.of # NoOne /\ ~(teardown.of = a /\ teardown.failed)
  THEN /\ live' = IF removeLiveIdentity /\ teardown.of = a /\ live = a THEN NoOne ELSE live
       /\ UNCHANGED <<term, agent, teardown>>
  ELSE /\ term' = term \cup {a} /\ agent' = Destroying(a)
       /\ live' = IF live = a /\ (removeLiveIdentity \/ agent[a] = "dead") THEN NoOne ELSE live
       /\ teardown' = IF agent[a] = "dead" THEN NoTeardown ELSE [of |-> a, failed |-> FALSE]

\* Session.destroy() settles: a teardown that failed stays owned for a retry.
DestroySettles(a, ok) ==
  /\ agent[a] = "dying"
  /\ agent' = [agent EXCEPT ![a] = IF ok THEN "dead" ELSE "stuck"]
  /\ IF teardown.of # a THEN UNCHANGED <<teardown, live>>
     ELSE /\ teardown' = IF ok THEN NoTeardown ELSE [of |-> a, failed |-> TRUE]
          /\ live' = IF ok /\ live = a THEN NoOne ELSE live
  /\ UNCHANGED <<storeVars, attemptVars, status, term, published, delivery, ownerVars>>

(***************************************************************************)
(* createSession(), await by await.                                        *)
(***************************************************************************)
Begin(a, l) ==
  /\ pc[a] = "idle" /\ \A b \in Attempts : b < a => pc[b] # "idle"
  /\ pc' = [pc EXCEPT ![a] = "spawning"] /\ lease' = [lease EXCEPT ![a] = l]
  /\ agent' = [agent EXCEPT ![a] = "starting"]
  /\ created' = TRUE
  /\ UNCHANGED <<storeVars, live, status, term, published, delivery, teardown, cancel,
                 removal, closing, acked>>

\* A new session: its id is not known to anybody, so it needs no lease.
BeginFresh(a) == ~created /\ closing = "no" /\ Begin(a, "none")

\* A record that ended in an error or was cancelled is not resumed.
Resumable == rec \in {"initializing", "active", "finished"}

\* lazyResume() or getOrResumeById() up to beginSessionRegistration(), in one turn.
BeginResume(a) ==
  /\ Resumable /\ closing = "no" /\ cancel.stage = "idle"
  /\ teardown.of = NoOne /\ live = NoOne
  /\ \A b \in Attempts : lease[b] # "current"
  /\ Begin(a, "current")

\* The attempt waits for its agent before it looks at its lease.
MutantWaitsForAgent(a) == FALSE

\* awaitRegistrationBoundary() and createAgentUnderLease(): the attempt ends as
\* soon as its lease is invalidated; an agent that arrives later is destroyed. The
\* awaits before the spawn, of the admission (SessionAdmission) and of the thread,
\* are not raced, but settle and then meet the lease.
\* Nobody waits for its end, nor for that of any other agent outside
\* startSessionTeardown(): it counts as dead.
Superseded(a) ==
  /\ pc[a] = "spawning" /\ lease[a] = "void" /\ EndAttempt(a, "failed")
  /\ agent' = [agent EXCEPT ![a] = "dead"]
  /\ UNCHANGED <<storeVars, live, status, term, published, delivery, teardown, ownerVars>>

SpawnFails(a) ==
  /\ pc[a] = "spawning" /\ EndAttempt(a, "failed")
  /\ agent' = [agent EXCEPT ![a] = "dead"]
  /\ UNCHANGED <<storeVars, live, status, term, published, delivery, teardown, ownerVars>>

\* Any lease opens the door, also one that a cancellation invalidated.
MutantAdmitsVoidLease(a) == closing = "no" /\ live = NoOne

\* The guards of registerSession(); a new session has no lease to check.
MayRegister(a) == closing = "no" /\ live = NoOne /\ lease[a] # "void" /\ cancel.stage = "idle"

\* registerSession() of the spawned session, or its immediate destruction.
Register(a) ==
  /\ pc[a] = "spawning"
  /\ IF MayRegister(a)
     THEN /\ live' = a /\ pc' = [pc EXCEPT ![a] = "restoring"]
          /\ agent' = [agent EXCEPT ![a] = "live"] /\ UNCHANGED <<lease, term>>
     ELSE /\ EndAttempt(a, "failed") /\ agent' = [agent EXCEPT ![a] = "dead"]
          /\ term' = term \cup {a} /\ UNCHANGED live
  /\ UNCHANGED <<storeVars, status, published, delivery, teardown, ownerVars>>

\* Only the identity is removed.
MutantDiscard(a) ==
  live' = (IF live = a THEN NoOne ELSE live) /\ UNCHANGED <<term, agent>>

\* discardSession(): only the registered identity is removed and destroyed.
Discard(a) ==
  IF live # a THEN UNCHANGED <<live, term, agent>>
  ELSE /\ live' = NoOne /\ term' = term \cup {a}
       /\ agent' = IF teardown.of = a THEN Destroying(a) ELSE [agent EXCEPT ![a] = "dead"]

\* restorePersistedConfig() is over: the initial patch captures the status.
Restored(a) ==
  /\ pc[a] = "restoring" /\ CurrentLive(a)
  /\ pc' = [pc EXCEPT ![a] = "recording"]
  /\ queue' = Append(queue, Mutation("init", a, status[a]))
  /\ UNCHANGED <<rec, disk, lease, sessionVars, ownerVars>>

\* The session was ended meanwhile: a restored option or the assertion behind
\* it notices; only the former discards what is still registered.
RestoreSuperseded(a) ==
  /\ pc[a] = "restoring" /\ ~CurrentLive(a)
  /\ \/ Discard(a) /\ pc' = [pc EXCEPT ![a] = "discarding"] /\ UNCHANGED lease
     \/ EndAttempt(a, "failed") /\ UNCHANGED <<live, term, agent>>
  /\ UNCHANGED <<storeVars, status, published, delivery, teardown, ownerVars>>

\* The bounded wait of discardSession() is over, then the lease is released.
Discarded(a) ==
  /\ pc[a] = "discarding" /\ EndAttempt(a, "failed")
  /\ UNCHANGED <<storeVars, sessionVars, ownerVars>>

\* The record is durable: bridge.connect() and, for a resumed session, activate().
\* A session that a message activated meanwhile refuses the transition: the
\* attempt fails, the session stays.
Publish(a) ==
  /\ pc[a] = "recorded"
  /\ IF ~CurrentLive(a)
     THEN EndAttempt(a, "failed") /\ UNCHANGED <<published, status, queue>>
     ELSE /\ published' = published \cup {a}
          /\ IF lease[a] = "none" \/ status[a] = "cancelled"
             THEN EndAttempt(a, "done") /\ UNCHANGED <<status, queue>>
             ELSE IF status[a] = "active"
                  THEN EndAttempt(a, "failed") /\ UNCHANGED <<status, queue>>
                  ELSE /\ EndAttempt(a, "done")
                       /\ status' = [status EXCEPT ![a] = "active"]
                       /\ queue' = Append(queue, Mutation("status", a, "active"))
  /\ UNCHANGED <<rec, disk, live, term, agent, delivery, teardown, ownerVars>>

(***************************************************************************)
(* What happens to a registered session.                                   *)
(***************************************************************************)
\* transition(): the bridge's listener, once there is one, queues a patch.
Transition(a, s) ==
  /\ status' = [status EXCEPT ![a] = s]
  /\ queue' = IF a \in published THEN Append(queue, Mutation("status", a, s)) ELSE queue

\* A message reaches the session, which may not even be published yet, and its
\* turn starts; or the turn fails.
MessageActivates(a) ==
  /\ HasRoom /\ CurrentLive(a) /\ status[a] \in {"initializing", "error"}
  /\ Transition(a, "active")
  /\ UNCHANGED <<rec, disk, attemptVars, live, term, published, agent, delivery,
                 teardown, ownerVars>>

TurnFails(a) ==
  /\ HasRoom /\ CurrentLive(a) /\ Running(status[a])
  /\ Transition(a, "error")
  /\ UNCHANGED <<rec, disk, attemptVars, live, term, published, agent, delivery,
                 teardown, ownerVars>>

\* The /cancel command ends the session behind the manager's back.
CommandCancels(a) ==
  /\ HasRoom /\ live = a /\ ~Terminal(status[a])
  /\ Transition(a, "cancelled")
  /\ UNCHANGED <<rec, disk, attemptVars, live, term, published, agent, delivery,
                 teardown, ownerVars>>

\* The agent completes: the status patch and the immediate patch of the delivery.
Finish(a) ==
  /\ HasRoom /\ CurrentLive(a) /\ a \in published /\ status[a] = "active"
  /\ status' = [status EXCEPT ![a] = "finished"]
  /\ delivery' = [delivery EXCEPT ![a] = "persisting"]
  /\ queue' = queue \o <<Mutation("status", a, "finished"), Mutation("finish", a, "finished")>>
  /\ UNCHANGED <<rec, disk, attemptVars, live, term, published, agent, teardown, ownerVars>>

\* Every recipient has completed: finalizeFinishedSession().
Delivered(a) ==
  /\ delivery[a] = "delivering" /\ delivery' = [delivery EXCEPT ![a] = "done"]
  /\ IF live = a \/ teardown.of = a THEN StartTeardown(a, TRUE)
     ELSE UNCHANGED <<live, term, agent, teardown>>
  /\ UNCHANGED <<storeVars, attemptVars, status, published, ownerVars>>

(***************************************************************************)
(* The serialized mutations of the record.                                 *)
(***************************************************************************)
\* An immediate save is debounced like any other.
MutantDebounces(s, ok) == rec' = s /\ UNCHANGED disk

\* An immediate save or a flush: the working view reaches the disk, or the
\* write fails and this mutation leaves no trace.
SaveNow(s, ok) == IF ok THEN rec' = s /\ disk' = s ELSE UNCHANGED <<rec, disk>>

\* The last writer wins.
MutantMerge(s) == s

\* mergeRecordMonotonic(): a terminal status is never replaced.
Merge(s) == IF Terminal(rec) THEN rec ELSE s

Dequeue(kind) == queue # <<>> /\ Head(queue).kind = kind /\ queue' = Tail(queue)
Actor == Head(queue).by

\* A patch on behalf of a session is skipped when that session is not the live one.
Skipped == closing = "complete" \/ ~CurrentLive(Actor)

MutateStatus ==
  /\ Dequeue("status")
  /\ rec' = IF Skipped \/ rec = NoRecord THEN rec ELSE Merge(Head(queue).to)
  /\ UNCHANGED <<disk, attemptVars, sessionVars, ownerVars>>

\* A skipped patch of a completion counts as durable; one that cannot be saved
\* aborts the delivery, and the session stays registered.
MutateFinish(ok) ==
  /\ Dequeue("finish")
  /\ LET a == Actor IN
       IF Skipped
       THEN /\ delivery' = [delivery EXCEPT ![a] = IF @ = "persisting" THEN "delivering" ELSE @]
            /\ UNCHANGED <<rec, disk>>
       ELSE /\ SaveNow(IF rec = NoRecord THEN rec ELSE Merge("finished"), ok)
            /\ delivery' = [delivery EXCEPT ![a] =
                 IF @ # "persisting" THEN @ ELSE IF ok THEN "delivering" ELSE "aborted"]
  /\ UNCHANGED <<attemptVars, live, status, term, published, agent, teardown, ownerVars>>

\* A finished record is reopened once, by the live session whose lease is still
\* current and that nobody has activated.
MayReopen(a) == lease[a] = "current" /\ cancel.stage = "idle" /\ status[a] = "initializing"

\* Only a reopening is checked; any other initial patch is merged.
MutantSuperseding(a, s) ==
  \/ ~CurrentLive(a)
  \/ rec = "finished" /\ s = "initializing" /\ ~MayReopen(a)

\* The initial patch of attempt a, or the error that discards its session.
Superseding(a, s) ==
  \/ ~CurrentLive(a)
  \/ rec = "finished" /\ s = "initializing" /\ ~MayReopen(a)
  \/ Terminal(rec) /\ s # rec /\ ~(rec = "finished" /\ s = "initializing")

MutateInit(ok) ==
  /\ Dequeue("init")
  /\ LET a == Actor
         s == Head(queue).to
         leased == lease[a] # "none"
         proceeds == pc' = [pc EXCEPT ![a] = "recorded"] /\ UNCHANGED <<live, term, agent>>
         throws == pc' = [pc EXCEPT ![a] = "discarding"] /\ Discard(a)
     IN IF closing = "complete" \/ (~leased /\ ~CurrentLive(a))
        THEN proceeds /\ UNCHANGED <<rec, disk>>
        ELSE IF leased /\ Superseding(a, s)
        THEN throws /\ UNCHANGED <<rec, disk>>
        ELSE /\ SaveNow(IF leased /\ rec = "finished" /\ s = "initializing" THEN s ELSE Merge(s), ok)
             /\ IF ok THEN proceeds ELSE throws
  /\ UNCHANGED <<lease, status, published, delivery, teardown, ownerVars>>

\* removeRecord(): debounced like any other mutation.
MutateRemove ==
  /\ Dequeue("remove") /\ rec' = NoRecord /\ removal' = "idle"
  /\ UNCHANGED <<disk, attemptVars, sessionVars, cancel, closing, created, acked>>

MutateShutdown ==
  /\ Dequeue("shutdown")
  /\ rec' = IF closing = "complete" \/ rec = NoRecord THEN rec ELSE Merge("finished")
  /\ UNCHANGED <<disk, attemptVars, sessionVars, ownerVars>>

\* The debounce timer, and every retry of a failed flush.
FlushTimer ==
  /\ rec # disk /\ disk' = rec
  /\ UNCHANGED <<rec, queue, attemptVars, sessionVars, ownerVars>>

(***************************************************************************)
(* cancelSession().                                                        *)
(***************************************************************************)
\* The operation settles; deleteTopic() may have been waiting for it.
EndCancel(ok) ==
  /\ cancel' = NoCancel
  /\ acked' = (acked \/ (ok /\ cancel.found /\ cancel.final = "cancelled"))
  /\ removal' = IF removal # "cancelling" THEN removal ELSE IF ok THEN "thread" ELSE "idle"
  /\ UNCHANGED <<closing, created>>

\* The synchronous boundary: no lease is current and the session is terminating.
CancelBoundary(session) ==
  lease' = Invalidated /\ term' = term \cup ({session} \ {NoOne})

\* performCancelSession() up to its first await.
BeginCancel ==
  LET session  == IF live # NoOne THEN live ELSE teardown.of
      previous == IF Terminal(rec) \/ session = NoOne THEN rec ELSE status[session]
  IN /\ session # NoOne \/ rec # NoRecord
     /\ cancel' = [stage |-> "queued", of |-> session, found |-> FALSE,
                   joins |-> session # NoOne /\ status[session] = "finished"
                             /\ delivery[session] # "none",
                   already |-> Terminal(previous),
                   final |-> IF previous = "finished" THEN "finished" ELSE "cancelled"]
     /\ CancelBoundary(session)
     /\ queue' = Append(queue, Mutation("cancel", NoOne, "cancelled"))

CancelStart ==
  /\ cancel.stage = "idle" /\ HasRoom /\ BeginCancel
  /\ UNCHANGED <<rec, disk, pc, live, status, published, agent, delivery, teardown,
                 removal, closing, created, acked>>

\* The terminal record is durable before an agent is touched; the one that was
\* there first wins. A failed write rejects the operation.
CancelMutation(ok) ==
  /\ Dequeue("cancel")
  /\ IF rec = NoRecord
     THEN /\ cancel' = [cancel EXCEPT !.stage = "durable"]
          /\ UNCHANGED <<rec, disk, removal, acked, closing, created>>
     ELSE /\ SaveNow(IF Terminal(rec) THEN rec ELSE cancel.final, ok)
          /\ IF ~ok THEN EndCancel(FALSE)
             ELSE /\ cancel' = [cancel EXCEPT !.stage = "durable", !.found = TRUE,
                                  !.already = @ \/ Terminal(rec),
                                  !.final = IF Terminal(rec) THEN rec ELSE @]
                  /\ UNCHANGED <<removal, acked, closing, created>>
  /\ UNCHANGED <<attemptVars, sessionVars>>

\* Behind the delivery a completion may have won: markCancelled() and the
\* teardown. A session that /cancel ended meanwhile refuses the transition.
CancelProceeds ==
  /\ cancel.stage = "durable"
  /\ cancel.joins => delivery[cancel.of] \in {"done", "aborted"}
  /\ LET marks == ~cancel.already /\ cancel.final = "cancelled" IN
       IF cancel.of = NoOne
       THEN EndCancel(TRUE) /\ UNCHANGED <<live, status, term, agent, teardown>>
       ELSE IF marks /\ Terminal(status[cancel.of])
       THEN EndCancel(FALSE) /\ UNCHANGED <<live, status, term, agent, teardown>>
       ELSE /\ status' = IF marks THEN [status EXCEPT ![cancel.of] = "cancelled"] ELSE status
            /\ StartTeardown(cancel.of, FALSE)
            /\ cancel' = [cancel EXCEPT !.stage = "cleanup"]
            /\ UNCHANGED <<removal, acked, closing, created>>
  /\ UNCHANGED <<storeVars, attemptVars, published, delivery>>

\* The teardown settled, or the deadline of waitForSessionCleanup() passed.
CancelReturns ==
  /\ cancel.stage = "cleanup" /\ EndCancel(TRUE)
  /\ UNCHANGED <<storeVars, attemptVars, sessionVars>>

(***************************************************************************)
(* deleteTopic(), shutdownAll() and the end of the process.                *)
(***************************************************************************)
\* A record that runs is cancelled first; the operation may be under way already.
DeleteStart ==
  /\ removal = "idle" /\ rec # NoRecord /\ HasRoom
  /\ IF ~Running(rec)
     THEN removal' = "thread" /\ UNCHANGED <<cancel, lease, term, queue>>
     ELSE /\ removal' = "cancelling"
          /\ IF cancel.stage # "idle" THEN UNCHANGED <<cancel, lease, term, queue>>
             ELSE BeginCancel
  /\ UNCHANGED <<rec, disk, pc, live, status, published, agent, delivery, teardown,
                 closing, created, acked>>

\* The platform's thread is gone, or could not be deleted: removeRecord().
ThreadDeleted ==
  /\ removal = "thread" /\ removal' = "queued"
  /\ queue' = Append(queue, Mutation("remove", NoOne, NoRecord))
  /\ UNCHANGED <<rec, disk, attemptVars, sessionVars, cancel, closing, created, acked>>

\* The patches of performShutdownAll() have run: its flush is next.
AtFlush == closing = "closing" /\ \A i \in 1 .. Len(queue) : queue[i].kind # "shutdown"

\* beginClosing() and the snapshot of the sessions to patch. Disconnecting the
\* bridges completes a delivery.
ShutdownStart ==
  /\ closing = "no" /\ HasRoom
  /\ closing' = "closing" /\ lease' = Invalidated
  /\ term' = term \cup ({live} \ {NoOne})
  /\ delivery' = [a \in Attempts |->
       IF a = live /\ delivery[a] \in {"persisting", "delivering"} THEN "done" ELSE delivery[a]]
  /\ queue' = IF live # NoOne /\ rec # NoRecord
              THEN Append(queue, Mutation("shutdown", NoOne, "finished")) ELSE queue
  /\ UNCHANGED <<rec, disk, pc, live, status, published, agent, teardown, cancel,
                 removal, created, acked>>

\* A flush that fails changes nothing: shutdownAll() may be called again, and what
\* it patches is "finished" already.
ShutdownFlush ==
  /\ AtFlush /\ closing' = "complete" /\ disk' = rec /\ live' = NoOne
  /\ UNCHANGED <<rec, queue, attemptVars, status, term, published, agent, delivery,
                 teardown, cancel, removal, created, acked>>

\* The process exits or crashes, its agents with it, and is started again.
Restart ==
  /\ rec' = disk /\ queue' = <<>>
  /\ pc' = [a \in Attempts |-> IF pc[a] = "idle" THEN "idle" ELSE "failed"]
  /\ lease' = [a \in Attempts |-> "none"]
  /\ live' = NoOne /\ status' = [a \in Attempts |-> "initializing"]
  /\ term' = {} /\ published' = {}
  /\ agent' = [a \in Attempts |-> IF pc[a] = "idle" THEN "none" ELSE "dead"]
  /\ delivery' = [a \in Attempts |-> "none"]
  /\ teardown' = NoTeardown /\ cancel' = NoCancel /\ removal' = "idle"
  /\ closing' = "no" /\ UNCHANGED <<disk, created, acked>>

(***************************************************************************)
(* The specification.                                                      *)
(***************************************************************************)
Mutate ==
  \/ MutateStatus \/ MutateRemove \/ MutateShutdown
  \/ \E ok \in BOOLEAN : MutateFinish(ok) \/ MutateInit(ok) \/ CancelMutation(ok)

SpawnSettles(a) == Register(a) \/ SpawnFails(a)
Proceeds(a) == Superseded(a) \/ Restored(a) \/ RestoreSuperseded(a) \/ Discarded(a) \/ Publish(a)

Next ==
  \/ \E a \in Attempts :
       \/ BeginFresh(a) \/ BeginResume(a) \/ SpawnSettles(a) \/ Proceeds(a)
       \/ MessageActivates(a) \/ TurnFails(a) \/ CommandCancels(a) \/ Finish(a) \/ Delivered(a)
       \/ \E ok \in BOOLEAN : DestroySettles(a, ok)
  \/ Mutate \/ FlushTimer
  \/ CancelStart \/ CancelProceeds \/ CancelReturns
  \/ DeleteStart \/ ThreadDeleted \/ ShutdownStart \/ ShutdownFlush \/ Restart

Spec == Init /\ [][Next]_vars

\* Mutations run, timers fire, and a claimed delivery completes; neither a
\* spawn nor the end of an agent process is taken for granted.
Fairness ==
  /\ WF_vars(Mutate) /\ WF_vars(CancelProceeds \/ CancelReturns)
  /\ WF_vars(\E a \in Attempts : Proceeds(a)) /\ WF_vars(\E a \in Attempts : Delivered(a))

FairSpec == Spec /\ Fairness

(***************************************************************************)
(* Properties.                                                             *)
(***************************************************************************)
\* Every variable keeps its type, and an attempt that is over holds no lease.
TypeOK ==
  /\ rec \in Statuses \cup {NoRecord} /\ disk \in Statuses \cup {NoRecord}
  /\ queue \in Seq([kind : {"init", "status", "finish", "cancel", "remove", "shutdown"},
                    by : Attempts \cup {NoOne}, to : Statuses \cup {NoRecord}])
  /\ pc \in [Attempts -> {"idle", "spawning", "restoring", "recording", "recorded",
                          "discarding"} \cup Over]
  /\ lease \in [Attempts -> {"none", "current", "void"}]
  /\ live \in Attempts \cup {NoOne} /\ status \in [Attempts -> Statuses]
  /\ term \subseteq Attempts /\ published \subseteq Attempts
  /\ agent \in [Attempts -> {"none", "starting", "live", "dying", "stuck", "dead"}]
  /\ delivery \in [Attempts -> {"none", "persisting", "delivering", "aborted", "done"}]
  /\ teardown \in [of : Attempts \cup {NoOne}, failed : BOOLEAN]
  /\ cancel \in [stage : {"idle", "queued", "durable", "cleanup"},
                 of : Attempts \cup {NoOne}, joins : BOOLEAN, already : BOOLEAN,
                 final : {"finished", "cancelled"}, found : BOOLEAN]
  /\ removal \in {"idle", "cancelling", "thread", "queued"}
  /\ closing \in {"no", "closing", "complete"}
  /\ created \in BOOLEAN /\ acked \in BOOLEAN
  /\ \A a \in Attempts : pc[a] \in Over => lease[a] = "none"

\* A cancellation that was acknowledged for a record is never undone: not by an
\* attempt it overtook, not by a patch that was queued, not by a shutdown and
\* not by a crash. The record stays cancelled or is deleted, and a session that is
\* registered behind it is on its way out.
AcknowledgedCancelSticks ==
  acked => /\ rec \in {"cancelled", NoRecord} /\ disk \in {"cancelled", NoRecord}
           /\ live # NoOne => live \in term

\* An agent process that nobody is destroying belongs to the registered session,
\* so a session never has two of them.
AgentsAreRegistered ==
  closing # "complete" => \A a \in Attempts : agent[a] = "live" => live = a

\* When no mutation is pending, the record of a published session has not ended
\* while the session runs, nor the other way round.
RecordFollowsSession ==
  \A a \in published :
    CurrentLive(a) /\ queue = <<>> /\ delivery[a] # "aborted" =>
      \/ rec = NoRecord \/ status[a] = "cancelled"
      \/ Terminal(rec) <=> Terminal(status[a])

\* "Success becomes externally observable only after the initial record is
\* durable": the record of a published session that runs is not the one that an
\* earlier generation finished.
PublishedIsDurable ==
  \A a \in published :
    CurrentLive(a) /\ Running(status[a]) => ~Terminal(disk) /\ (disk = NoRecord => rec = NoRecord)

\* The record on disk, once ended, is left alone or removed; a finished one may be
\* replaced by what the live session of an attempt writes first.
EndedStays ==
  Terminal(disk) /\ disk' \notin {disk, NoRecord} =>
    /\ disk = "finished"
    /\ \E a \in Attempts : CurrentLive(a) /\ pc[a] = "recording" /\ pc'[a] = "recorded"

\* Agent, session, working record and disk tell the same story of a session,
\* whichever attempt of it created, resumed, ended or crashed, and a story that
\* has ended is not told again, but where a finished session is resumed.
GenerationsAgree ==
  /\ [](AcknowledgedCancelSticks /\ AgentsAreRegistered /\ RecordFollowsSession /\ PublishedIsDurable)
  /\ [][EndedStays]_vars

\* A cancellation settles although the agent never ends, and an attempt to
\* resume the session settles although the agent never starts, once a
\* cancellation or a shutdown has invalidated its lease.
LifecyclesSettle ==
  /\ cancel.stage = "queued" ~> cancel.stage = "idle"
  /\ (\E a \in Attempts : lease[a] = "void") ~> (\A a \in Attempts : lease[a] # "void")
=============================================================================
