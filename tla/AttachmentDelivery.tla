-------------------------- MODULE AttachmentDelivery --------------------------
(***************************************************************************)
(* Acknowledged attachment delivery: AttachmentDeliveryService.deliver()   *)
(* with its journal, the Telegram adapter's deliverAttachment() behind the *)
(* rate-limited SendQueue, and the provider. A caller resolves a target,   *)
(* an unforgeable record of one runtime situation, and delivers to it      *)
(* later, perhaps again after an error or in the next process. While a     *)
(* file is staged or queued the session is archived or resumed as another  *)
(* object, its agent replaced, the adapter stopped or the service closed;  *)
(* a write of the journal fails, and the process dies. One session and its *)
(* primary adapter, whose attachment lease nothing in the program changes  *)
(* (attachAdapter() returns early for it, detachAdapter() refuses); a      *)
(* deliver() runs between two awaits without interruption.                 *)
(***************************************************************************)
EXTENDS Naturals, Sequences, FiniteSets

CONSTANTS
  Calls,        \* the calls of deliver()
  Ids,          \* delivery ids
  Files,        \* contents, told apart by sha256
  None,         \* no delivery id, file or target
  MaxTargets,   \* bound: resolved targets
  MaxChanges,   \* bound: changes of the session, its agent or the adapter
  MaxRetries,   \* bound: sendDocument calls repeated after a 429
  MaxProcesses  \* bound: processes, one after another

ASSUME DeliveryAssumption ==
  /\ IsFiniteSet(Calls) /\ Ids # {} /\ Files # {}
  /\ {MaxTargets, MaxChanges, MaxRetries} \subseteq Nat /\ MaxProcesses \in Nat \ {0}

VARIABLES
  process,    \* which process runs; its targetSecret signs what it resolves
  service,    \* "open", "closing", "closed"
  world,      \* the runtime situation a target is bound to
  targets,    \* every target handed out
  outdated,   \* history: targets whose situation was replaced since
  call,       \* the calls of deliver()
  lock,       \* per delivery id, the calls in its deliveryTails, holder first
  staged,     \* calls whose file is in the staging directory
  gone,       \* calls whose own AbortSignal fired
  aborted,    \* calls whose provider AbortController fired
  op,         \* the adapter's operation of a call
  sendQueue,  \* operations waiting in the SendQueue
  retries,    \* 429 answers to the operation of a call
  journal,    \* AttachmentDeliveryJournal.entries
  disk,       \* the journal file
  sends,      \* history: calls of sendDocument per delivery id, repetitions not counted
  answered,   \* history: the message in a receipt deliver() returned
  changes     \* bound counter

caller   == <<call, lock, staged, gone, aborted>>
provider == <<op, sendQueue, retries, sends>>
store    == <<journal, disk, answered>>
setting  == <<process, service, world, targets, outdated, changes>>
vars     == <<setting, caller, provider, store>>

Phases     == {"idle", "queued", "staging", "sending", "accepted", "cleanup", "done"}
Operations == {"none", "queued", "calling", "backoff", "settled"}

World  == [agent : Nat, objects : Nat, assistant : BOOLEAN, live : BOOLEAN, up : BOOLEAN]
Target == [process : Nat, agent : Nat, objects : Nat, forAssistant : BOOLEAN]

NoEntry == [file |-> None, target |-> None, message |-> 0]
NoCall  == [phase |-> "idle", id |-> None, file |-> None, target |-> None,
            message |-> 0, ok |-> FALSE]

\* Settled, or lost with its process; its variables are gone.
Over == [NoCall EXCEPT !.phase = "done"]

Start == [agent |-> 1, objects |-> 1, assistant |-> TRUE, live |-> TRUE, up |-> TRUE]

Init ==
  /\ process = 1 /\ service = "open" /\ world = Start
  /\ targets = {} /\ outdated = {} /\ changes = 0
  /\ call = [c \in Calls |-> NoCall] /\ lock = [i \in Ids |-> <<>>]
  /\ staged = {} /\ gone = {} /\ aborted = {}
  /\ op = [c \in Calls |-> "none"] /\ sendQueue = <<>> /\ retries = [c \in Calls |-> 0]
  /\ journal = [i \in Ids |-> NoEntry] /\ disk = journal
  /\ sends = [i \in Ids |-> 0] /\ answered = [i \in Ids |-> 0]

Settled(c) == call[c].phase \in {"idle", "done"}

(***************************************************************************)
(* Targets. signBinding() covers the process secret, the agent generation  *)
(* and the identity of the Session and the adapter object (objects counts  *)
(* replacements of either).                                                *)
(***************************************************************************)
\* captureCurrentTarget() and signBinding()
Signed(w, forAssistant) ==
  [process |-> process, agent |-> w.agent, objects |-> w.objects, forAssistant |-> forAssistant]

\* isDeliverableSession() and isAdapterOperational()
Usable == world.live /\ world.up

\* resolveTarget(); a caller may be routed here as the default assistant.
Resolve(forAssistant) ==
  /\ service = "open" /\ Usable /\ (forAssistant => world.assistant)
  /\ Cardinality(targets) < MaxTargets
  /\ targets' = targets \cup {Signed(world, forAssistant)}
  /\ UNCHANGED <<process, service, world, outdated, changes, caller, provider, store>>

\* captureAndVerifyTarget(), for a target that has not expired
Verified(t) == Usable /\ t = Signed(world, t.forAssistant) /\ (t.forAssistant => world.assistant)

\* isCapturedTargetCurrent()
Current(t) == service = "open" /\ Verified(t)

(***************************************************************************)
(* What happens to the session, its agent and the adapter meanwhile.       *)
(***************************************************************************)
Change(w, replaced) ==
  /\ changes < MaxChanges /\ changes' = changes + 1
  /\ world' = w /\ outdated' = (IF replaced THEN targets ELSE outdated)
  /\ UNCHANGED <<process, service, targets, caller, store>>

ReplaceAgent == Change([world EXCEPT !.agent = @ + 1], TRUE) /\ UNCHANGED provider

\* An evicted session is resumed as a new object, an adapter is set up again.
ReplaceObject ==
  Change([world EXCEPT !.objects = @ + 1, !.live = TRUE, !.up = TRUE], TRUE)
  /\ UNCHANGED provider

\* An archive that fails, a failed poll, another canonical assistant, and back.
Toggle(f) == Change([world EXCEPT ![f] = ~@], FALSE) /\ UNCHANGED provider

\* Queued operations of a stopped adapter resolve without a message.
AdapterStops ==
  /\ world.up
  /\ changes < MaxChanges /\ changes' = changes + 1
  /\ world' = [world EXCEPT !.up = FALSE]
  /\ sendQueue' = <<>>
  /\ op' = [c \in Calls |-> IF op[c] = "queued" THEN "settled" ELSE op[c]]
  /\ call' = [c \in Calls |->
       IF op[c] = "queued" /\ call[c].phase = "sending"
         THEN [call[c] EXCEPT !.phase = "cleanup"] ELSE call[c]]
  /\ aborted' = {c \in aborted : op[c] # "queued"}
  /\ UNCHANGED <<process, service, targets, outdated, lock, staged, gone, retries, sends, store>>

(***************************************************************************)
(* deliver()                                                               *)
(***************************************************************************)
Deliver(c, i, f, t) ==
  /\ call[c].phase = "idle" /\ t \in targets
  /\ IF service = "open"
       THEN /\ call' = [call EXCEPT ![c] = [NoCall EXCEPT !.phase = "queued", !.id = i, !.file = f,
                                                          !.target = t]]
            /\ lock' = [lock EXCEPT ![i] = Append(@, c)]
       ELSE call' = [call EXCEPT ![c] = Over] /\ UNCHANGED lock
  /\ UNCHANGED <<setting, staged, gone, aborted, provider, store>>

\* deliver() settles: the next call of the delivery id gets its turn.
Finish(c) ==
  /\ call' = [call EXCEPT ![c] = Over] /\ lock' = [lock EXCEPT ![call[c].id] = Tail(@)]
  /\ gone' = gone \ {c}

Answer(c, message) == Finish(c) /\ answered' = [answered EXCEPT ![call[c].id] = message]
Fail(c)            == Finish(c) /\ UNCHANGED answered

CleanUp(c, ok) == call' = [call EXCEPT ![c].phase = "cleanup", ![c].ok = ok]

\* lookup(): the receipt of the same file sent to the same target
Found(c) == journal[call[c].id].file = call[c].file /\ journal[call[c].id].target = call[c].target

\* The operation behind the lock, up to saveFile().
Enter(c) ==
  LET entry == journal[call[c].id] IN
  /\ call[c].phase = "queued" /\ Head(lock[call[c].id]) = c
  /\ \/ /\ service # "open" \/ c \in gone \/ (entry # NoEntry /\ ~Found(c))
        /\ Fail(c)
     \/ /\ service = "open" /\ c \notin gone /\ entry # NoEntry /\ Found(c)
        /\ Answer(c, entry.message)
     \* Stale, or older than targetTtlMs.
     \/ /\ service = "open" /\ c \notin gone /\ entry = NoEntry
        /\ Fail(c)
     \/ /\ service = "open" /\ c \notin gone /\ entry = NoEntry /\ Verified(call[c].target)
        /\ call' = [call EXCEPT ![c].phase = "staging"] /\ UNCHANGED <<lock, gone, answered>>
  /\ UNCHANGED <<setting, staged, aborted, provider, journal, disk>>

StageFails(c) ==
  /\ call[c].phase = "staging"
  /\ Fail(c)
  /\ UNCHANGED <<setting, staged, aborted, provider, journal, disk>>

\* saveFile() is done: recheck, then invokeAdapter() and the adapter's enqueue().
Stage(c) ==
  /\ call[c].phase = "staging" /\ staged' = staged \cup {c}
  /\ IF Current(call[c].target)
       THEN /\ call' = [call EXCEPT ![c].phase = "sending"]
            /\ op' = [op EXCEPT ![c] = "queued"] /\ sendQueue' = Append(sendQueue, c)
       ELSE CleanUp(c, FALSE) /\ UNCHANGED <<op, sendQueue>>
  /\ UNCHANGED <<setting, lock, gone, aborted, retries, sends, store>>

\* The caller's own timer or its closed connection.
CallerGivesUp(c) ==
  /\ call[c].phase \in {"queued", "staging", "sending"} /\ c \notin gone
  /\ gone' = gone \cup {c}
  /\ IF call[c].phase = "sending"
       THEN CleanUp(c, FALSE) /\ aborted' = aborted \cup {c}
       ELSE UNCHANGED <<call, aborted>>
  /\ UNCHANGED <<setting, lock, staged, provider, store>>

\* The timer gives up on the delivery and leaves the provider operation alone.
MutantCallerTimesOut(c) ==
  /\ call[c].phase = "sending" /\ CleanUp(c, FALSE)
  /\ UNCHANGED <<setting, lock, staged, gone, aborted, provider, store>>

\* The timer is cleared when the request goes out.
MutantTimesOut(c) ==
  /\ call[c].phase = "sending" /\ op[c] = "queued"
  /\ CleanUp(c, FALSE) /\ aborted' = aborted \cup {c}
  /\ UNCHANGED <<setting, lock, staged, gone, provider, store>>

\* deliveryTimeoutMs
TimesOut(c) ==
  /\ call[c].phase = "sending"
  /\ CleanUp(c, FALSE) /\ aborted' = aborted \cup {c}
  /\ UNCHANGED <<setting, lock, staged, gone, provider, store>>

(***************************************************************************)
(* The adapter: one operation of the SendQueue at a time.                  *)
(***************************************************************************)
Busy == \E c \in Calls : op[c] \in {"calling", "backoff"}

\* How the promise race in invokeAdapter() ends, unless an abort won it.
Race(c, phase) ==
  call' = IF call[c].phase = "sending"
            THEN [call EXCEPT ![c].phase = phase,
                              ![c].message = IF phase = "accepted" THEN sends[call[c].id] ELSE 0]
            ELSE call

OperationEnds(c) ==
  op' = [op EXCEPT ![c] = "settled"] /\ retries' = [retries EXCEPT ![c] = 0]
  /\ aborted' = aborted \ {c}

\* The target is checked when the operation is queued, and not again.
MutantMaySend(c) == c \notin aborted

\* The checks of the queued function, right before sendDocument().
MaySend(c) == c \notin aborted /\ Current(call[c].target)

SendStarts(c) ==
  /\ sendQueue # <<>> /\ Head(sendQueue) = c /\ ~Busy
  /\ sendQueue' = Tail(sendQueue)
  /\ IF MaySend(c)
       THEN /\ op' = [op EXCEPT ![c] = "calling"]
            /\ sends' = [sends EXCEPT ![call[c].id] = @ + 1] /\ UNCHANGED <<call, aborted, retries>>
       ELSE OperationEnds(c) /\ Race(c, "cleanup") /\ UNCHANGED sends
  /\ UNCHANGED <<setting, lock, staged, gone, store>>

Accepts(c) ==
  /\ op[c] = "calling" /\ c \notin aborted
  /\ OperationEnds(c) /\ Race(c, "accepted")
  /\ UNCHANGED <<setting, lock, staged, gone, sendQueue, sends, store>>

\* Refused, unreachable, or accepted with an answer that got lost or was no receipt.
Refuses(c) ==
  /\ op[c] = "calling"
  /\ OperationEnds(c) /\ Race(c, "cleanup")
  /\ UNCHANGED <<setting, lock, staged, gone, sendQueue, sends, store>>

\* One retry too many.
MutantRateLimited(c) ==
  /\ op[c] = "calling" /\ c \notin aborted /\ retries[c] <= MaxRetries
  /\ op' = [op EXCEPT ![c] = "backoff"] /\ retries' = [retries EXCEPT ![c] = @ + 1]
  /\ UNCHANGED <<setting, caller, sendQueue, sends, store>>

\* The transformer waits for retry_after and calls sendDocument again.
RateLimited(c) ==
  /\ op[c] = "calling" /\ c \notin aborted /\ retries[c] < MaxRetries
  /\ op' = [op EXCEPT ![c] = "backoff"] /\ retries' = [retries EXCEPT ![c] = @ + 1]
  /\ UNCHANGED <<setting, caller, sendQueue, sends, store>>

Repeats(c) ==
  /\ op[c] = "backoff" /\ c \notin aborted
  /\ op' = [op EXCEPT ![c] = "calling"]
  /\ UNCHANGED <<setting, caller, sendQueue, retries, sends, store>>

\* Fetch and the retry wait cooperate with the signal.
AbortReaches(c) ==
  /\ op[c] \in {"calling", "backoff"} /\ c \in aborted
  /\ OperationEnds(c)
  /\ UNCHANGED <<setting, call, lock, staged, gone, sendQueue, sends, store>>

(***************************************************************************)
(* The receipt becomes durable before deliver() returns it.                *)
(***************************************************************************)
Entry(c) == [file |-> call[c].file, target |-> call[c].target, message |-> call[c].message]

Commit(c) ==
  LET i == call[c].id IN
  /\ call[c].phase = "accepted"
  /\ IF service # "closed" /\ (journal[i] = NoEntry \/ Found(c))
       THEN /\ journal' = [journal EXCEPT ![i] = IF @ = NoEntry THEN Entry(c) ELSE @]
            /\ disk' = (IF journal[i] = NoEntry THEN journal' ELSE disk)
            /\ CleanUp(c, TRUE)
       ELSE CleanUp(c, FALSE) /\ UNCHANGED <<journal, disk>>
  /\ UNCHANGED <<setting, lock, staged, gone, aborted, provider, answered>>

\* A journal that cannot be written does not keep the receipt from the caller.
MutantCommitFails(c) ==
  /\ call[c].phase = "accepted" /\ journal[call[c].id] = NoEntry
  /\ CleanUp(c, TRUE)
  /\ UNCHANGED <<setting, lock, staged, gone, aborted, provider, store>>

\* atomicWrite() throws before the rename, or after it: chmod, fsync of the directory.
CommitFails(c) ==
  LET i == call[c].id IN
  /\ call[c].phase = "accepted" /\ journal[i] = NoEntry
  /\ disk' \in {disk, [journal EXCEPT ![i] = Entry(c)]}
  /\ CleanUp(c, FALSE)
  /\ UNCHANGED <<setting, lock, staged, gone, aborted, provider, journal, answered>>

\* The finally block; that a file could not be removed is only logged.
RemoveStaged(c) ==
  /\ call[c].phase = "cleanup" /\ staged' = staged \ {c}
  /\ IF call[c].ok THEN Answer(c, call[c].message) ELSE Fail(c)
  /\ UNCHANGED <<setting, aborted, provider, journal, disk>>

(***************************************************************************)
(* Shutdown, and the end of the process at any moment.                     *)
(***************************************************************************)
Close ==
  LET active == {c \in Calls : call[c].phase = "sending"} IN
  /\ service = "open" /\ service' = "closing"
  /\ aborted' = aborted \cup active
  /\ call' = [c \in Calls |-> IF c \in active
                THEN [call[c] EXCEPT !.phase = "cleanup"] ELSE call[c]]
  /\ UNCHANGED <<process, world, targets, outdated, changes, lock, staged, gone, provider, store>>

\* The journal closes at once.
MutantDrained == TRUE

\* Every tail has settled: the journal closes.
Drained == \A i \in Ids : lock[i] = <<>>

Closed ==
  /\ service = "closing" /\ Drained /\ service' = "closed"
  /\ UNCHANGED <<process, world, targets, outdated, changes, caller, provider, store>>

\* The process dies or exits; the next one loads the journal.
Restart ==
  /\ process < MaxProcesses /\ process' = process + 1 /\ service' = "open"
  /\ world' = Start /\ outdated' = targets
  /\ call' = [c \in Calls |-> IF Settled(c) THEN call[c] ELSE Over]
  /\ lock' = [i \in Ids |-> <<>>] /\ staged' = {} /\ gone' = {} /\ aborted' = {}
  /\ op' = [c \in Calls |-> IF op[c] = "none" THEN "none" ELSE "settled"]
  /\ sendQueue' = <<>> /\ retries' = [c \in Calls |-> 0]
  /\ journal' = disk
  /\ UNCHANGED <<targets, changes, disk, sends, answered>>

Situation ==
  \/ \E f \in {"live", "up", "assistant"} : Toggle(f)
  \/ ReplaceAgent \/ ReplaceObject \/ AdapterStops

Operation(c) ==
  SendStarts(c) \/ Accepts(c) \/ Refuses(c) \/ RateLimited(c) \/ Repeats(c) \/ AbortReaches(c)

\* What the service does for a call by itself, one step after another.
Progress(c) ==
  Enter(c) \/ Stage(c) \/ StageFails(c) \/ TimesOut(c) \/ Commit(c) \/ CommitFails(c) \/ RemoveStaged(c)

Delivery(c) ==
  \/ \E i \in Ids, f \in Files, t \in targets : Deliver(c, i, f, t)
  \/ Progress(c) \/ CallerGivesUp(c)

Next ==
  \/ \E a \in BOOLEAN : Resolve(a)
  \/ Situation
  \/ \E c \in Calls : Delivery(c) \/ Operation(c)
  \/ Close \/ Closed \/ Restart

(***************************************************************************)
(* Timers fire, the disk answers and promises settle. Nothing is assumed   *)
(* of the provider or of the caller.                                       *)
(***************************************************************************)
Fairness == WF_vars(Closed) /\ \A c \in Calls : WF_vars(Progress(c))

Spec == Init /\ [][Next]_vars /\ Fairness

-----------------------------------------------------------------------------
\* The variables keep their types.
TypeOK ==
  /\ process \in 1 .. MaxProcesses /\ service \in {"open", "closing", "closed"}
  /\ world \in World /\ targets \subseteq Target /\ outdated \subseteq targets
  /\ changes \in 0 .. MaxChanges
  /\ call \in [Calls -> [phase : Phases, id : Ids \cup {None}, file : Files \cup {None},
                         target : targets \cup {None}, message : Nat, ok : BOOLEAN]]
  /\ lock \in [Ids -> Seq(Calls)] /\ sendQueue \in Seq(Calls)
  /\ {staged, gone, aborted} \subseteq SUBSET Calls
  /\ op \in [Calls -> Operations] /\ retries \in [Calls -> 0 .. MaxRetries]
  /\ {journal, disk} \subseteq [Ids -> [file : Files \cup {None},
                                        target : targets \cup {None}, message : Nat]]
  /\ sends \in [Ids -> Nat] /\ answered \in [Ids -> Nat]

\* A delivery id gets one receipt for ever, over retries with the same or
\* another target, aborts, failed journal writes and restarts, and after it
\* the provider is not asked again (deliver(), AttachmentDeliveryJournal).
Ledger == INSTANCE DeliveryLedger WITH sends <- sends, receipt <- answered
ImplementsDeliveryLedger == Ledger!Spec

Calling(c, from) == op[c] \in from /\ op'[c] = "calling"

Replaced(c) == call[c].target \in outdated

\* When the adapter first asks the provider, the target is still the one the
\* caller resolved: no other agent, even with the same id, no other Session or
\* adapter object, no other process, and deliverable
\* (isCapturedTargetCurrent() after staging and in the SendQueue).
FirstSendIsCurrent ==
  [][\A c \in Calls : Calling(c, {"queued"}) =>
       ~Replaced(c) /\ world.live /\ world.up /\ service = "open"]_vars

\* A provider that still has to read the file finds it: the staged file is
\* removed only after the operation ended or was aborted (deliver()'s finally).
FileOutlivesSend ==
  \A c \in Calls : op[c] \in {"calling", "backoff"} /\ c \notin aborted => c \in staged

\* A closed service has no delivery under way, no operation it did not abort,
\* and no receipt it accepted and then refused to commit (close()).
CloseDrains ==
  service = "closed" => \A c \in Calls :
    Settled(c) /\ (op[c] \in {"queued", "calling", "backoff"} => c \in aborted)

\* No operation of the adapter works for somebody else's target or on a file
\* that has been taken from it.
SendsAreSound == []FileOutlivesSend /\ FirstSendIsCurrent

\* A delivery id is answered once and sent for the target it was meant for, and
\* the service closes behind the last delivery (deliver(), close()).
DeliveriesAreSound == ImplementsDeliveryLedger /\ SendsAreSound /\ []CloseDrains

\* Every call of deliver() settles and close() finishes, whatever the
\* provider does and however many calls wait for the same delivery id.
DeliveriesSettle ==
  /\ \A c \in Calls : (call[c].phase = "queued") ~> Settled(c)
  /\ (service = "closing") ~> (service # "closing")

=============================================================================
