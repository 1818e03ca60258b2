----------------------------- MODULE PromptQueue -----------------------------
(***************************************************************************)
(* The serial prompt queue of a session (core/sessions/prompt-queue.ts).   *)
(*                                                                         *)
(* process() is one asynchronous frame: it schedules the processor in a    *)
(* microtask, races it against the abort signal, waits for cleanup when    *)
(* the signal fired, and only then drains the next pending item.  Every    *)
(* await of that frame is a separate action here; everything between two   *)
(* awaits is one step, because the event loop never interleaves it.        *)
(***************************************************************************)
EXTENDS Naturals, Sequences, FiniteSets

CONSTANTS
  Prompts,          \* the prompts callers submit, one queue item each
  CancelOps,        \* the beforeDrain promises handed to abortCurrent / clear / close
  NoPrompt,         \* activeGeneration = null
  OnErrorMayThrow   \* whether the owner's onError callback may throw

ASSUME PromptsAssumption == NoPrompt \notin Prompts
ASSUME OnErrorAssumption == OnErrorMayThrow \in BOOLEAN

VARIABLES
  queue,      \* the pending items, oldest first
  closed,     \* close() was called: terminal
  current,    \* the prompt whose process() frame is open, or NoPrompt
  drained,    \* the open frame was started by drainNext(), not by submit()
  frame,      \* where the open frame is suspended
  aborted,    \* signal.aborted of the open frame
  barrier,    \* the operations chained in abortBarrier
  observed,   \* the operations of the barrier the cleanup loop last read
  released,   \* terminalRelease of the open frame was resolved
  proc,       \* the processor promise of every prompt
  op,         \* the state of every beforeDrain promise
  opTurn,     \* history: the prompt whose abort attached the operation
  caller      \* the promise submit() returned to each caller

queueVars == <<queue, closed, current, drained, frame, aborted, barrier,
               observed, released, proc, op, opTurn, caller>>

Frames   == {"idle", "racing", "cleanup"}
Procs    == {"none", "scheduled", "running", "resolved", "rejected"}
OpStates == {"unused", "pending", "settled"}
Callers  == {"new", "waiting", "resolved", "rejected", "refused"}

InQueue(p)    == \E i \in 1..Len(queue) : queue[i] = p
ProcSettled(p) == proc[p] \in {"resolved", "rejected"}
OpsSettled(S)  == \A o \in S : op[o] = "settled"

QueueInit ==
  /\ queue = <<>> /\ closed = FALSE
  /\ current = NoPrompt /\ drained = FALSE /\ frame = "idle"
  /\ aborted = FALSE /\ barrier = {} /\ observed = {} /\ released = FALSE
  /\ proc = [p \in Prompts |-> "none"]
  /\ op = [o \in CancelOps |-> "unused"]
  /\ opTurn = [o \in CancelOps |-> NoPrompt]
  /\ caller = [p \in Prompts |-> "new"]

(***************************************************************************)
(* An operator named Mutant... states what a plausible bug would make of   *)
(* the definition after it; no specification uses it.                      *)
(***************************************************************************)

(***************************************************************************)
(* The synchronous prologue and epilogue of process().                     *)
(***************************************************************************)
OpenFrame(p, fromDrain) ==
  /\ current' = p /\ drained' = fromDrain /\ frame' = "racing"
  /\ aborted' = FALSE /\ barrier' = {} /\ observed' = {} /\ released' = FALSE
  /\ proc' = [proc EXCEPT ![p] = "scheduled"]

\* The finally block leaves activeGeneration set.
MutantKeepsGeneration ==
  /\ drained' = FALSE /\ frame' = "idle" /\ UNCHANGED <<current, proc>>
  /\ aborted' = FALSE /\ barrier' = {} /\ observed' = {} /\ released' = FALSE

CloseFrame ==
  /\ current' = NoPrompt /\ drained' = FALSE /\ frame' = "idle"
  /\ aborted' = FALSE /\ barrier' = {} /\ observed' = {} /\ released' = FALSE
  /\ UNCHANGED proc

\* drainNext() takes the newest item.
MutantDrainNewest ==
  IF closed \/ queue = <<>>
  THEN CloseFrame /\ UNCHANGED queue
  ELSE /\ OpenFrame(queue[Len(queue)], TRUE)
       /\ queue' = SubSeq(queue, 1, Len(queue) - 1)

\* The end of the finally block: drainNext() opens the next frame in the same
\* turn of the event loop, unless the queue was closed.
DrainNext ==
  IF closed \/ queue = <<>>
  THEN CloseFrame /\ UNCHANGED queue
  ELSE OpenFrame(Head(queue), TRUE) /\ queue' = Tail(queue)

\* A drained item is settled by process(...).then(resolve), which a rejection
\* skips; a directly submitted one is process() itself.
SettleCaller(thrown) ==
  caller' = [caller EXCEPT ![current] =
               IF ~thrown THEN "resolved" ELSE IF drained THEN @ ELSE "rejected"]

\* The items are dropped but their promises are not resolved.
MutantForgetsToResolve(S) == caller' = [p \in Prompts |-> IF p \in S THEN caller[p] ELSE caller[p]]

\* item.resolve() on every item of S.
ResolveAll(S) ==
  caller' = [p \in Prompts |-> IF p \in S THEN "resolved" ELSE caller[p]]

PendingSet == {p \in Prompts : InQueue(p)}

(***************************************************************************)
(* Operations of the owner.                                                *)
(***************************************************************************)
Submit(p) ==
  /\ caller[p] = "new" /\ ~closed
  /\ caller' = [caller EXCEPT ![p] = "waiting"]
  /\ IF frame # "idle"
     THEN /\ queue' = Append(queue, p)
          /\ UNCHANGED <<current, drained, frame, aborted, barrier, observed, released, proc>>
     ELSE OpenFrame(p, FALSE) /\ UNCHANGED queue
  /\ UNCHANGED <<closed, op, opTurn>>

SubmitRefused(p) ==
  /\ caller[p] = "new" /\ closed
  /\ caller' = [caller EXCEPT ![p] = "refused"]
  /\ UNCHANGED <<queue, closed, current, drained, frame, aborted, barrier,
                 observed, released, proc, op, opTurn>>

\* abortCurrent(beforeDrain), with ops = {} when no promise is passed.
Abort(ops) ==
  IF frame = "idle"
  THEN UNCHANGED <<aborted, barrier, op, opTurn>>
  ELSE /\ aborted' = TRUE
       /\ barrier' = barrier \cup ops
       /\ op' = [o \in CancelOps |-> IF o \in ops THEN "pending" ELSE op[o]]
       /\ opTurn' = [o \in CancelOps |-> IF o \in ops THEN current ELSE opTurn[o]]

\* The promises a caller may pass: none, or one that it just created.
BeforeDrain ==
  {{}} \cup (IF frame = "idle" THEN {} ELSE {{o} : o \in {x \in CancelOps : op[x] = "unused"}})

AbortCurrent(ops) ==
  /\ ops \in BeforeDrain
  /\ Abort(ops)
  /\ UNCHANGED <<queue, closed, current, drained, frame, observed, released,
                 proc, caller>>

Clear(ops) ==
  /\ ops \in BeforeDrain
  /\ Abort(ops)
  /\ ResolveAll(PendingSet) /\ queue' = <<>>
  /\ UNCHANGED <<closed, current, drained, frame, observed, released,
                 proc>>

Close(ops) ==
  /\ ops \in BeforeDrain
  /\ closed' = TRUE
  /\ Abort(ops)
  /\ ResolveAll(PendingSet) /\ queue' = <<>>
  /\ UNCHANGED <<current, drained, frame, observed, released,
                 proc>>

ReleaseAfterTerminalTeardown ==
  /\ closed /\ frame # "idle"
  /\ released' = TRUE
  /\ UNCHANGED <<queue, closed, current, drained, frame, aborted, barrier,
                 observed, proc, op, opTurn, caller>>

ClearPending ==
  /\ ResolveAll(PendingSet) /\ queue' = <<>>
  /\ UNCHANGED <<closed, current, drained, frame, aborted, barrier, observed,
                 released, proc, op, opTurn>>

Prioritize(p) ==
  /\ InQueue(p)
  /\ ResolveAll(PendingSet \ {p}) /\ queue' = <<p>>
  /\ UNCHANGED <<closed, current, drained, frame, aborted, barrier, observed,
                 released, proc, op, opTurn>>

(***************************************************************************)
(* Continuations of the open frame, and the promises it waits for.         *)
(***************************************************************************)

\* The microtask that calls the processor; throwIfAborted() comes first.
StartProcessor ==
  /\ frame # "idle" /\ proc[current] = "scheduled"
  /\ proc' = [proc EXCEPT ![current] = IF aborted THEN "rejected" ELSE "running"]
  /\ UNCHANGED <<queue, closed, current, drained, frame, aborted, barrier,
                 observed, released, op, opTurn, caller>>

ProcessorSettles(p, outcome) ==
  /\ proc[p] = "running"
  /\ proc' = [proc EXCEPT ![p] = outcome]
  /\ UNCHANGED <<queue, closed, current, drained, frame, aborted, barrier,
                 observed, released, op, opTurn, caller>>

CancelSettles(o) ==
  /\ op[o] = "pending"
  /\ op' = [op EXCEPT ![o] = "settled"]
  /\ UNCHANGED <<queue, closed, current, drained, frame, aborted, barrier,
                 observed, released, proc, opTurn, caller>>

\* The race was decided and no abort is visible when the continuation runs;
\* a rejection is reported through onError, which may itself throw.
FinishUnaborted(thrown) ==
  /\ frame = "racing" /\ ~aborted /\ ProcSettled(current)
  /\ thrown => proc[current] = "rejected"
  /\ SettleCaller(thrown)
  /\ DrainNext
  /\ UNCHANGED <<closed, op, opTurn>>

\* The abort won, or fired before the continuation of a decided race ran.  The
\* processor's microtask was enqueued with the frame and so runs before this one.
EnterCleanup ==
  /\ frame = "racing" /\ aborted /\ proc[current] # "scheduled"
  /\ frame' = "cleanup" /\ observed' = barrier
  /\ UNCHANGED <<queue, closed, current, drained, aborted, barrier, released,
                 proc, op, opTurn, caller>>

\* observeCleanup(): the observed operations settled, but a concurrent caller
\* chained another one meanwhile.
ObserveAgain ==
  /\ frame = "cleanup" /\ ~released
  /\ ProcSettled(current) /\ OpsSettled(observed)
  /\ observed # barrier
  /\ observed' = barrier
  /\ UNCHANGED <<queue, closed, current, drained, frame, aborted, barrier, released,
                 proc, op, opTurn, caller>>

\* The cleanup waits for the cancellation only.
MutantCleanupWithoutProcessor == OpsSettled(observed) /\ observed = barrier

\* The cleanup is a single pass: a promise chained meanwhile is not awaited.
MutantCleanupSinglePass == ProcSettled(current) /\ OpsSettled(observed)

CleanupObserved ==
  ProcSettled(current) /\ OpsSettled(observed) /\ observed = barrier

\* The terminal release is not raced with the cleanup.
MutantNoTerminalRelease ==
  /\ frame = "cleanup" /\ CleanupObserved
  /\ SettleCaller(FALSE)
  /\ DrainNext
  /\ UNCHANGED <<closed, op, opTurn>>

FinishAborted ==
  /\ frame = "cleanup" /\ (CleanupObserved \/ released)
  /\ SettleCaller(FALSE)
  /\ DrainNext
  /\ UNCHANGED <<closed, op, opTurn>>

ThrowOutcomes == IF OnErrorMayThrow THEN BOOLEAN ELSE {FALSE}

OwnerStep ==
  \/ \E p \in Prompts : Submit(p) \/ SubmitRefused(p) \/ Prioritize(p)
  \/ \E ops \in BeforeDrain : AbortCurrent(ops) \/ Clear(ops) \/ Close(ops)
  \/ ClearPending
  \/ ReleaseAfterTerminalTeardown

Continuation ==
  \/ StartProcessor
  \/ \E thrown \in ThrowOutcomes : FinishUnaborted(thrown)
  \/ EnterCleanup
  \/ ObserveAgain
  \/ FinishAborted

ProcessorStep == \E p \in Prompts, outcome \in {"resolved", "rejected"} : ProcessorSettles(p, outcome)
CancelStep == \E o \in CancelOps : CancelSettles(o)

QueueNext == OwnerStep \/ Continuation \/ ProcessorStep \/ CancelStep

Spec == QueueInit /\ [][QueueNext]_queueVars

\* Microtasks run, and every beforeDrain promise settles: the session bounds
\* each agent cancellation by AGENT_CANCEL_TIMEOUT_MS.
QueueFairness == WF_queueVars(Continuation) /\ WF_queueVars(CancelStep)

\* The agent may leave a prompt pending for ever ...
FairSpec == Spec /\ QueueFairness

\* ... unless it answers every prompt it was given.
AgentAnswers == WF_queueVars(ProcessorStep)

(***************************************************************************)
(* Properties.                                                             *)
(***************************************************************************)
\* Every variable keeps its type; an open frame has a prompt and only then.
TypeOK ==
  /\ queue \in Seq(Prompts) /\ closed \in BOOLEAN
  /\ current \in Prompts \cup {NoPrompt} /\ drained \in BOOLEAN /\ frame \in Frames
  /\ aborted \in BOOLEAN /\ barrier \in SUBSET CancelOps
  /\ observed \in SUBSET CancelOps /\ released \in BOOLEAN
  /\ proc \in [Prompts -> Procs] /\ op \in [CancelOps -> OpStates]
  /\ opTurn \in [CancelOps -> Prompts \cup {NoPrompt}]
  /\ caller \in [Prompts -> Callers]
  /\ current = NoPrompt <=> frame = "idle"

\* Agents are stateful: at most one processor runs at any time, even when a
\* turn is aborted, abandoned by a terminal teardown, or overtaken by a close.
SerialExecution ==
  \A p, q \in Prompts : proc[p] = "running" /\ proc[q] = "running" => p = q

\* The agent cancellation requested for one turn never overlaps a later turn:
\* a cancel() that is still in flight could only hit the turn that asked for it.
CancellationNeverLeaks ==
  \A p \in Prompts, o \in CancelOps :
    proc[p] = "running" /\ op[o] = "pending" => opTurn[o] = p

\* Every submission is answered, also one that is cleared or overtaken by a close,
\* provided the agent answers its prompts.
EverySubmissionSettles ==
  AgentAnswers => \A p \in Prompts : caller[p] = "waiting" ~> caller[p] # "waiting"

\* releaseAfterTerminalTeardown() frees the callers of a closed queue although
\* the agent never answers the prompt that was running.
TerminalTeardownFreesCallers ==
  (closed /\ (frame = "idle" \/ released)) ~> (\A p \in Prompts : caller[p] # "waiting")

\* No caller of enqueue() waits for ever: not behind an agent that answers, and
\* behind one that never does not after the terminal teardown.
CallersAreFreed == EverySubmissionSettles /\ TerminalTeardownFreesCallers

(***************************************************************************)
(* Refinement: what the session relies on is PromptLine.                   *)
(***************************************************************************)
RunningPrompt ==
  IF \E p \in Prompts : proc[p] = "running"
  THEN CHOOSE p \in Prompts : proc[p] = "running"
  ELSE NoPrompt

Line == INSTANCE PromptLine WITH
  Nobody <- NoPrompt,
  line <- IF current # NoPrompt /\ proc[current] = "scheduled" THEN <<current>> \o queue ELSE queue,
  running <- RunningPrompt,
  seen <- {p \in Prompts : caller[p] \notin {"new", "refused"}},
  shut <- closed

\* Prompts reach the agent one at a time, each at most once and in submission
\* order, and none does after close(): the queue implements PromptLine.
ImplementsPromptLine == Line!Spec
=============================================================================
