-------------------------- MODULE PromptQueueProofs --------------------------
(***************************************************************************)
(* Type correctness, serial execution and containment of cancellations of  *)
(* the prompt queue, and the refinement of PromptLine, for any set of      *)
(* prompts and of cancellations.                                           *)
(***************************************************************************)
EXTENDS PromptQueue, TLAPS

\* Where a processor may be: the open frame owns it, except for the one that a
\* terminal teardown abandoned, after which no frame is ever opened again.
OwnedProcessors ==
  /\ \A p \in Prompts : proc[p] = "scheduled" => p = current
  /\ \A p \in Prompts : proc[p] = "running" => p = current \/ (closed /\ frame = "idle")
  /\ frame = "cleanup" => proc[current] # "scheduled"

\* A pending cancellation belongs to the open frame's barrier, unless the
\* queue was closed and its last frame released.
OwnedCancellations ==
  /\ \A o \in CancelOps : op[o] = "pending" /\ frame # "idle" => opTurn[o] = current /\ o \in barrier
  /\ \A o \in CancelOps : op[o] = "pending" /\ frame = "idle" => closed
  /\ ~aborted => barrier = {}

OnlyClosedReleases == released => closed

IInv ==
  /\ TypeOK
  /\ OwnedProcessors
  /\ OwnedCancellations
  /\ OnlyClosedReleases
  /\ SerialExecution
  /\ CancellationNeverLeaks

\* Nothing runs and nothing is being cancelled: what the two ways of finishing
\* a turn establish before the next frame may open.
Quiet ==
  /\ \A p \in Prompts : proc[p] \in {"none", "resolved", "rejected"}
  /\ \A o \in CancelOps : op[o] # "pending"

USE PromptsAssumption

\* The constructor establishes the invariant: no frame is open.
LEMMA InitEstablishes == QueueInit => IInv
<1> SUFFICES ASSUME QueueInit PROVE IInv
  OBVIOUS
<1>1. TypeOK
  <2>1. queue \in Seq(Prompts)
    BY DEF QueueInit
  <2>2. current = NoPrompt <=> frame = "idle"
    BY DEF QueueInit
  <2> QED
    BY <2>1, <2>2 DEF QueueInit, TypeOK, Frames, Procs, OpStates, Callers
<1>2. OwnedProcessors /\ OwnedCancellations /\ OnlyClosedReleases
  BY DEF QueueInit, OwnedProcessors, OwnedCancellations, OnlyClosedReleases
<1>3. SerialExecution /\ CancellationNeverLeaks
  BY DEF QueueInit, SerialExecution, CancellationNeverLeaks
<1> QED BY <1>1, <1>2, <1>3 DEF IInv

\* A frame opened while everything is quiet keeps the invariant, whether the
\* prompt was submitted or drained.
LEMMA OpenFrameKeeps ==
  ASSUME IInv, Quiet, NEW p \in Prompts, NEW d \in BOOLEAN, OpenFrame(p, d),
         queue' \in Seq(Prompts), caller' \in [Prompts -> Callers],
         UNCHANGED <<closed, op, opTurn>>
  PROVE  IInv'
<1>1. TypeOK'
  BY DEF IInv, TypeOK, OpenFrame, Frames, Procs
<1>2. OwnedProcessors' /\ SerialExecution' /\ CancellationNeverLeaks'
  BY DEF IInv, TypeOK, Quiet, OpenFrame, OwnedProcessors, SerialExecution, CancellationNeverLeaks
<1>3. OwnedCancellations' /\ OnlyClosedReleases'
  BY DEF IInv, TypeOK, Quiet, OpenFrame, OwnedCancellations, OnlyClosedReleases
<1> QED BY <1>1, <1>2, <1>3 DEF IInv

\* The last frame closes: either everything is quiet, or the queue is closed
\* and the abandoned processor stays the only one.
LEMMA CloseFrameKeeps ==
  ASSUME IInv, frame # "idle", Quiet \/ (closed /\ frame = "cleanup"), CloseFrame,
         queue' \in Seq(Prompts), caller' \in [Prompts -> Callers],
         UNCHANGED <<closed, op, opTurn>>
  PROVE  IInv'
<1>1. TypeOK'
  BY DEF IInv, TypeOK, CloseFrame, Frames
<1>2. OwnedProcessors'
  <2>1. \A p \in Prompts : proc[p] # "scheduled" \/ p = current
    BY DEF IInv, OwnedProcessors
  <2>2. proc[current] # "scheduled"
    BY DEF IInv, TypeOK, OwnedProcessors, Quiet
  <2> QED
    BY <2>1, <2>2 DEF IInv, TypeOK, Quiet, CloseFrame, OwnedProcessors
<1>3. OwnedCancellations' /\ OnlyClosedReleases' /\ SerialExecution' /\ CancellationNeverLeaks'
  BY DEF IInv, TypeOK, Quiet, CloseFrame, OwnedCancellations, OnlyClosedReleases,
         SerialExecution, CancellationNeverLeaks
<1> QED BY <1>1, <1>2, <1>3 DEF IInv

\* The end of the finally block, from either way of finishing a turn.
LEMMA DrainNextKeeps ==
  ASSUME IInv, frame # "idle", Quiet \/ (closed /\ frame = "cleanup"), DrainNext,
         NEW t \in BOOLEAN, SettleCaller(t), UNCHANGED <<closed, op, opTurn>>
  PROVE  IInv'
<1>1. caller' \in [Prompts -> Callers]
  BY DEF IInv, TypeOK, SettleCaller, Callers
<1>2. CASE closed \/ queue = <<>>
  <2>1. CloseFrame /\ queue' = queue
    BY <1>2 DEF DrainNext
  <2> QED
    BY <1>1, <2>1, CloseFrameKeeps DEF IInv, TypeOK
<1>3. CASE ~closed /\ queue # <<>>
  <2>1. Head(queue) \in Prompts /\ Tail(queue) \in Seq(Prompts)
    BY <1>3 DEF IInv, TypeOK
  <2>2. OpenFrame(Head(queue), TRUE) /\ queue' = Tail(queue)
    BY <1>3 DEF DrainNext
  <2>3. Quiet
    BY <1>3
  <2> QED
    BY <1>1, <2>1, <2>2, <2>3, OpenFrameKeeps
<1> QED BY <1>2, <1>3

\* An unaborted turn finishes only after its processor settled, and then no
\* cancellation was ever requested for it.
LEMMA FinishUnabortedKeeps ==
  ASSUME IInv, NEW t \in BOOLEAN, FinishUnaborted(t)
  PROVE  IInv'
<1>1. Quiet
  BY DEF IInv, TypeOK, FinishUnaborted, ProcSettled, OwnedProcessors, OwnedCancellations, Quiet, Procs
<1> QED
  BY <1>1, DrainNextKeeps DEF FinishUnaborted

\* An aborted turn finishes when its processor and every chained cancellation
\* settled, or when a closed queue is released.
LEMMA FinishAbortedKeeps ==
  ASSUME IInv, FinishAborted
  PROVE  IInv'
<1>1. CASE CleanupObserved
  <2>1. \A p \in Prompts : proc[p] \in {"none", "resolved", "rejected"}
    BY <1>1 DEF FinishAborted, CleanupObserved, ProcSettled, IInv, TypeOK, OwnedProcessors, Procs
  <2>2. \A o \in CancelOps : op[o] # "pending"
    BY <1>1 DEF FinishAborted, CleanupObserved, OpsSettled, IInv, OwnedCancellations
  <2> QED
    BY <2>1, <2>2, DrainNextKeeps DEF FinishAborted, Quiet
<1>2. CASE released
  BY <1>2, DrainNextKeeps DEF FinishAborted, IInv, OnlyClosedReleases
<1> QED BY <1>1, <1>2 DEF FinishAborted

\* Calls that only queue, discard or answer items do not disturb the frame.
LEMMA QueueOnlyKeeps ==
  ASSUME IInv, queue' \in Seq(Prompts), caller' \in [Prompts -> Callers],
         released' = released \/ (closed /\ released' = TRUE),
         UNCHANGED <<closed, current, drained, frame, aborted, barrier, observed, proc, op, opTurn>>
  PROVE  IInv'
<1>1. released' \in BOOLEAN /\ OnlyClosedReleases'
  <2>1. CASE released' = released
    BY <2>1 DEF IInv, TypeOK, OnlyClosedReleases
  <2>2. CASE closed /\ released' = TRUE
    BY <2>2 DEF OnlyClosedReleases
  <2> QED BY <2>1, <2>2
<1>2. TypeOK'
  <2>1. current' = NoPrompt <=> frame' = "idle"
    BY DEF IInv, TypeOK
  <2> QED
    BY <1>1, <2>1 DEF IInv, TypeOK
<1>3. OwnedProcessors' /\ OwnedCancellations'
  BY DEF IInv, OwnedProcessors, OwnedCancellations
<1>4. SerialExecution' /\ CancellationNeverLeaks'
  BY DEF IInv, SerialExecution, CancellationNeverLeaks
<1> QED BY <1>1, <1>2, <1>3, <1>4 DEF IInv

\* A submission opens a frame only when the queue is idle.
LEMMA SubmitKeeps ==
  ASSUME IInv, NEW p \in Prompts, Submit(p)
  PROVE  IInv'
<1>1. caller' \in [Prompts -> Callers]
  BY DEF IInv, TypeOK, Submit, Callers
<1>2. CASE frame # "idle"
  <2>1. queue' \in Seq(Prompts)
    BY <1>2 DEF IInv, TypeOK, Submit
  <2> QED
    BY <1>1, <1>2, <2>1, QueueOnlyKeeps DEF Submit
<1>3. CASE frame = "idle"
  <2>1. Quiet
    BY <1>3 DEF IInv, TypeOK, Submit, OwnedProcessors, OwnedCancellations, Quiet, Procs
  <2>2. OpenFrame(p, FALSE) /\ queue' \in Seq(Prompts)
    BY <1>3 DEF Submit, IInv, TypeOK
  <2> QED
    BY <1>1, <2>1, <2>2, OpenFrameKeeps DEF Submit
<1> QED BY <1>2, <1>3

\* abortCurrent() attaches fresh cancellations to the open frame, and to no
\* other; the owner's calls that discard pending items do nothing else.
LEMMA AbortKeeps ==
  ASSUME IInv, NEW ops \in BeforeDrain, Abort(ops), closed' \in {closed, TRUE},
         queue' \in Seq(Prompts), caller' \in [Prompts -> Callers],
         UNCHANGED <<current, drained, frame, observed, released, proc>>
  PROVE  IInv'
<1>0. ops \in SUBSET CancelOps
  BY DEF BeforeDrain
<1>1. CASE frame = "idle"
  <2>1. UNCHANGED <<aborted, barrier, op, opTurn>>
    BY <1>1 DEF Abort
  <2> QED
    BY <1>1, <2>1 DEF IInv, TypeOK, OwnedProcessors, OwnedCancellations, OnlyClosedReleases,
           SerialExecution, CancellationNeverLeaks
<1>2. CASE frame # "idle"
  <2>1. /\ aborted' = TRUE /\ barrier' = barrier \cup ops
        /\ op' = [o \in CancelOps |-> IF o \in ops THEN "pending" ELSE op[o]]
        /\ opTurn' = [o \in CancelOps |-> IF o \in ops THEN current ELSE opTurn[o]]
    BY <1>2 DEF Abort
  <2>2. TypeOK'
    BY <1>0, <2>1 DEF IInv, TypeOK, OpStates
  <2>3. OwnedProcessors' /\ SerialExecution' /\ OnlyClosedReleases'
    BY <1>2 DEF IInv, OwnedProcessors, SerialExecution, OnlyClosedReleases
  <2>4. OwnedCancellations'
    BY <1>0, <1>2, <2>1 DEF IInv, TypeOK, OwnedCancellations
  <2>5. CancellationNeverLeaks'
    BY <1>0, <1>2, <2>1 DEF IInv, TypeOK, OwnedProcessors, CancellationNeverLeaks
  <2> QED BY <2>2, <2>3, <2>4, <2>5 DEF IInv
<1> QED BY <1>1, <1>2

\* Every call of the owner keeps the invariant.
LEMMA OwnerKeeps ==
  ASSUME IInv, OwnerStep
  PROVE  IInv'
<1>0. <<>> \in Seq(Prompts) /\ \A p \in Prompts : <<p>> \in Seq(Prompts)
  OBVIOUS
<1>1. ASSUME NEW p \in Prompts, Submit(p) PROVE IInv'
  BY <1>1, SubmitKeeps
<1>2. ASSUME NEW p \in Prompts, SubmitRefused(p) \/ Prioritize(p) PROVE IInv'
  <2>1. queue' \in Seq(Prompts) /\ caller' \in [Prompts -> Callers]
    BY <1>0, <1>2 DEF SubmitRefused, Prioritize, ResolveAll, IInv, TypeOK, Callers
  <2>2. UNCHANGED <<closed, current, drained, frame, aborted, barrier, observed,
                    released, proc, op, opTurn>>
    BY <1>2 DEF SubmitRefused, Prioritize
  <2> QED
    BY <2>1, <2>2, QueueOnlyKeeps
<1>3. ASSUME NEW ops \in BeforeDrain, AbortCurrent(ops) \/ Clear(ops) \/ Close(ops) PROVE IInv'
  <2>1. queue' \in Seq(Prompts) /\ caller' \in [Prompts -> Callers]
    BY <1>0, <1>3 DEF AbortCurrent, Clear, Close, ResolveAll, IInv, TypeOK, Callers
  <2> QED
    BY <1>3, <2>1, AbortKeeps DEF AbortCurrent, Clear, Close
<1>4. ASSUME ClearPending \/ ReleaseAfterTerminalTeardown PROVE IInv'
  <2>1. queue' \in Seq(Prompts) /\ caller' \in [Prompts -> Callers]
    BY <1>0, <1>4 DEF ClearPending, ReleaseAfterTerminalTeardown, ResolveAll, IInv, TypeOK, Callers
  <2>2. released' = released \/ (closed /\ released' = TRUE)
    BY <1>4 DEF ClearPending, ReleaseAfterTerminalTeardown
  <2>3. UNCHANGED <<closed, current, drained, frame, aborted, barrier, observed, proc, op, opTurn>>
    BY <1>4 DEF ClearPending, ReleaseAfterTerminalTeardown
  <2> QED
    BY <2>1, <2>2, <2>3, QueueOnlyKeeps
<1> QED BY <1>1, <1>2, <1>3, <1>4 DEF OwnerStep

\* Every continuation of the open frame keeps the invariant.
LEMMA ContinuationKeeps ==
  ASSUME IInv, Continuation
  PROVE  IInv'
<1>1. ASSUME StartProcessor PROVE IInv'
  <2>1. current \in Prompts
    BY <1>1 DEF StartProcessor, IInv, TypeOK
  <2>2. TypeOK'
    BY <1>1, <2>1 DEF StartProcessor, IInv, TypeOK, Procs
  <2>3. OwnedProcessors' /\ SerialExecution'
    BY <1>1, <2>1 DEF StartProcessor, IInv, TypeOK, OwnedProcessors, SerialExecution
  <2>4. OwnedCancellations' /\ OnlyClosedReleases'
    BY <1>1 DEF StartProcessor, IInv, OwnedCancellations, OnlyClosedReleases
  <2>5. CancellationNeverLeaks'
    BY <1>1, <2>1 DEF StartProcessor, IInv, TypeOK, OwnedCancellations, CancellationNeverLeaks
  <2> QED BY <2>2, <2>3, <2>4, <2>5 DEF IInv
<1>2. ASSUME NEW t \in ThrowOutcomes, FinishUnaborted(t) PROVE IInv'
  BY <1>2, FinishUnabortedKeeps DEF ThrowOutcomes
<1>3. ASSUME EnterCleanup \/ ObserveAgain PROVE IInv'
  <2>1. TypeOK'
    BY <1>3 DEF EnterCleanup, ObserveAgain, IInv, TypeOK, Frames
  <2> QED
    BY <1>3, <2>1 DEF EnterCleanup, ObserveAgain, ProcSettled, IInv, OwnedProcessors,
           OwnedCancellations, OnlyClosedReleases, SerialExecution, CancellationNeverLeaks
<1>4. ASSUME FinishAborted PROVE IInv'
  BY <1>4, FinishAbortedKeeps
<1> QED BY <1>1, <1>2, <1>3, <1>4 DEF Continuation

\* Late answers of the agent and of its cancellations keep the invariant.
LEMMA SettlementKeeps ==
  ASSUME IInv, ProcessorStep \/ CancelStep
  PROVE  IInv'
<1>1. ASSUME NEW p \in Prompts, NEW v \in {"resolved", "rejected"}, ProcessorSettles(p, v) PROVE IInv'
  <2>1. TypeOK'
    BY <1>1 DEF ProcessorSettles, IInv, TypeOK, Procs
  <2>2. OwnedProcessors' /\ SerialExecution' /\ CancellationNeverLeaks'
    BY <1>1 DEF ProcessorSettles, IInv, TypeOK, OwnedProcessors, SerialExecution, CancellationNeverLeaks
  <2>3. OwnedCancellations' /\ OnlyClosedReleases'
    BY <1>1 DEF ProcessorSettles, IInv, OwnedCancellations, OnlyClosedReleases
  <2> QED BY <2>1, <2>2, <2>3 DEF IInv
<1>2. ASSUME NEW o \in CancelOps, CancelSettles(o) PROVE IInv'
  <2>1. TypeOK'
    BY <1>2 DEF CancelSettles, IInv, TypeOK, OpStates
  <2> QED
    BY <1>2, <2>1 DEF CancelSettles, IInv, TypeOK, OwnedProcessors, OwnedCancellations,
           OnlyClosedReleases, SerialExecution, CancellationNeverLeaks
<1> QED BY <1>1, <1>2 DEF ProcessorStep, CancelStep

\* The strengthened invariant is inductive.
THEOREM InductiveInvariant == Spec => []IInv
<1>1. QueueInit => IInv
  BY InitEstablishes
<1>2. IInv /\ [QueueNext]_queueVars => IInv'
  <2> SUFFICES ASSUME IInv, [QueueNext]_queueVars PROVE IInv'
    OBVIOUS
  <2>1. CASE UNCHANGED queueVars
    BY <2>1 DEF queueVars, IInv, TypeOK, OwnedProcessors, OwnedCancellations,
           OnlyClosedReleases, SerialExecution, CancellationNeverLeaks
  <2> QED BY <2>1, OwnerKeeps, ContinuationKeeps, SettlementKeeps DEF QueueNext
<1> QED BY <1>1, <1>2, PTL DEF Spec

\* The queue's variables keep their types, and a frame is open exactly while a
\* generation is active.
THEOREM TypeCorrectness == Spec => []TypeOK
<1>1. IInv => TypeOK
  BY DEF IInv
<1> QED BY <1>1, InductiveInvariant, PTL

\* Whatever is submitted, aborted, closed or abandoned, and in whatever order
\* the promises settle, at most one processor runs.
THEOREM SerialExecutionHolds == Spec => []SerialExecution
<1>1. IInv => SerialExecution
  BY DEF IInv
<1> QED BY <1>1, InductiveInvariant, PTL

\* While a turn runs, no cancellation requested for another turn is in flight.
THEOREM CancellationContained == Spec => []CancellationNeverLeaks
<1>1. IInv => CancellationNeverLeaks
  BY DEF IInv
<1> QED BY <1>1, InductiveInvariant, PTL

(***************************************************************************)
(* The refinement of PromptLine.  LineInv is what it needs besides IInv:   *)
(* pending items wait behind an open frame of an open queue only, a closed *)
(* queue has aborted the frame it leaves open, and whoever is in line was  *)
(* accepted.                                                               *)
(***************************************************************************)
Accepted == {p \in Prompts : caller[p] \notin {"new", "refused"}}

LineInv ==
  /\ closed \/ frame = "idle" => queue = <<>>
  /\ closed /\ frame # "idle" => aborted
  /\ \A i \in 1..Len(queue) : queue[i] \in Accepted
  /\ current # NoPrompt => current \in Accepted

\* The abstract line: the scheduled prompt stands before the pending items.
Waiting == IF current # NoPrompt /\ proc[current] = "scheduled" THEN <<current>> \o queue ELSE queue

\* No caller becomes unaccepted, and none but those of a set becomes accepted.
LEMMA ResolveKeepsAccepted ==
  ASSUME IInv, LineInv, NEW S \in SUBSET PendingSet, ResolveAll(S)
  PROVE  Accepted' = Accepted
<1>1. \A p \in S : p \in Accepted
  BY DEF PendingSet, InQueue, LineInv
<1> QED
  BY <1>1 DEF ResolveAll, Accepted, IInv, TypeOK

\* The end of a turn answers a caller that was accepted.
LEMMA SettleKeepsAccepted ==
  ASSUME IInv, LineInv, frame # "idle", NEW t \in BOOLEAN, SettleCaller(t)
  PROVE  Accepted' = Accepted
<1>1. current \in Prompts /\ current \in Accepted
  BY DEF IInv, TypeOK, LineInv
<1> QED
  BY <1>1 DEF SettleCaller, Accepted, IInv, TypeOK

\* drainNext() takes only accepted items, and stops at a closed queue.
LEMMA DrainNextKeepsLine ==
  ASSUME IInv, LineInv, DrainNext, Accepted' = Accepted, closed' = closed
  PROVE  LineInv'
<1>1. CASE closed \/ queue = <<>>
  <2>1. queue = <<>> /\ queue' = <<>> /\ frame' = "idle" /\ current' = NoPrompt
    BY <1>1 DEF DrainNext, CloseFrame, LineInv
  <2> QED
    BY <2>1 DEF LineInv
<1>2. CASE ~closed /\ queue # <<>>
  <2>1. frame' = "racing" /\ current' = Head(queue) /\ queue' = Tail(queue)
    BY <1>2 DEF DrainNext, OpenFrame
  <2>2. queue \in Seq(Prompts) /\ Head(queue) = queue[1] /\ 1 \in 1..Len(queue)
    BY <1>2 DEF IInv, TypeOK
  <2>3. \A i \in 1..Len(Tail(queue)) : Tail(queue)[i] = queue[i + 1] /\ i + 1 \in 1..Len(queue)
    BY <1>2, <2>2
  <2> QED
    BY <1>2, <2>1, <2>2, <2>3 DEF LineInv
<1> QED BY <1>1, <1>2

\* The calls that abort the open frame and those that drop pending items.
LEMMA OwnerKeepsLine ==
  ASSUME IInv, LineInv, OwnerStep
  PROVE  LineInv'
<1>0. queue \in Seq(Prompts)
  BY DEF IInv, TypeOK
<1>1. ASSUME NEW p \in Prompts, Submit(p) PROVE LineInv'
  <2>1. Accepted' = Accepted \cup {p}
    BY <1>1 DEF Submit, Accepted, IInv, TypeOK
  <2>2. CASE frame = "idle"
    BY <1>1, <2>1, <2>2 DEF Submit, OpenFrame, LineInv
  <2>3. CASE frame # "idle"
    <3>1. queue' = Append(queue, p) /\ ~closed /\ UNCHANGED <<closed, frame, aborted, current>>
      BY <1>1, <2>3 DEF Submit
    <3>2. \A i \in 1..Len(queue') : queue'[i] \in Accepted'
      BY <1>0, <2>1, <3>1 DEF LineInv
    <3> QED
      BY <2>1, <2>3, <3>1, <3>2 DEF LineInv
  <2> QED BY <2>2, <2>3
<1>2. ASSUME NEW p \in Prompts, SubmitRefused(p) PROVE LineInv'
  <2>1. Accepted' = Accepted
    BY <1>2 DEF SubmitRefused, Accepted, IInv, TypeOK
  <2> QED
    BY <1>2, <2>1 DEF SubmitRefused, LineInv
<1>3. ASSUME NEW p \in Prompts, Prioritize(p) PROVE LineInv'
  <2>1. Accepted' = Accepted
    BY <1>3, ResolveKeepsAccepted DEF Prioritize
  <2>2. p \in Accepted
    BY <1>3 DEF Prioritize, InQueue, LineInv
  <2>3. queue' = <<p>> /\ queue # <<>> /\ UNCHANGED <<closed, frame, aborted, current>>
    BY <1>0, <1>3 DEF Prioritize, InQueue
  <2> QED
    BY <2>1, <2>2, <2>3 DEF LineInv
<1>4. ASSUME NEW ops \in BeforeDrain, AbortCurrent(ops) PROVE LineInv'
  <2>1. Accepted' = Accepted
    BY <1>4 DEF AbortCurrent, Accepted
  <2> QED
    BY <1>4, <2>1 DEF AbortCurrent, Abort, LineInv
<1>5. ASSUME NEW ops \in BeforeDrain, Clear(ops) \/ Close(ops) PROVE LineInv'
  <2>1. Accepted' = Accepted
    BY <1>5, ResolveKeepsAccepted DEF Clear, Close
  <2>2. queue' = <<>> /\ closed' \in {closed, TRUE} /\ UNCHANGED <<frame, current>>
    BY <1>5 DEF Clear, Close
  <2>3. frame # "idle" => aborted'
    BY <1>5 DEF Clear, Close, Abort
  <2> QED
    BY <2>1, <2>2, <2>3 DEF LineInv
<1>6. ASSUME ClearPending \/ ReleaseAfterTerminalTeardown PROVE LineInv'
  <2>1. CASE ClearPending
    <3>1. Accepted' = Accepted
      BY <2>1, ResolveKeepsAccepted DEF ClearPending
    <3> QED
      BY <2>1, <3>1 DEF ClearPending, LineInv
  <2>2. CASE ReleaseAfterTerminalTeardown
    BY <2>2 DEF ReleaseAfterTerminalTeardown, LineInv, Accepted
  <2> QED BY <1>6, <2>1, <2>2
<1> QED BY <1>1, <1>2, <1>3, <1>4, <1>5, <1>6 DEF OwnerStep

\* Continuations and settlements: only the end of a turn touches the line.
LEMMA OthersKeepLine ==
  ASSUME IInv, LineInv, Continuation \/ ProcessorStep \/ CancelStep
  PROVE  LineInv'
<1>1. ASSUME NEW t \in BOOLEAN, FinishUnaborted(t) PROVE LineInv'
  BY <1>1, SettleKeepsAccepted, DrainNextKeepsLine DEF FinishUnaborted
<1>2. ASSUME FinishAborted PROVE LineInv'
  BY <1>2, SettleKeepsAccepted, DrainNextKeepsLine DEF FinishAborted
<1>3. ASSUME StartProcessor \/ ObserveAgain \/ ProcessorStep \/ CancelStep PROVE LineInv'
  BY <1>3 DEF StartProcessor, ObserveAgain, ProcessorStep, ProcessorSettles, CancelStep,
         CancelSettles, LineInv, Accepted
<1>4. ASSUME EnterCleanup PROVE LineInv'
  BY <1>4 DEF EnterCleanup, LineInv, Accepted
<1> QED BY <1>1, <1>2, <1>3, <1>4 DEF Continuation, ThrowOutcomes

\* Nothing is a selection of every line, and every line is one of itself.
LEMMA EmptySelection ==
  ASSUME NEW t \in Seq(Prompts)
  PROVE  Line!IsSubsequence(<<>>, t)
<1> DEFINE f == [i \in 1..0 |-> i]
<1>1. Len(<<>>) = 0 /\ \A i \in 1..0 : FALSE
  OBVIOUS
<1>2. f \in [1..0 -> 1..Len(t)]
  OBVIOUS
<1> HIDE DEF f
<1> QED BY <1>1, <1>2 DEF Line!IsSubsequence

LEMMA WholeSelection ==
  ASSUME NEW t \in Seq(Prompts)
  PROVE  Line!IsSubsequence(t, t)
<1> DEFINE f == [i \in 1..Len(t) |-> i]
<1>1. f \in [1..Len(t) -> 1..Len(t)]
  OBVIOUS
<1>2. \A i \in 1..Len(t) : t[i] = t[f[i]]
  OBVIOUS
<1>3. \A i, j \in 1..Len(t) : i < j => f[i] < f[j]
  OBVIOUS
<1> QED BY <1>1, <1>2, <1>3 DEF Line!IsSubsequence

\* One item of a line is a selection of it.
LEMMA SingleSelection ==
  ASSUME NEW t \in Seq(Prompts), NEW k \in 1..Len(t)
  PROVE  Line!IsSubsequence(<<t[k]>>, t)
<1> DEFINE f == [i \in 1..1 |-> k]
<1>1. f \in [1..Len(<<t[k]>>) -> 1..Len(t)]
  OBVIOUS
<1>2. \A i \in 1..1 : <<t[k]>>[i] = t[f[i]]
  OBVIOUS
<1>3. \A i, j \in 1..1 : i < j => f[i] < f[j]
  OBVIOUS
<1> QED BY <1>1, <1>2, <1>3 DEF Line!IsSubsequence

\* The line without its head is a selection of it.
LEMMA TailSelection ==
  ASSUME NEW t \in Seq(Prompts), NEW c \in Prompts
  PROVE  Line!IsSubsequence(t, <<c>> \o t)
<1> DEFINE u == <<c>> \o t
           f == [i \in 1..Len(t) |-> i + 1]
<1>1. Len(u) = Len(t) + 1 /\ \A i \in 1..Len(t) : u[i + 1] = t[i]
  OBVIOUS
<1> HIDE DEF u
<1>2. f \in [1..Len(t) -> 1..Len(u)]
  BY <1>1
<1>3. \A i \in 1..Len(t) : t[i] = u[f[i]]
  BY <1>1
<1>4. \A i, j \in 1..Len(t) : i < j => f[i] < f[j]
  OBVIOUS
<1>5. Line!IsSubsequence(t, u)
  BY <1>2, <1>3, <1>4 DEF Line!IsSubsequence
<1> QED BY <1>5 DEF u

\* The same head may stand before a selection and before its line.
LEMMA PrefixedSelection ==
  ASSUME NEW s \in Seq(Prompts), NEW t \in Seq(Prompts), NEW c \in Prompts, Line!IsSubsequence(s, t)
  PROVE  Line!IsSubsequence(<<c>> \o s, <<c>> \o t)
<1> DEFINE u == <<c>> \o s
           v == <<c>> \o t
<1>1. PICK f \in [1..Len(s) -> 1..Len(t)] :
        /\ \A i \in 1..Len(s) : s[i] = t[f[i]]
        /\ \A i, j \in 1..Len(s) : i < j => f[i] < f[j]
  BY DEF Line!IsSubsequence
<1>2. /\ Len(u) = Len(s) + 1 /\ Len(v) = Len(t) + 1 /\ Len(s) \in Nat /\ Len(t) \in Nat
      /\ u[1] = c /\ v[1] = c
      /\ \A i \in 2..Len(u) : i - 1 \in 1..Len(s) /\ u[i] = s[i - 1]
      /\ \A i \in 1..Len(t) : v[i + 1] = t[i]
  OBVIOUS
<1> HIDE DEF u, v
<1> DEFINE g == [i \in 1..Len(u) |-> IF i = 1 THEN 1 ELSE f[i - 1] + 1]
<1>3. \A i \in 2..Len(u) : /\ g[i] = f[i - 1] + 1 /\ f[i - 1] \in 1..Len(t)
                            /\ i - 1 \in 1..Len(s) /\ u[i] = s[i - 1]
  <2> SUFFICES ASSUME NEW i \in 2..Len(u)
               PROVE  /\ g[i] = f[i - 1] + 1 /\ f[i - 1] \in 1..Len(t)
                      /\ i - 1 \in 1..Len(s) /\ u[i] = s[i - 1]
    OBVIOUS
  <2>1. i \in 1..Len(u) /\ i # 1 /\ i - 1 \in 1..Len(s)
    BY <1>2
  <2>2. f[i - 1] \in 1..Len(t)
    BY <2>1
  <2> QED BY <1>2, <2>1, <2>2
<1>4. 1 \in 1..Len(u) /\ g[1] = 1 /\ \A i \in 1..Len(u) : i = 1 \/ i \in 2..Len(u)
  BY <1>2
<1>5. g \in [1..Len(u) -> 1..Len(v)]
  <2>1. g[1] \in 1..Len(v)
    BY <1>2, <1>4
  <2>2. \A i \in 2..Len(u) : g[i] \in 1..Len(v)
    <3> HIDE DEF g
    <3> SUFFICES ASSUME NEW i \in 2..Len(u) PROVE g[i] \in 1..Len(v)
      OBVIOUS
    <3>1. g[i] = f[i - 1] + 1 /\ f[i - 1] \in 1..Len(t)
      BY <1>3
    <3> QED BY <1>2, <3>1
  <2>3. \A i \in 1..Len(u) : g[i] \in 1..Len(v)
    <3> HIDE DEF g
    <3> QED BY <1>4, <2>1, <2>2
  <2> QED BY <2>3
<1> HIDE DEF g
<1>6. ASSUME NEW i \in 1..Len(u) PROVE u[i] = v[g[i]]
  <2>1. CASE i = 1
    BY <1>2, <1>4, <2>1
  <2>2. CASE i \in 2..Len(u)
    <3>1. u[i] = t[f[i - 1]]
      BY <1>1, <1>3, <2>2
    <3>2. v[f[i - 1] + 1] = t[f[i - 1]]
      BY <1>2, <1>3, <2>2
    <3> QED BY <1>3, <2>2, <3>1, <3>2
  <2> QED BY <1>4, <2>1, <2>2
<1>7. ASSUME NEW i \in 1..Len(u), NEW j \in 1..Len(u), i < j PROVE g[i] < g[j]
  <2>0. j \in 2..Len(u)
    BY <1>2, <1>7
  <2>1. CASE i = 1
    <3>1. g[j] = f[j - 1] + 1 /\ f[j - 1] \in 1..Len(t)
      BY <1>3, <2>0
    <3> QED BY <1>2, <1>4, <2>1, <3>1
  <2>2. CASE i \in 2..Len(u)
    <3>1. f[i - 1] < f[j - 1]
      <4>1. i - 1 \in 1..Len(s) /\ j - 1 \in 1..Len(s)
        BY <1>3, <2>0, <2>2
      <4>2. i - 1 < j - 1
        BY <1>2, <1>7
      <4> QED BY <1>1, <4>1, <4>2
    <3>2. /\ g[i] = f[i - 1] + 1 /\ f[i - 1] \in 1..Len(t)
          /\ g[j] = f[j - 1] + 1 /\ f[j - 1] \in 1..Len(t)
      BY <1>3, <2>0, <2>2
    <3> QED BY <1>2, <3>1, <3>2
  <2> QED BY <1>4, <2>1, <2>2
<1>8. Line!IsSubsequence(u, v)
  BY <1>5, <1>6, <1>7 DEF Line!IsSubsequence
<1> QED BY <1>8 DEF u, v

\* The abstract line is a sequence, and only changes with what it is made of.
LEMMA WaitingTyped ==
  ASSUME IInv
  PROVE  Waiting \in Seq(Prompts)
<1>1. CASE current # NoPrompt /\ proc[current] = "scheduled"
  <2>1. <<current>> \in Seq(Prompts)
    BY <1>1 DEF IInv, TypeOK
  <2> QED BY <1>1, <2>1 DEF Waiting, IInv, TypeOK
<1>2. CASE ~(current # NoPrompt /\ proc[current] = "scheduled")
  BY <1>2 DEF Waiting, IInv, TypeOK
<1> QED BY <1>1, <1>2

\* What the mapping makes of the variables: a step that changes none of these
\* is a stutter of the line.
LEMMA StutterSeen ==
  ASSUME UNCHANGED <<Waiting, RunningPrompt, Accepted, closed>>
  PROVE  UNCHANGED Line!lineVars
BY DEF Line!lineVars, Waiting, Accepted

\* The running prompt is the one there is, before and after a step.
LEMMA RunningIsUnique ==
  ASSUME SerialExecution
  PROVE  /\ \A p \in Prompts : proc[p] = "running" => RunningPrompt = p
         /\ (\A p \in Prompts : proc[p] # "running") => RunningPrompt = NoPrompt
BY DEF RunningPrompt, SerialExecution

LEMMA RunningStaysUnique ==
  ASSUME SerialExecution'
  PROVE  /\ \A p \in Prompts : proc'[p] = "running" => RunningPrompt' = p
         /\ (\A p \in Prompts : proc'[p] # "running") => RunningPrompt' = NoPrompt
BY DEF RunningPrompt, SerialExecution

\* A frame opens in silence, and its prompt goes to the head of the line.
LEMMA OpenFrameSeen ==
  ASSUME IInv, IInv', Quiet, NEW p \in Prompts, NEW d \in BOOLEAN, OpenFrame(p, d)
  PROVE  Waiting' = <<p>> \o queue' /\ RunningPrompt' = RunningPrompt
<1>1. proc \in [Prompts -> Procs] /\ proc' = [proc EXCEPT ![p] = "scheduled"] /\ current' = p
  BY DEF OpenFrame, IInv, TypeOK
<1>2. \A q \in Prompts : proc[q] # "running" /\ proc'[q] # "running"
  BY <1>1 DEF Quiet
<1>3. RunningPrompt' = NoPrompt /\ RunningPrompt = NoPrompt
  BY <1>2, RunningIsUnique, RunningStaysUnique DEF IInv
<1>4. current' # NoPrompt /\ proc'[current'] = "scheduled"
  BY <1>1
<1> QED BY <1>1, <1>3, <1>4 DEF Waiting

\* A submission joins at the end of the line.
LEMMA SubmitSeen ==
  ASSUME IInv, IInv', LineInv, NEW p \in Prompts, Submit(p)
  PROVE  Line!Join(p)
<1>1. ~closed /\ closed' = closed /\ p \notin Accepted /\ Accepted' = Accepted \cup {p}
  BY DEF Submit, Accepted, IInv, TypeOK
<1>2. Waiting' = Append(Waiting, p) /\ RunningPrompt' = RunningPrompt
  <2>1. CASE frame = "idle"
    <3>1. Quiet
      BY <2>1 DEF IInv, TypeOK, Submit, OwnedProcessors, OwnedCancellations, Quiet, Procs
    <3>2. OpenFrame(p, FALSE) /\ queue = <<>> /\ queue' = <<>> /\ current = NoPrompt
      BY <2>1 DEF Submit, LineInv, IInv, TypeOK
    <3>3. Waiting = <<>>
      BY <3>2 DEF Waiting
    <3>4. Waiting' = <<p>> \o <<>> /\ RunningPrompt' = RunningPrompt
      BY <3>1, <3>2, OpenFrameSeen
    <3> QED BY <3>3, <3>4
  <2>2. CASE frame # "idle"
    <3>1. queue' = Append(queue, p) /\ UNCHANGED <<current, proc>>
      BY <2>2 DEF Submit
    <3>2. RunningPrompt' = RunningPrompt
      BY <3>1 DEF RunningPrompt
    <3>3. CASE current # NoPrompt /\ proc[current] = "scheduled"
      <4>1. current \in Prompts /\ queue \in Seq(Prompts)
        BY <3>3 DEF IInv, TypeOK
      <4>2. <<current>> \o Append(queue, p) = Append(<<current>> \o queue, p)
        BY <4>1
      <4> QED BY <3>1, <3>2, <3>3, <4>2 DEF Waiting
    <3>4. CASE ~(current # NoPrompt /\ proc[current] = "scheduled")
      BY <3>1, <3>2, <3>4 DEF Waiting
    <3> QED BY <3>3, <3>4
  <2> QED BY <2>1, <2>2
<1> QED BY <1>1, <1>2 DEF Line!Join, Waiting, Accepted

\* Dropping pending items selects from the line, whoever stands at its head.
LEMMA SelectionSeen ==
  ASSUME IInv, queue' \in Seq(Prompts), Line!IsSubsequence(queue', queue), UNCHANGED <<current, proc>>
  PROVE  Line!IsSubsequence(Waiting', Waiting) /\ RunningPrompt' = RunningPrompt
<1>1. RunningPrompt' = RunningPrompt
  BY DEF RunningPrompt
<1>2. CASE current # NoPrompt /\ proc[current] = "scheduled"
  <2>1. current \in Prompts /\ queue \in Seq(Prompts)
    BY <1>2 DEF IInv, TypeOK
  <2>2. Waiting = <<current>> \o queue /\ Waiting' = <<current>> \o queue'
    BY <1>2 DEF Waiting
  <2>3. Line!IsSubsequence(<<current>> \o queue', <<current>> \o queue)
    BY <2>1, PrefixedSelection
  <2> QED BY <1>1, <2>2, <2>3
<1>3. CASE ~(current # NoPrompt /\ proc[current] = "scheduled")
  <2>1. Waiting = queue /\ Waiting' = queue'
    BY <1>3 DEF Waiting
  <2> QED BY <1>1, <2>1
<1> QED BY <1>2, <1>3

\* The owner's other calls discard items of the line, or are not seen at all.
LEMMA OwnerSeen ==
  ASSUME IInv, IInv', LineInv, OwnerStep
  PROVE  [Line!Next]_(Line!lineVars)
<1>0. queue \in Seq(Prompts) /\ <<>> \in Seq(Prompts)
  BY DEF IInv, TypeOK
<1> DEFINE Dropped == /\ Line!IsSubsequence(queue', queue) /\ queue' \in Seq(Prompts)
                      /\ closed' \in {closed, TRUE} /\ Accepted' = Accepted
                      /\ UNCHANGED <<current, proc>>
           Unseen == UNCHANGED <<queue, current, proc, closed>> /\ Accepted' = Accepted
<1>1. ASSUME NEW p \in Prompts, Submit(p) PROVE Line!Next
  BY <1>1, SubmitSeen DEF Line!Next
<1>2. ASSUME NEW p \in Prompts, Prioritize(p) PROVE Dropped
  <2>1. PICK k \in 1..Len(queue) : queue[k] = p
    BY <1>2 DEF Prioritize, InQueue
  <2>2. Line!IsSubsequence(<<queue[k]>>, queue)
    BY <1>0, SingleSelection
  <2>3. queue' = <<queue[k]>> /\ queue' \in Seq(Prompts)
    BY <1>2, <2>1 DEF Prioritize
  <2>4. UNCHANGED <<closed, current, proc>> /\ ResolveAll(PendingSet \ {p})
    BY <1>2 DEF Prioritize
  <2>5. Accepted' = Accepted
    BY <2>4, ResolveKeepsAccepted
  <2> QED BY <2>2, <2>3, <2>4, <2>5
<1>3. ASSUME NEW ops \in BeforeDrain, Clear(ops) \/ Close(ops) PROVE Dropped
  <2>1. queue' = <<>> /\ closed' \in {closed, TRUE} /\ UNCHANGED <<current, proc>>
    BY <1>3 DEF Clear, Close
  <2>2. Accepted' = Accepted
    BY <1>3, ResolveKeepsAccepted DEF Clear, Close
  <2> QED BY <1>0, <2>1, <2>2, EmptySelection
<1>4. ASSUME ClearPending PROVE Dropped
  <2>1. queue' = <<>> /\ UNCHANGED <<closed, current, proc>>
    BY <1>4 DEF ClearPending
  <2>2. Accepted' = Accepted
    BY <1>4, ResolveKeepsAccepted DEF ClearPending
  <2> QED BY <1>0, <2>1, <2>2, EmptySelection
<1>5. ASSUME NEW ops \in BeforeDrain, AbortCurrent(ops) PROVE Unseen
  BY <1>5 DEF AbortCurrent, Accepted
<1>6. ASSUME NEW p \in Prompts, SubmitRefused(p) PROVE Unseen
  BY <1>6 DEF SubmitRefused, Accepted, IInv, TypeOK
<1>7. ASSUME ReleaseAfterTerminalTeardown PROVE Unseen
  BY <1>7 DEF ReleaseAfterTerminalTeardown, Accepted
<1>8. Line!Next \/ Dropped \/ Unseen
  <2> HIDE DEF Dropped, Unseen
  <2> QED BY <1>1, <1>2, <1>3, <1>4, <1>5, <1>6, <1>7 DEF OwnerStep
<1>9. CASE Dropped
  <2>1. Line!IsSubsequence(Waiting', Waiting) /\ RunningPrompt' = RunningPrompt
    BY <1>9, SelectionSeen
  <2>2. Line!Discard
    BY <1>9, <2>1 DEF Line!Discard, Waiting, Accepted
  <2> QED BY <2>2 DEF Line!Next
<1>10. CASE Unseen
  <2>1. UNCHANGED <<Waiting, RunningPrompt, Accepted, closed>>
    BY <1>10 DEF Waiting, RunningPrompt
  <2> QED BY <2>1, StutterSeen
<1> QED BY <1>8, <1>9, <1>10

\* The microtask serves the head of the line, or drops it when it was aborted.
LEMMA StartSeen ==
  ASSUME IInv, IInv', LineInv, StartProcessor
  PROVE  Line!Next
<1>1. /\ current \in Prompts /\ queue \in Seq(Prompts) /\ proc \in [Prompts -> Procs]
      /\ frame # "idle" /\ proc[current] = "scheduled" /\ UNCHANGED <<queue, closed, current>>
      /\ Accepted' = Accepted
  BY DEF StartProcessor, IInv, TypeOK, Accepted
<1>2. proc' = [proc EXCEPT ![current] = IF aborted THEN "rejected" ELSE "running"]
  BY DEF StartProcessor
<1>3. \A p \in Prompts : proc[p] # "running"
  BY <1>1 DEF IInv, OwnedProcessors
<1>4. Waiting = <<current>> \o queue /\ Waiting' = queue /\ RunningPrompt = NoPrompt
  BY <1>1, <1>2, <1>3, RunningIsUnique DEF Waiting, IInv
<1>5. CASE aborted
  <2>1. RunningPrompt' = NoPrompt
    BY <1>1, <1>2, <1>3, <1>5, RunningStaysUnique DEF IInv
  <2>2. Line!IsSubsequence(Waiting', Waiting)
    BY <1>1, <1>4, TailSelection
  <2>3. Line!Discard
    BY <1>1, <1>4, <2>1, <2>2 DEF Line!Discard, Waiting, Accepted
  <2> QED BY <2>3 DEF Line!Next
<1>6. CASE ~aborted
  <2>1. RunningPrompt' = current
    BY <1>1, <1>2, <1>6, RunningStaysUnique DEF IInv
  <2>2. ~closed
    BY <1>1, <1>6 DEF LineInv
  <2>3. Waiting # <<>> /\ Head(Waiting) = current /\ Tail(Waiting) = queue
    BY <1>1, <1>4
  <2>4. Line!Serve
    BY <1>1, <1>4, <2>1, <2>2, <2>3 DEF Line!Serve, Waiting, Accepted
  <2> QED BY <2>4 DEF Line!Next
<1> QED BY <1>5, <1>6

\* The agent's answer makes the running prompt leave.
LEMMA SettlesSeen ==
  ASSUME IInv, IInv', NEW p \in Prompts, NEW v \in {"resolved", "rejected"}, ProcessorSettles(p, v)
  PROVE  Line!Next
<1>1. /\ proc \in [Prompts -> Procs] /\ proc[p] = "running" /\ proc' = [proc EXCEPT ![p] = v]
      /\ UNCHANGED <<queue, closed, current, caller>>
  BY DEF ProcessorSettles, IInv, TypeOK
<1>2. RunningPrompt = p
  BY <1>1, RunningIsUnique DEF IInv
<1>3. \A q \in Prompts : proc'[q] # "running"
  BY <1>1 DEF IInv, SerialExecution
<1>4. RunningPrompt' = NoPrompt
  BY <1>3, RunningStaysUnique DEF IInv
<1>5. Waiting' = Waiting /\ Accepted' = Accepted
  <2>1. current # NoPrompt => current \in Prompts
    BY DEF IInv, TypeOK
  <2>2. \A q \in Prompts : proc'[q] = "scheduled" <=> proc[q] = "scheduled"
    BY <1>1
  <2> QED BY <1>1, <2>1, <2>2 DEF Waiting, Accepted
<1>6. Line!Leave
  BY <1>1, <1>2, <1>4, <1>5 DEF Line!Leave, Waiting, Accepted
<1> QED BY <1>6 DEF Line!Next

\* The end of a turn moves the next item from the queue to its frame, which
\* the line does not show.
LEMMA DrainNextSeen ==
  ASSUME IInv, IInv', LineInv, frame # "idle", proc[current] # "scheduled",
         Quiet \/ closed, DrainNext
  PROVE  Waiting' = Waiting /\ RunningPrompt' = RunningPrompt
<1>1. Waiting = queue
  BY DEF Waiting
<1>2. CASE closed \/ queue = <<>>
  <2>1. queue' = queue /\ current' = NoPrompt /\ proc' = proc
    BY <1>2 DEF DrainNext, CloseFrame
  <2> QED BY <1>1, <2>1 DEF Waiting, RunningPrompt
<1>3. CASE ~closed /\ queue # <<>>
  <2>1. OpenFrame(Head(queue), TRUE) /\ queue' = Tail(queue) /\ Quiet
    BY <1>3 DEF DrainNext
  <2>2. Head(queue) \in Prompts /\ <<Head(queue)>> \o Tail(queue) = queue
    BY <1>3 DEF IInv, TypeOK
  <2>3. Waiting' = <<Head(queue)>> \o queue' /\ RunningPrompt' = RunningPrompt
    BY <2>1, <2>2, OpenFrameSeen
  <2> QED BY <1>1, <2>1, <2>2, <2>3
<1> QED BY <1>2, <1>3

\* The other continuations, and settled cancellations, are not seen.
LEMMA TurnSeen ==
  ASSUME IInv, IInv', LineInv, (Continuation /\ ~StartProcessor) \/ CancelStep
  PROVE  UNCHANGED Line!lineVars
<1>1. ASSUME NEW t \in BOOLEAN, FinishUnaborted(t)
      PROVE  UNCHANGED <<Waiting, RunningPrompt, Accepted, closed>>
  <2>1. Quiet /\ proc[current] # "scheduled"
    BY <1>1 DEF IInv, TypeOK, FinishUnaborted, ProcSettled, OwnedProcessors, OwnedCancellations, Quiet, Procs
  <2>2. frame # "idle" /\ SettleCaller(t) /\ DrainNext /\ closed' = closed
    BY <1>1 DEF FinishUnaborted
  <2> QED BY <2>1, <2>2, DrainNextSeen, SettleKeepsAccepted
<1>2. ASSUME FinishAborted
      PROVE  UNCHANGED <<Waiting, RunningPrompt, Accepted, closed>>
  <2>1. frame = "cleanup" /\ SettleCaller(FALSE) /\ DrainNext /\ closed' = closed
    BY <1>2 DEF FinishAborted
  <2>2. proc[current] # "scheduled"
    BY <2>1 DEF IInv, OwnedProcessors
  <2>3. CASE CleanupObserved
    <3>1. \A p \in Prompts : proc[p] \in {"none", "resolved", "rejected"}
      BY <2>1, <2>3 DEF CleanupObserved, ProcSettled, IInv, TypeOK, OwnedProcessors, Procs
    <3>2. \A o \in CancelOps : op[o] # "pending"
      BY <2>1, <2>3 DEF CleanupObserved, OpsSettled, IInv, OwnedCancellations
    <3> QED BY <3>1, <3>2, <2>1, <2>2, DrainNextSeen, SettleKeepsAccepted DEF Quiet
  <2>4. CASE released
    BY <2>1, <2>2, <2>4, DrainNextSeen, SettleKeepsAccepted DEF IInv, OnlyClosedReleases
  <2> QED BY <1>2, <2>3, <2>4 DEF FinishAborted
<1>3. ASSUME EnterCleanup \/ ObserveAgain \/ CancelStep
      PROVE  UNCHANGED <<Waiting, RunningPrompt, Accepted, closed>>
  <2>1. UNCHANGED <<queue, current, proc, caller, closed>>
    BY <1>3 DEF EnterCleanup, ObserveAgain, CancelStep, CancelSettles
  <2> QED BY <2>1 DEF Waiting, RunningPrompt, Accepted
<1>4. UNCHANGED <<Waiting, RunningPrompt, Accepted, closed>>
  BY <1>1, <1>2, <1>3 DEF Continuation, ThrowOutcomes
<1> QED BY <1>4, StutterSeen

\* The line's invariant is inductive together with the queue's.
LEMMA LineInvariance == Spec => []LineInv
<1>1. QueueInit => LineInv
  BY DEF QueueInit, LineInv
<1>2. IInv /\ LineInv /\ [QueueNext]_queueVars => LineInv'
  <2> SUFFICES ASSUME IInv, LineInv, [QueueNext]_queueVars PROVE LineInv'
    OBVIOUS
  <2>1. CASE UNCHANGED queueVars
    BY <2>1 DEF queueVars, LineInv, Accepted
  <2> QED BY <2>1, OwnerKeepsLine, OthersKeepLine DEF QueueNext
<1> QED BY <1>1, <1>2, InductiveInvariant, PTL DEF Spec

\* Prompts reach the agent one at a time, each at most once and in the order of
\* their submission, and none after close(): every step of the queue is a step
\* of PromptLine or is not seen by it.
THEOREM Refinement == Spec => ImplementsPromptLine
<1>1. QueueInit => Line!Init
  <2> SUFFICES ASSUME QueueInit PROVE Line!Init
    OBVIOUS
  <2>1. RunningPrompt = NoPrompt /\ Accepted = {}
    BY DEF QueueInit, RunningPrompt, Accepted
  <2> QED BY <2>1 DEF QueueInit, Accepted, Line!Init
<1>2. IInv /\ IInv' /\ LineInv /\ [QueueNext]_queueVars => [Line!Next]_(Line!lineVars)
  <2> SUFFICES ASSUME IInv, IInv', LineInv, [QueueNext]_queueVars PROVE [Line!Next]_(Line!lineVars)
    OBVIOUS
  <2>1. CASE UNCHANGED queueVars
    <3>1. UNCHANGED <<Waiting, RunningPrompt, Accepted, closed>>
      BY <2>1 DEF queueVars, Waiting, RunningPrompt, Accepted
    <3> QED BY <3>1, StutterSeen
  <2>2. CASE OwnerStep
    BY <2>2, OwnerSeen
  <2>3. CASE StartProcessor
    BY <2>3, StartSeen
  <2>4. CASE ProcessorStep
    BY <2>4, SettlesSeen DEF ProcessorStep
  <2>5. CASE (Continuation /\ ~StartProcessor) \/ CancelStep
    BY <2>5, TurnSeen
  <2> QED BY <2>1, <2>2, <2>3, <2>4, <2>5 DEF QueueNext
<1> QED BY <1>1, <1>2, InductiveInvariant, LineInvariance, PTL DEF Spec, ImplementsPromptLine, Line!Spec
=============================================================================
