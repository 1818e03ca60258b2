--------------------------- MODULE TerminalDelivery ---------------------------
(***************************************************************************)
(* How one session ends: the completion event an agent emits travels       *)
(* through one dispatch per connected bridge (session-bridge.ts), the      *)
(* first bridge to handle it ends the session and snapshots the recipients *)
(* of the terminal delivery (session.ts), every recipient persists,        *)
(* publishes, sends and notifies, and the last one lets the manager tear   *)
(* the session down (session-manager.ts).  A cancellation, a shutdown, a   *)
(* detached adapter and a failing disk may cut in at every await.          *)
(*                                                                         *)
(* A mutation of the session record is one entry of the per-session FIFO   *)
(* of withRecordMutation(); "rec" is the working record of the store and   *)
(* "disk" the durable one.                                                 *)
(***************************************************************************)
EXTENDS Naturals, Sequences, FiniteSets

CONSTANTS
  Bridges,       \* the adapters that may be attached, one bridge each
  Primary,       \* the adapter of the session's channel: it cannot be detached
  Starts,        \* the sets of bridges that may be connected at the start
  Events,        \* the session_end events the agent may emit
  AllowAttach,   \* whether adapters may be attached
  AllowDetach,   \* whether secondary adapters may be detached
  AllowBlock,    \* whether middleware may block a session_end event
  AllowIoError,  \* whether a write of the store may fail
  AllowCancel,   \* whether the session may be cancelled
  AllowShutdown  \* whether the manager may shut down

ASSUME BridgesAssumption ==
  IsFiniteSet(Bridges) /\ Starts \subseteq SUBSET Bridges
ASSUME SwitchesAssumption ==
  {AllowAttach, AllowDetach, AllowBlock, AllowIoError, AllowCancel,
   AllowShutdown} \subseteq BOOLEAN

VARIABLES
  status, terminating,         \* Session._status, Session.isTerminating
  inMap, teardown, closing,    \* SessionManager: live identity, sessionTeardownOps, _closing
  conn,                        \* bridges that are connected and owned by the core
  registered,                  \* Session._connectedBridgeIds
  emitted,                     \* session_end events emitted so far
  inMiddleware,                \* <<bridge, event>> awaiting AGENT_BEFORE_EVENT
  stage,                       \* what deliverTerminalEvent() of a bridge awaits
  headless,                    \* the dispatch used when no bridge is connected
  begun, recipients, claimed, completed, aborted,   \* Session._terminalDelivery
  durability, published, notified,
  rec, disk, mutations,        \* the session record and its mutation queue
  cancel, awaitsDelivery, winner, alreadyTerminal   \* performCancelSession()

sessionVars  == <<status, terminating>>
managerVars  == <<inMap, teardown, closing>>
bridgeVars   == <<conn, registered>>
dispatchVars == <<emitted, inMiddleware, stage, headless>>
deliveryVars == <<begun, recipients, claimed, completed, aborted,
                  durability, published, notified>>
storeVars    == <<rec, disk, mutations>>
cancelVars   == <<cancel, awaitsDelivery, winner, alreadyTerminal>>
vars == <<sessionVars, managerVars, bridgeVars, dispatchVars, deliveryVars,
          storeVars, cancelVars>>

Statuses   == {"active", "finished", "cancelled"}
Stages     == {"idle", "durability", "skills", "outgoing", "send", "notify"}
Mutations  == {"status", "direct", "terminal", "headless", "cancel", "shutdown"}

Init ==
  /\ status = "active" /\ terminating = FALSE
  /\ inMap = TRUE /\ teardown = "none" /\ closing = "no"
  /\ conn \in Starts /\ registered = conn
  /\ emitted = {} /\ inMiddleware = {} /\ headless = "none"
  /\ stage = [b \in Bridges |-> "idle"]
  /\ begun = FALSE /\ recipients = {} /\ claimed = {} /\ completed = {}
  /\ aborted = FALSE /\ durability = "none" /\ published = FALSE /\ notified = FALSE
  /\ rec = "active" /\ disk = "active" /\ mutations = <<>>
  /\ cancel = "idle" /\ awaitsDelivery = FALSE /\ winner = "none"
  /\ alreadyTerminal = FALSE

Live          == inMap /\ ~terminating
Terminal(s)   == s \in {"finished", "cancelled"}
Resolved      == begun /\ (aborted \/ completed = recipients)
IsRecipient(b) == begun /\ ~aborted /\ b \in recipients \ completed

\* canHandleAgentEvent() for a session_end event.
CanHandle(b) ==
  /\ b \in conn /\ inMap
  /\ (~terminating /\ status = "active") \/ IsRecipient(b)

IsCurrentTerminalBridge(b) ==
  b \in conn /\ inMap /\ closing = "no" /\ IsRecipient(b)

(***************************************************************************)
(* The synchronous effects shared by the handlers.                         *)
(***************************************************************************)
\* disconnect() forgets to unregister the bridge from its session.
MutantStaysRegistered(S, done) ==
  /\ conn' = conn \ S /\ UNCHANGED registered
  /\ completed' = IF aborted THEN completed ELSE completed \cup (recipients \cap done)

\* disconnect() of the bridges in S, whose unregisterBridge() completes their
\* part of the barrier, together with completeTerminalDelivery() for "done".
Release(S, done) ==
  /\ conn' = conn \ S /\ registered' = registered \ S
  /\ completed' = IF aborted THEN completed
                  ELSE completed \cup (recipients \cap (S \cup done))

\* startSessionTeardown(): joins a pending teardown, starts or retries otherwise.
StartTeardown(removeLiveIdentity, done) ==
  IF teardown = "pending"
  THEN /\ inMap' = (inMap /\ ~removeLiveIdentity)
       /\ Release(IF removeLiveIdentity /\ inMap THEN conn ELSE {}, done)
       /\ UNCHANGED <<terminating, teardown>>
  ELSE /\ terminating' = TRUE /\ teardown' = "pending"
       /\ inMap' = (inMap /\ ~removeLiveIdentity)
       /\ Release(conn, done)

\* finalizeFinishedSession(): only for the current identity or an owned teardown.
Finalize(done) ==
  IF inMap \/ teardown \in {"pending", "failed"}
  THEN StartTeardown(TRUE, done)
  ELSE Release({}, done) /\ UNCHANGED <<terminating, teardown, inMap>>

\* The first bridge to finish tears the session down.
MutantFirstBridgeFinalizes(b) == Finalize({b})

\* The delivery ends without completing the bridge's part of the barrier.
MutantForgetsCompletion(b) == Release({}, {}) /\ UNCHANGED <<terminating, teardown, inMap>>

\* The last bridge completes the barrier and nobody acts on it.
MutantNeverFinalizes(b) == Release({}, {b}) /\ UNCHANGED <<terminating, teardown, inMap>>

\* The finally block of deliverTerminalEvent(): only the bridge that completes
\* the barrier finalizes the session.
CompleteDelivery(b) ==
  IF ~aborted /\ b \in recipients /\ completed \cup {b} = recipients
  THEN Finalize({b})
  ELSE Release({}, {b}) /\ UNCHANGED <<terminating, teardown, inMap>>

MoveTo(b, s) == stage' = [stage EXCEPT ![b] = s]

(***************************************************************************)
(* The completion event.                                                   *)
(***************************************************************************)
\* One dispatch per connected bridge; without a registered bridge the core's
\* own headless listener claims the event.
AgentEnds(e) ==
  /\ e \notin emitted /\ teardown # "done"
  /\ emitted' = emitted \cup {e}
  /\ inMiddleware' = inMiddleware \cup {<<b, e>> : b \in {c \in Bridges : CanHandle(c)}}
  /\ headless' = IF registered = {} /\ Live /\ status = "active" /\ headless = "none"
                 THEN "middleware" ELSE headless
  /\ UNCHANGED <<sessionVars, managerVars, bridgeVars, stage, deliveryVars,
                 storeVars, cancelVars>>

\* beginTerminalDelivery() of the session, by the first bridge that handles the
\* event: finish(), the recipients, and the status patches of the bridges.
BeginDelivery ==
  IF begun
  THEN UNCHANGED <<begun, recipients, status, mutations>>
  ELSE /\ begun' = TRUE /\ recipients' = registered /\ status' = "finished"
       /\ mutations' = Append(mutations, "status")

\* claimTerminalDelivery(): one delivery per recipient, whatever the number of events.
Claim(b) ==
  IF b \in recipients' /\ b \notin claimed /\ ~aborted
  THEN /\ claimed' = claimed \cup {b} /\ MoveTo(b, "durability")
       /\ durability' = IF durability = "none" THEN "deferred" ELSE durability
  ELSE UNCHANGED <<claimed, stage, durability>>

EventPasses(b, e) ==
  /\ <<b, e>> \in inMiddleware
  /\ inMiddleware' = inMiddleware \ {<<b, e>>}
  /\ IF CanHandle(b)
     THEN BeginDelivery /\ Claim(b)
     ELSE UNCHANGED <<begun, recipients, status, mutations, claimed, stage, durability>>
  /\ UNCHANGED <<terminating, managerVars, bridgeVars, emitted, headless, completed,
                 aborted, published, notified, rec, disk, cancelVars>>

\* A middleware handler returned null: the dispatch of this bridge ends.
EventBlocked(b, e) ==
  /\ AllowBlock /\ <<b, e>> \in inMiddleware
  /\ inMiddleware' = inMiddleware \ {<<b, e>>}
  /\ UNCHANGED <<sessionVars, managerVars, bridgeVars, emitted, stage, headless,
                 deliveryVars, storeVars, cancelVars>>

\* ensureTerminalDurability(): the shared promise enqueues one immediate patch.
PersistTerminal ==
  /\ durability = "deferred" /\ durability' = "queued"
  /\ mutations' = Append(mutations, "terminal")
  /\ UNCHANGED <<sessionVars, managerVars, bridgeVars, dispatchVars, begun, recipients,
                 claimed, completed, aborted, published, notified, rec, disk, cancelVars>>

\* The patch could not be saved: the first bridge to observe it aborts the
\* delivery and releases the bridges, and the session stays finished.
DurabilityFailed(b) ==
  /\ stage[b] = "durability" /\ durability = "failed"
  /\ MoveTo(b, "idle") /\ aborted' = TRUE
  /\ IF aborted
     THEN UNCHANGED <<claimed, completed, bridgeVars>>
     ELSE /\ claimed' = {} /\ completed' = recipients
          /\ IF inMap THEN conn' = {} /\ registered' = {} ELSE UNCHANGED bridgeVars
  /\ UNCHANGED <<sessionVars, managerVars, emitted, inMiddleware, headless, begun,
                 recipients, durability, published, notified, storeVars, cancelVars>>

\* The steps of deliverTerminalEvent() after each other: what is claimed when
\* the step before succeeded, and what is awaited next.
Advance(b) ==
  \/ /\ stage[b] = "durability" /\ durability = "ok"
     /\ MoveTo(b, "skills") /\ UNCHANGED <<published, notified>>
  \/ /\ stage[b] = "skills" /\ published' = TRUE
     /\ MoveTo(b, "outgoing") /\ UNCHANGED notified
  \/ /\ stage[b] = "outgoing" /\ MoveTo(b, "send") /\ UNCHANGED <<published, notified>>
  \/ /\ stage[b] \in {"send", "outgoing"} /\ ~notified   \* "outgoing": message blocked
     /\ notified' = TRUE /\ MoveTo(b, "notify") /\ UNCHANGED published

DeliveryStep(b) ==
  /\ IsCurrentTerminalBridge(b) /\ Advance(b)
  /\ UNCHANGED <<sessionVars, managerVars, bridgeVars, emitted, inMiddleware, headless,
                 begun, recipients, claimed, completed, aborted, durability,
                 storeVars, cancelVars>>

\* A step was the last one, failed, timed out, or found the bridge superseded.
DeliveryEnds(b) ==
  /\ stage[b] # "idle" /\ (stage[b] = "durability" => durability = "ok")
  /\ stage[b] = "durability" => ~IsCurrentTerminalBridge(b)
  /\ MoveTo(b, "idle") /\ CompleteDelivery(b)
  /\ UNCHANGED <<status, closing, emitted, inMiddleware, headless, begun, recipients,
                 claimed, aborted, durability, published, notified, storeVars, cancelVars>>

(***************************************************************************)
(* The headless dispatch of core.ts.                                       *)
(***************************************************************************)
HeadlessPasses ==
  /\ headless = "middleware"
  /\ UNCHANGED <<closing, emitted, inMiddleware, stage, begun, recipients, claimed,
                 aborted, durability, notified, rec, disk, cancelVars>>
  /\ IF ~Live \/ status # "active"
     THEN headless' = "none" /\ UNCHANGED <<sessionVars, inMap, teardown, bridgeVars,
                                            completed, published, mutations>>
     ELSE /\ status' = "finished"
          /\ IF registered = {}
             THEN \* the status listener of core.ts, then the immediate patch
                  /\ headless' = "persisting"
                  /\ mutations' = mutations \o <<"status", "headless">>
                  /\ UNCHANGED <<terminating, inMap, teardown, bridgeVars, completed, published>>
             ELSE \* a bridge was attached meanwhile: its own listener persists
                  /\ headless' = "none" /\ published' = TRUE
                  /\ mutations' = Append(mutations, "direct")
                  /\ Finalize({})

HeadlessBlocked ==
  /\ AllowBlock /\ headless = "middleware" /\ headless' = "none"
  /\ UNCHANGED <<sessionVars, managerVars, bridgeVars, emitted, inMiddleware, stage,
                 deliveryVars, storeVars, cancelVars>>

HeadlessPersisted ==
  /\ headless \in {"persisted", "failed"} /\ headless' = "none"
  /\ IF headless = "persisted" /\ inMap
     THEN published' = TRUE /\ Finalize({})
     ELSE UNCHANGED <<terminating, inMap, teardown, bridgeVars, completed, published>>
  /\ UNCHANGED <<status, closing, emitted, inMiddleware, stage, begun, recipients,
                 claimed, aborted, durability, notified, storeVars, cancelVars>>

(***************************************************************************)
(* The serialized mutations of the record.                                 *)
(***************************************************************************)
\* A patch replaces the terminal status another owner already wrote.
MutantMergeOverwrites(s) == s

\* mergeRecordMonotonic(): a terminal status is never replaced.
Merge(s) == IF Terminal(rec) THEN rec ELSE s

\* A patch of the live session is skipped inside the mutation, not before it.
Skipped == closing = "complete" \/ ~Live

\* The terminal patch is accepted by the store and left to the debounce timer.
MutantDebounces(s, ok) == rec' = s /\ UNCHANGED disk

\* save(..., {immediate}) or flush(): all accepted mutations reach the disk, or
\* the write fails and this mutation is rolled back.
SaveNow(s, ok) == IF ok THEN rec' = s /\ disk' = s ELSE UNCHANGED <<rec, disk>>

Dequeue(kind) == mutations # <<>> /\ Head(mutations) = kind /\ mutations' = Tail(mutations)
Outcomes == IF AllowIoError THEN BOOLEAN ELSE {TRUE}

\* A debounced status patch.
MutateStatus ==
  /\ Dequeue("status")
  /\ rec' = IF Skipped THEN rec ELSE Merge("finished")
  /\ UNCHANGED <<sessionVars, managerVars, bridgeVars, dispatchVars, deliveryVars, disk, cancelVars>>

\* The immediate patch of a delivery resolves when it is skipped as well.
MutateTerminal(ok) ==
  /\ Dequeue("terminal")
  /\ IF Skipped THEN durability' = "ok" /\ UNCHANGED <<rec, disk>>
     ELSE durability' = (IF ok THEN "ok" ELSE "failed") /\ SaveNow(Merge("finished"), ok)
  /\ UNCHANGED <<sessionVars, managerVars, bridgeVars, dispatchVars, begun, recipients, claimed,
                 completed, aborted, published, notified, cancelVars>>

MutateHeadless(ok) ==
  /\ Dequeue("headless")
  /\ IF Skipped THEN headless' = "persisted" /\ UNCHANGED <<rec, disk>>
     ELSE headless' = (IF ok THEN "persisted" ELSE "failed") /\ SaveNow(Merge("finished"), ok)
  /\ UNCHANGED <<sessionVars, managerVars, bridgeVars, emitted, inMiddleware, stage,
                 deliveryVars, cancelVars>>

\* A bridge's status listener for a finish() without a delivery: patch, then finalize.
MutateDirect(ok) ==
  /\ Dequeue("direct")
  /\ IF Skipped THEN Finalize({}) /\ UNCHANGED <<rec, disk>>
     ELSE /\ SaveNow(Merge("finished"), ok)
          /\ IF ok THEN Finalize({})
             ELSE UNCHANGED <<terminating, inMap, teardown, bridgeVars, completed>>
  /\ UNCHANGED <<status, closing, dispatchVars, begun, recipients, claimed, aborted,
                 durability, published, notified, cancelVars>>

\* The debounce timer, and every retry of a failed flush.
FlushTimer ==
  /\ rec # disk /\ disk' = rec
  /\ UNCHANGED <<sessionVars, managerVars, bridgeVars, dispatchVars, deliveryVars, rec,
                 mutations, cancelVars>>

(***************************************************************************)
(* Cancellation: cancelSession(), and its retry after a failure.           *)
(***************************************************************************)
\* cleanupOwnedResources() at the terminal boundary, unless a delivery owns it.
CancelBoundary(delivery) == IF delivery THEN Release({}, {}) ELSE Release(conn, {})

CancelStart ==
  /\ AllowCancel /\ cancel \in {"idle", "failed"} /\ closing # "complete"
  /\ inMap \/ teardown \in {"pending", "failed"}
  /\ LET previous == IF Terminal(rec) THEN rec ELSE status
         delivery == status = "finished" /\ begun
     IN /\ alreadyTerminal' = Terminal(previous)
        /\ winner' = IF previous = "finished" THEN "finished" ELSE "cancelled"
        /\ awaitsDelivery' = delivery
        /\ CancelBoundary(delivery)
  /\ terminating' = TRUE /\ cancel' = "queued"
  /\ mutations' = Append(mutations, "cancel")
  /\ UNCHANGED <<status, managerVars, dispatchVars, begun, recipients, claimed, aborted,
                 durability, published, notified, rec, disk>>

\* markCancelled() and the start of the teardown, once the record is durable
\* and a delivery that already won has completed.
CancelTeardown ==
  /\ status' = IF ~alreadyTerminal /\ winner = "cancelled" THEN "cancelled" ELSE status
  /\ StartTeardown(FALSE, {})
  /\ cancel' = "teardown"

CancelMutation(ok) ==
  /\ Dequeue("cancel")
  /\ SaveNow(IF Terminal(rec) THEN rec ELSE winner, ok)
  /\ IF Terminal(rec) THEN winner' = rec /\ alreadyTerminal' = TRUE
     ELSE UNCHANGED <<winner, alreadyTerminal>>
  /\ cancel' = IF ~ok THEN "failed" ELSE IF awaitsDelivery THEN "waiting" ELSE "durable"
  /\ UNCHANGED <<sessionVars, managerVars, bridgeVars, dispatchVars, deliveryVars, awaitsDelivery>>

CancelProceeds ==
  /\ cancel = "durable" \/ (cancel = "waiting" /\ Resolved)
  /\ CancelTeardown
  /\ UNCHANGED <<closing, dispatchVars, begun, recipients, claimed, aborted, durability,
                 published, notified, storeVars, awaitsDelivery, winner, alreadyTerminal>>

\* The teardown settled, or the deadline of waitForSessionCleanup() passed.
CancelReturns ==
  /\ cancel = "teardown" /\ cancel' = "done"
  /\ UNCHANGED <<sessionVars, managerVars, bridgeVars, dispatchVars, deliveryVars,
                 storeVars, awaitsDelivery, winner, alreadyTerminal>>

\* Session.destroy() settles; a failed teardown stays owned for a retry.
TeardownSettles(ok) ==
  /\ teardown = "pending" /\ teardown' = (IF ok THEN "done" ELSE "failed")
  /\ inMap' = (inMap /\ ~ok)
  /\ UNCHANGED <<sessionVars, closing, bridgeVars, dispatchVars, deliveryVars, storeVars, cancelVars>>

(***************************************************************************)
(* Shutdown and the attached adapters.                                     *)
(***************************************************************************)
ShutdownStart ==
  /\ AllowShutdown /\ closing \in {"no", "failed"}
  /\ closing' = "closing"
  /\ terminating' = (terminating \/ inMap)
  /\ Release(IF inMap THEN conn ELSE {}, {})
  /\ mutations' = IF inMap THEN Append(mutations, "shutdown") ELSE mutations
  /\ UNCHANGED <<status, inMap, teardown, dispatchVars, begun, recipients, claimed, aborted,
                 durability, published, notified, rec, disk, cancelVars>>

MutateShutdown ==
  /\ Dequeue("shutdown")
  /\ rec' = IF closing = "complete" THEN rec ELSE Merge("finished")
  /\ UNCHANGED <<sessionVars, managerVars, bridgeVars, dispatchVars, deliveryVars, disk, cancelVars>>

ShutdownFlush(ok) ==
  /\ closing = "closing" /\ \A i \in 1..Len(mutations) : mutations[i] # "shutdown"
  /\ closing' = (IF ok THEN "complete" ELSE "failed")
  /\ inMap' = (inMap /\ ~ok)
  /\ disk' = IF ok THEN rec ELSE disk
  /\ UNCHANGED <<sessionVars, teardown, bridgeVars, dispatchVars, deliveryVars, rec,
                 mutations, cancelVars>>

\* attachAdapter(): registerBridge() ignores a session that already finished.
\* Bound: an adapter is not attached again while its former bridge is still in a
\* dispatch, because the model names a bridge by its adapter.
Attach(b) ==
  /\ AllowAttach /\ b \notin conn \cup recipients /\ Live
  /\ \A e \in Events : <<b, e>> \notin inMiddleware
  /\ conn' = conn \cup {b}
  /\ registered' = IF status = "finished" THEN registered ELSE registered \cup {b}
  /\ UNCHANGED <<sessionVars, managerVars, dispatchVars, deliveryVars, storeVars, cancelVars>>

Detach(b) ==
  /\ AllowDetach /\ b \in conn \ {Primary} /\ Live
  /\ Release({b}, {})
  /\ UNCHANGED <<sessionVars, managerVars, dispatchVars, begun, recipients, claimed, aborted,
                 durability, published, notified, storeVars, cancelVars>>

Dispatch == \E b \in Bridges, e \in Events : EventPasses(b, e) \/ EventBlocked(b, e)
Deliver  == \E b \in Bridges : DeliveryStep(b) \/ DeliveryEnds(b) \/ DurabilityFailed(b)
Headless == HeadlessPasses \/ HeadlessBlocked \/ HeadlessPersisted
Mutate   == \/ MutateStatus \/ MutateShutdown
            \/ \E ok \in Outcomes : \/ MutateTerminal(ok) \/ MutateHeadless(ok)
                                    \/ MutateDirect(ok) \/ CancelMutation(ok)
Adapters == \E b \in Bridges : Attach(b) \/ Detach(b)

Next ==
  \/ \E e \in Events : AgentEnds(e)
  \/ Dispatch \/ PersistTerminal \/ Deliver \/ Headless \/ Mutate \/ FlushTimer
  \/ CancelStart \/ CancelProceeds \/ CancelReturns
  \/ \E ok \in Outcomes : ShutdownFlush(ok)
  \/ \E ok \in BOOLEAN : TeardownSettles(ok)
  \/ ShutdownStart \/ Adapters

Spec == Init /\ [][Next]_vars

(***************************************************************************)
(* The event loop runs every due microtask and timer: middleware is        *)
(* bounded by its handler timeout, a delivery step by its own, and the     *)
(* mutation queue only awaits the store.  Nothing makes an agent end.      *)
(***************************************************************************)
Fairness ==
  /\ \A b \in Bridges, e \in Events : WF_vars(EventPasses(b, e) \/ EventBlocked(b, e))
  /\ \A b \in Bridges : WF_vars(DeliveryStep(b) \/ DeliveryEnds(b) \/ DurabilityFailed(b))
  /\ WF_vars(PersistTerminal) /\ WF_vars(Headless) /\ WF_vars(Mutate)
  /\ WF_vars(CancelProceeds) /\ WF_vars(CancelReturns)

FairSpec == Spec /\ Fairness

(***************************************************************************)
(* Properties.                                                             *)
(***************************************************************************)
\* Every variable keeps its type, and only recipients claim and complete.
TypeOK ==
  /\ status \in Statuses /\ terminating \in BOOLEAN
  /\ inMap \in BOOLEAN /\ teardown \in {"none", "pending", "failed", "done"}
  /\ closing \in {"no", "closing", "failed", "complete"}
  /\ conn \subseteq Bridges /\ registered \subseteq conn
  /\ emitted \subseteq Events /\ inMiddleware \subseteq Bridges \X Events
  /\ stage \in [Bridges -> Stages]
  /\ headless \in {"none", "middleware", "persisting", "persisted", "failed"}
  /\ begun \in BOOLEAN /\ recipients \subseteq Bridges
  /\ claimed \subseteq recipients /\ completed \subseteq recipients
  /\ aborted \in BOOLEAN /\ published \in BOOLEAN /\ notified \in BOOLEAN
  /\ durability \in {"none", "deferred", "queued", "ok", "failed"}
  /\ rec \in Statuses /\ disk \in Statuses /\ mutations \in Seq(Mutations)
  /\ cancel \in {"idle", "queued", "waiting", "durable", "teardown", "done", "failed"}
  /\ winner \in {"none", "finished", "cancelled"}
  /\ awaitsDelivery \in BOOLEAN /\ alreadyTerminal \in BOOLEAN

\* Completion, cancellation and shutdown race to end the session, but the
\* session, its working record and the disk never disagree about the winner.
OneTerminalWinner ==
  LET ends == {s \in {status, rec, disk} : Terminal(s)} IN Cardinality(ends) <= 1

\* A recipient that has not finished its delivery is disconnected by a detach,
\* an aborted delivery or a shutdown, never by a cancellation and never because
\* another bridge finished first.
DeliveryIsNotCutShort ==
  [][\A b \in Bridges :
       IsRecipient(b) /\ stage'[b] = stage[b] /\ b \in conn /\ b \notin conn'
         => closing' # "no" \/ aborted' \/ Live']_vars

\* An agent that ended a session with connected bridges is torn down only after
\* its record is terminal on disk, unless a cancellation, which writes the record
\* itself, or a shutdown is under way.
DeliveryIsDurable ==
  begun /\ teardown # "none" /\ cancel \in {"idle", "done"} /\ closing = "no"
    => Terminal(disk)

\* There is one winner, and a completion that won is delivered and durable: neither a cancellation nor
\* another bridge takes its recipients away, and the agent goes only behind the disk.
DeliveryIsHonoured == [](OneTerminalWinner /\ DeliveryIsDurable) /\ DeliveryIsNotCutShort

\* Once every recipient has claimed its delivery the session is torn down, although
\* bridges are detached and their steps fail, unless the record cannot be saved
\* or the manager closes.
ClaimedDeliveryIsFinalized ==
  begun /\ claimed = recipients ~> (teardown # "none" \/ aborted \/ closing # "no")

\* A cancellation returns or fails, even when it joins a delivery: as long as the
\* recipients of that delivery claim it.
ClaimedCancelIsBounded ==
  cancel = "queued" /\ recipients \subseteq claimed ~> cancel \in {"done", "failed"}

\* Once its recipients have claimed a delivery, nobody waits for it in vain:
\* neither the session's resources nor a cancellation that joined it.
ClaimedDeliveryEnds == ClaimedDeliveryIsFinalized /\ ClaimedCancelIsBounded
=============================================================================
