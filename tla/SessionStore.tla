------------------------------ MODULE SessionStore ------------------------------
(***************************************************************************)
(* JsonFileSessionStore (session-store.ts): the records in memory, the     *)
(* generation last renamed into place, the accepted mutations in between,  *)
(* and a timer that writes them. A write fails, the process is killed in   *)
(* the middle of one, and an immediate mutation is taken back when its     *)
(* write fails. A caller's save() or remove() runs without interruption.   *)
(* Nobody calls destroy().                                                 *)
(***************************************************************************)
EXTENDS Naturals, Sequences, FiniteSets

CONSTANTS
  Ids,        \* the sessions
  Values,     \* what a record says
  Running,    \* the values cleanup() never expires: active, initializing, assistant
  None,       \* no record
  MaxPending  \* bound: mutations accepted and not yet written

ASSUME StoreAssumption ==
  /\ IsFiniteSet(Ids) /\ MaxPending \in Nat
  /\ Running \subseteq Values /\ None \notin Values

VARIABLES
  records,  \* records: the working view
  durable,  \* durableRecords
  pending,  \* pendingMutations: who is saved or removed (None), in order
  timer,    \* a debounceTimer is armed
  disk,     \* the content of sessions.json
  up,       \* the process runs
  reply     \* how the last save() or remove() was answered

memory == <<records, durable, pending, timer>>
vars   == <<memory, disk, up, reply>>

View  == [Ids -> Values \cup {None}]
Empty == [i \in Ids |-> None]

Mutation == [id : Ids, value : Values \cup {None}]

Init ==
  /\ disk \in View /\ records = disk /\ durable = disk
  /\ pending = <<>> /\ timer = FALSE /\ up = TRUE /\ reply = "none"

(***************************************************************************)
(* The last mutation of a record wins; without one the durable generation  *)
(* does. rebuildWorkingRecords() replays the whole sequence.               *)
(***************************************************************************)
Touches(p, i)  == {k \in 1 .. Len(p) : p[k].id = i}
LastTouch(p, i) == CHOOSE k \in Touches(p, i) : \A l \in Touches(p, i) : l <= k

Replay(d, p) ==
  [i \in Ids |-> IF Touches(p, i) = {} THEN d[i] ELSE p[LastTouch(p, i)].value]

\* stageSave(), stageRemove()
Staged(i, v) == Append(pending, [id |-> i, value |-> v])

\* The failed write forgets that other mutations still wait for the disk.
MutantScheduleAfter(p) == FALSE

\* scheduleDiskWrite() is called while something is pending.
ScheduleAfter(p) == p # <<>>

(***************************************************************************)
(* flushSync(): the temp file is renamed into place or nothing changes.    *)
(***************************************************************************)
Published(view) == durable' = view /\ disk' = view /\ pending' = <<>> /\ timer' = FALSE

WriteFails == timer' = ScheduleAfter(pending) /\ UNCHANGED <<records, durable, pending, disk>>

(***************************************************************************)
(* Callers.                                                                *)
(***************************************************************************)
\* save() and remove() of a record, written when the timer fires.
SaveLater(i, v) ==
  /\ up /\ Len(pending) < MaxPending
  /\ records' = [records EXCEPT ![i] = v] /\ pending' = Staged(i, v)
  /\ timer' = TRUE /\ reply' = "accepted"
  /\ UNCHANGED <<durable, disk, up>>

\* {immediate: true}: whatever was pending is written too.
SaveNow(i, v) ==
  /\ up
  /\ records' = [records EXCEPT ![i] = v] /\ Published(records') /\ reply' = "durable"
  /\ UNCHANGED up

\* The mutation stays in the working view after its caller got the error.
MutantSaveNowFails(i, v) ==
  /\ up /\ records' = [records EXCEPT ![i] = v]
  /\ timer' = ScheduleAfter(pending) /\ reply' = "rejected"
  /\ UNCHANGED <<durable, pending, disk, up>>

\* The write fails: rollbackMutation() drops the mutation staged last.
SaveNowFails(i, v) ==
  /\ up
  /\ LET kept == SubSeq(Staged(i, v), 1, Len(pending)) IN
     /\ pending' = kept /\ records' = Replay(durable, kept) /\ timer' = ScheduleAfter(kept)
  /\ reply' = "rejected"
  /\ UNCHANGED <<durable, disk, up>>

\* flush(), and the handler of SIGTERM, SIGINT and exit.
FlushNow == up /\ Published(records) /\ UNCHANGED <<records, up, reply>>

FlushNowFails == up /\ pending # <<>> /\ WriteFails /\ UNCHANGED <<up, reply>>

TimerFlushes == up /\ timer /\ Published(records) /\ UNCHANGED <<records, up, reply>>

TimerFlushFails == up /\ timer /\ WriteFails /\ UNCHANGED <<up, reply>>

(***************************************************************************)
(* cleanup(): the expired records go. Which those are is a matter of time. *)
(***************************************************************************)
Expirable(view) == {i \in Ids : view[i] \in Values \ Running}

\* The expired records are marked instead of removed.
MutantWithout(view, S) == [i \in Ids |-> IF i \in S THEN "expired" ELSE view[i]]

Without(view, S) == [i \in Ids |-> IF i \in S THEN None ELSE view[i]]

\* One removal is staged for each, in the order of the map.
Removals(S) ==
  {q \in [1 .. Cardinality(S) -> Mutation] :
     /\ {q[k].id : k \in DOMAIN q} = S
     /\ \A k \in DOMAIN q : q[k].value = None}

Cleanup(S) ==
  /\ up /\ S # {} /\ S \subseteq Expirable(records) /\ Len(pending) + Cardinality(S) <= MaxPending
  /\ \E q \in Removals(S) : pending' = pending \o q
  /\ records' = Without(records, S) /\ timer' = TRUE
  /\ UNCHANGED <<durable, disk, up, reply>>

(***************************************************************************)
(* Crashes and restarts.                                                   *)
(***************************************************************************)
\* Killed, in the middle of a write or not: the rename is all or nothing.
Crash ==
  /\ up /\ up' = FALSE
  /\ records' = Empty /\ durable' = Empty /\ pending' = <<>> /\ timer' = FALSE
  /\ UNCHANGED <<disk, reply>>

\* The loaded generation is not recorded as durable.
MutantLoad(S) ==
  /\ ~up /\ up' = TRUE /\ S = {}
  /\ records' = disk /\ durable' = Empty /\ pending' = <<>> /\ timer' = FALSE
  /\ UNCHANGED <<disk, reply>>

\* The constructor loads the file, an orphaned temp file aside, and drops what
\* expired meanwhile.
Load(S) ==
  /\ ~up /\ up' = TRUE /\ S \subseteq Expirable(disk) /\ Cardinality(S) <= MaxPending
  /\ durable' = disk /\ records' = Without(disk, S)
  /\ pending' \in Removals(S) /\ timer' = (S # {})
  /\ UNCHANGED <<disk, reply>>

\* The file cannot be read and is set aside, if it can be renamed; a file of an
\* unknown version is left where it is.
LoadFails ==
  /\ ~up /\ up' = TRUE /\ disk' \in {disk, Empty}
  /\ records' = Empty /\ durable' = Empty /\ pending' = <<>> /\ timer' = FALSE
  /\ UNCHANGED reply

Next ==
  \/ FlushNow \/ FlushNowFails \/ TimerFlushes \/ TimerFlushFails
  \/ Crash \/ LoadFails
  \/ \E S \in SUBSET Ids : Cleanup(S) \/ Load(S)
  \/ \E i \in Ids, v \in Values \cup {None} :
       SaveLater(i, v) \/ SaveNow(i, v) \/ SaveNowFails(i, v)

Spec == Init /\ [][Next]_vars

(***************************************************************************)
(* Properties.                                                             *)
(***************************************************************************)
TypeOK ==
  /\ records \in View /\ durable \in View /\ disk \in View
  /\ pending \in Seq(Mutation)
  /\ timer \in BOOLEAN /\ up \in BOOLEAN
  /\ reply \in {"none", "accepted", "durable", "rejected"}

\* A replay of the accepted mutations over the durable generation gives the
\* working view: taking one back cannot lose or resurrect another.
WorkingViewIsReplay == records = Replay(durable, pending)

\* While something accepted is not on disk a write is scheduled, whatever
\* failed before.
PendingIsScheduled == pending # <<>> => timer

\* The store keeps its promise: an accepted mutation is visible at once, a
\* rejected one leaves no trace, and a crash loses only what was not written.
Promise == INSTANCE RecordStore WITH
  working <- IF up THEN records ELSE disk, durable <- disk

ImplementsRecordStore == Promise!Spec

=============================================================================
