---------------------------- MODULE AgentInstall ----------------------------
(***************************************************************************)
(* Installing and uninstalling the binary runtime of one agent              *)
(* (core/agents/agent-installer.ts): a directory is exchanged by renames,   *)
(* agents.json names what is installed, and a journal beside the lock says  *)
(* what to finish or undo when the process died in between.                 *)
(*                                                                         *)
(* The lock file lets one session work on the agent at a time.  A running   *)
(* server or another command may still rewrite the display name of the      *)
(* entry, because that only takes the lock of agents.json                   *)
(* (core/agents/agent-catalog.ts, core/agents/agent-store.ts).              *)
(***************************************************************************)
EXTENDS Naturals

CONSTANTS None,
          MaxTx, MaxRenames, MaxFaults, MaxCrashes     \* bounds of a run

ASSUME BoundsAssumption ==
    MaxTx \in Nat /\ MaxRenames \in Nat /\ MaxFaults \in Nat /\ MaxCrashes \in Nat

Txs == 1..MaxTx

\* An entry of agents.json: who installed it, and whether its display name has
\* been rewritten since.  A directory: whose runtime it is, whether it holds the
\* marker of that transaction, whether all of it is there.
Agents == [tx : Txs, renamed : BOOLEAN]
Dirs == [tx : Txs, marked : BOOLEAN, whole : BOOLEAN]
Fresh(t) == [tx |-> t, renamed |-> FALSE]

InstallJournals == [t : Txs, phase : {"prepared", "activated", "metadata-committed"}, prev : Agents \union {None}]
UninstallJournals == [t : Txs, prev : Agents]

\* What a session remembers beside its journal: the previous entry, whether its
\* journal was written, its directory activated, its entry changed, something of
\* the rollback left over.
Memories == [prev : Agents \union {None}, journal : BOOLEAN, active : BOOLEAN,
             persisted : BOOLEAN, pending : BOOLEAN]
Blank == [prev |-> None, journal |-> FALSE, active |-> FALSE, persisted |-> FALSE, pending |-> FALSE]

VARIABLES installing, uninstalling,   \* <id>.transaction.json and <id>.uninstall.json, or None
          meta, base,                 \* the entry of agents.json, and what another process has read of it
          dest, backup,               \* <agent>/, and the .backup or .uninstall of each transaction
          pc, op, tx, mem, outcome,   \* the session that holds the lock, its transaction, what it told
          unfinished,                 \* history: those whose entry was renamed before they ended, or misread
          renames, faults, crashes

journals == <<installing, uninstalling>>
entries == <<meta, base, renames, unfinished>>
trees == <<dest, backup>>
session == <<op, tx>>
limits == <<faults, crashes>>
vars == <<journals, entries, trees, pc, session, mem, outcome, limits>>

-----------------------------------------------------------------------------
Turn(m, to) == mem' = m /\ pc' = to /\ UNCHANGED <<session, outcome>>
Remember(m, to) == Turn(m, to) /\ UNCHANGED limits
Goto(to) == Remember(mem, to)

\* A mutant that keeps the transaction in its memory.
MutantEnds(result) == pc' = "idle" /\ outcome' = result /\ UNCHANGED <<mem, session>>

\* The lock is released.
Ends(result) == pc' = "idle" /\ outcome' = result /\ mem' = Blank /\ UNCHANGED session

Fault == faults < MaxFaults /\ faults' = faults + 1 /\ UNCHANGED crashes

\* AgentStore.load(): a file that cannot be read is taken for an empty store.
Loads(seen) == \/ seen = meta /\ UNCHANGED limits
               \/ seen = None /\ meta # None /\ Fault

\* The entry that recovery did not see: what it does now fits no entry.
Misread(seen) == unfinished' = IF seen # meta THEN unfinished \union {meta.tx} ELSE unfinished

\* A directory is removed entry by entry, the marker at any time.
Halved == \E m \in BOOLEAN : (m => dest.marked) /\ dest' = [dest EXCEPT !.whole = FALSE, !.marked = m]

\* An install has downloaded its runtime into a directory of its own before it
\* asks for the lock; nobody else touches that one.
Acquire(o) ==
    /\ pc = "idle"
    /\ pc' = "recover-install" /\ op' = o /\ outcome' = "none" /\ mem' = Blank
    /\ IF o = "recover" THEN UNCHANGED tx ELSE tx < MaxTx /\ tx' = tx + 1
    /\ UNCHANGED <<journals, entries, trees, limits>>

-----------------------------------------------------------------------------
(* recoverInterruptedBinaryInstall() *)

IsNext(seen) == seen = Fresh(installing.t)
RuntimeActive == dest # None /\ dest.tx = installing.t /\ dest.marked
Kept(seen) == /\ IsNext(seen) /\ dest # None
              /\ RuntimeActive \/ installing.phase = "metadata-committed"

NoInstallJournal ==
    /\ pc = "recover-install" /\ installing = None
    /\ Goto("recover-uninstall")
    /\ UNCHANGED <<journals, entries, trees>>

\* The entry is the new one and its runtime is there: the commit is persisted,
\* then the marker, the backup and the journal go.
Keep ==
    /\ pc = "recover-install" /\ installing # None /\ Kept(meta)
    /\ installing' = [installing EXCEPT !.phase = "metadata-committed"]
    /\ Goto("keep-marker")
    /\ UNCHANGED <<uninstalling, entries, trees>>

KeepMarker ==
    /\ pc = "keep-marker"
    /\ dest' = [dest EXCEPT !.marked = FALSE]
    /\ Goto("keep-backup")
    /\ UNCHANGED <<journals, entries, backup>>

KeepBackup ==
    /\ pc = "keep-backup"
    /\ backup' = [backup EXCEPT ![installing.t] = None]
    /\ Goto("keep-journal")
    /\ UNCHANGED <<journals, entries, dest>>

KeepJournal ==
    /\ pc = "keep-journal"
    /\ installing' = None
    /\ Goto("recover-uninstall")
    /\ UNCHANGED <<uninstalling, entries, trees>>

\* A mutant that does not ask for the marker before it removes the directory.
MutantUndo ==
    /\ pc = "recover-install" /\ installing # None
    /\ \E seen \in {meta, None} :
         /\ Loads(seen) /\ ~Kept(seen) /\ Misread(seen)
         /\ Turn([mem EXCEPT !.persisted = IsNext(seen)], IF dest # None THEN "undo-remove" ELSE "undo-restore")
    /\ UNCHANGED <<journals, meta, base, renames, trees>>

\* Otherwise the runtime of the transaction is removed, the previous one and its
\* entry put back.  Whether the entry is the new one was read before; an entry
\* that could not be read is none.
Undo ==
    /\ pc = "recover-install" /\ installing # None
    /\ \E seen \in {meta, None} :
         /\ Loads(seen) /\ ~Kept(seen) /\ Misread(seen)
         /\ Turn([mem EXCEPT !.persisted = IsNext(seen)], IF RuntimeActive THEN "undo-remove" ELSE "undo-restore")
    /\ UNCHANGED <<journals, meta, base, renames, trees>>

UndoRemove ==
    /\ pc = "undo-remove"
    /\ IF dest.whole THEN Halved /\ Goto(pc) ELSE dest' = None /\ Goto("undo-restore")
    /\ UNCHANGED <<journals, entries, backup>>

BackupBlocked == backup[installing.t] # None /\ dest # None
\* A mutant that forgets that there may have been none.
MutantPreviousLost == backup[installing.t] = None /\ dest = None
PreviousLost == backup[installing.t] = None /\ dest = None /\ installing.prev # None

UndoRestore ==
    /\ pc = "undo-restore" /\ ~BackupBlocked /\ ~PreviousLost
    /\ IF backup[installing.t] = None THEN UNCHANGED <<dest, backup>>
       ELSE dest' = backup[installing.t] /\ backup' = [backup EXCEPT ![installing.t] = None]
    /\ Goto("undo-metadata")
    /\ UNCHANGED <<journals, entries>>

\* An entry to put back overwrites, one to take away must still be the one that
\* was written.
TakeBack(t, prev) == IF prev # None THEN prev ELSE IF meta = Fresh(t) THEN None ELSE meta

UndoMetadata ==
    /\ pc = "undo-metadata"
    /\ meta' = IF mem.persisted THEN TakeBack(installing.t, installing.prev) ELSE meta
    /\ Goto("undo-journal")
    /\ UNCHANGED <<journals, base, renames, unfinished, trees>>

UndoJournal ==
    /\ pc = "undo-journal"
    /\ installing' = None
    /\ Remember(Blank, "recover-uninstall")
    /\ UNCHANGED <<uninstalling, entries, trees>>

-----------------------------------------------------------------------------
(* recoverInterruptedBinaryUninstall(): also what uninstallAgent() calls when *)
(* it fails half-way (mem.journal is set then).  The phase of the journal is *)
(* never read.                                                             *)

\* The entry still is the one to remove, whatever its display name.
Owned(seen) == seen # None /\ seen.tx = uninstalling.prev.tx

Recovered(done) ==
    IF mem.journal
    THEN Ends(IF done /\ mem.persisted THEN "uninstalled" ELSE "failed")
    ELSE Turn(mem, op)

NoUninstallJournal ==
    /\ pc = "recover-uninstall" /\ uninstalling = None
    /\ Goto(op)
    /\ UNCHANGED <<journals, entries, trees>>

\* The entry was not removed, it was, or another one owns the path now.
ReadEntry ==
    /\ pc = "recover-uninstall" /\ uninstalling # None
    /\ \E seen \in {meta, None} :
         /\ Loads(seen) /\ Misread(seen)
         /\ Turn(mem, IF seen = None THEN "finish" ELSE IF Owned(seen) THEN "bring-back" ELSE "replaced")
    /\ UNCHANGED <<journals, meta, base, renames, trees>>

\* It was not removed: its directory comes back.
BringBack ==
    /\ pc = "bring-back"
    /\ \/ /\ backup[uninstalling.t] # None /\ dest # None
          /\ IF dest.whole THEN Halved ELSE dest' = None
          /\ Goto(pc) /\ UNCHANGED <<backup, uninstalling>>
       \/ /\ backup[uninstalling.t] # None /\ dest = None
          /\ dest' = backup[uninstalling.t] /\ backup' = [backup EXCEPT ![uninstalling.t] = None]
          /\ Goto(pc) /\ UNCHANGED uninstalling
       \/ /\ backup[uninstalling.t] = None /\ dest # None
          /\ uninstalling' = None
          /\ Recovered(FALSE) /\ UNCHANGED <<dest, backup, limits>>
    /\ UNCHANGED <<installing, entries>>

\* It was removed: what is left of the directory goes.
FinishRuntime ==
    /\ pc = "finish" /\ dest # None
    /\ IF dest.whole THEN Halved ELSE dest' = None
    /\ Goto(pc)
    /\ UNCHANGED <<journals, entries, backup>>

\* The backup and the journal go, unless another entry owns the path and its
\* command is not there.  What cannot be removed is left for later, and the
\* caller goes on all the same.
Finish ==
    /\ \/ pc = "finish" /\ dest = None
       \/ pc = "replaced" /\ dest # None
    /\ \/ /\ backup' = [backup EXCEPT ![uninstalling.t] = None] /\ uninstalling' = None
          /\ Recovered(pc = "finish") /\ UNCHANGED limits
       \/ /\ Fault /\ backup' \in {backup, [backup EXCEPT ![uninstalling.t] = None]}
          /\ Recovered(TRUE) /\ UNCHANGED uninstalling
    /\ UNCHANGED <<installing, entries, dest>>

RuntimeLost ==
    \/ pc = "bring-back" /\ backup[uninstalling.t] = None /\ dest = None
    \/ pc = "replaced" /\ ~(dest # None /\ dest.whole)

Unsafe ==
    \/ pc = "undo-restore" /\ (BackupBlocked \/ PreviousLost)
    \/ RuntimeLost

\* The journal stays for Doctor or a person.
Refuse ==
    /\ Unsafe
    /\ Ends("refused")
    /\ UNCHANGED <<journals, entries, trees, limits>>

Recover == NoInstallJournal \/ Keep \/ KeepMarker \/ KeepBackup \/ KeepJournal
           \/ Undo \/ UndoRemove \/ UndoRestore \/ UndoMetadata \/ UndoJournal
           \/ NoUninstallJournal \/ ReadEntry \/ BringBack \/ FinishRuntime \/ Finish \/ Refuse

\* recoverAgentTransactions(), when a catalog is loaded, wanted no more.
Loaded ==
    /\ pc = "recover"
    /\ Ends("loaded")
    /\ UNCHANGED <<journals, entries, trees, limits>>

\* A journal cannot be read, or a removal, a rename or a write that nobody
\* catches fails.
RecoverThrows ==
    /\ \/ pc \in {"keep-marker", "keep-backup", "keep-journal", "undo-remove",
                  "undo-restore", "undo-metadata", "undo-journal", "bring-back"}
       \/ pc = "recover-install" /\ installing # None
       \/ pc = "recover-uninstall" /\ uninstalling # None
       \/ pc = "finish" /\ dest # None
    /\ Fault
    /\ Ends("refused")
    /\ UNCHANGED <<journals, entries, trees>>

-----------------------------------------------------------------------------
(* installAgent(): "force" replaces what is there, "install" does not *)

Decide ==
    /\ pc \in {"install", "force"}
    /\ \E seen \in {meta, None} :
         /\ Loads(seen)
         /\ IF seen # None /\ pc = "install" THEN Ends("exists")
            ELSE Turn([Blank EXCEPT !.prev = seen], "prepare")
    /\ UNCHANGED <<journals, entries, trees>>

Prepare ==
    /\ pc = "prepare"
    /\ installing' = [t |-> tx, phase |-> "prepared", prev |-> mem.prev]
    /\ Remember([mem EXCEPT !.journal = TRUE], "move-live")
    /\ UNCHANGED <<uninstalling, entries, trees>>

\* activate(): the live directory is renamed away, then the new one in; if that
\* fails the old one is renamed back, if that works.
MoveLive ==
    /\ pc = "move-live"
    /\ backup' = [backup EXCEPT ![tx] = dest]
    /\ dest' = None
    /\ Goto("move-new")
    /\ UNCHANGED <<journals, entries>>

MoveNew ==
    /\ pc = "move-new"
    /\ dest' = [tx |-> tx, marked |-> TRUE, whole |-> TRUE]
    /\ Remember([mem EXCEPT !.active = TRUE], "activated")
    /\ UNCHANGED <<journals, entries, backup>>

MoveNewThrows ==
    /\ pc = "move-new" /\ Fault
    /\ \/ dest' = backup[tx] /\ backup' = [backup EXCEPT ![tx] = None]
       \/ UNCHANGED trees
    /\ pc' = "rollback"
    /\ UNCHANGED <<journals, entries, session, mem, outcome>>

Phase(from, phase, to) ==
    /\ pc = from
    /\ installing' = [installing EXCEPT !.phase = phase]
    /\ Goto(to)
    /\ UNCHANGED <<uninstalling, entries, trees>>

AddAgent ==
    /\ pc = "add-agent"
    /\ meta' = Fresh(tx)
    /\ Remember([mem EXCEPT !.persisted = TRUE], "committed")
    /\ UNCHANGED <<journals, base, renames, unfinished, trees>>

InstallThrows ==
    /\ pc \in {"prepare", "move-live", "activated", "add-agent", "committed"} /\ Fault
    /\ pc' = "rollback"
    /\ UNCHANGED <<journals, entries, trees, session, mem, outcome>>

\* commit(): each failure leaves something for later, the install stands.
CommitMarker ==
    /\ pc = "commit"
    /\ \/ dest' = [dest EXCEPT !.marked = FALSE] /\ Goto("commit-backup")
       \/ Fault /\ pc' = "commit-backup" /\ UNCHANGED <<dest, session, mem, outcome>>
    /\ UNCHANGED <<journals, entries, backup>>

CommitBackup ==
    /\ pc = "commit-backup"
    /\ \/ backup' = [backup EXCEPT ![tx] = None] /\ Goto("commit-journal")
       \/ Fault /\ pc' = "commit-journal" /\ UNCHANGED <<backup, session, mem, outcome>>
    /\ UNCHANGED <<journals, entries, dest>>

CommitJournal ==
    /\ pc = "commit-journal"
    /\ \/ installing' = None /\ UNCHANGED limits
       \/ Fault /\ UNCHANGED installing
    /\ Ends("installed")
    /\ UNCHANGED <<uninstalling, entries, trees>>

\* rollback(): the runtime that was activated is removed, the previous one
\* renamed back into its place if that is free now.
RollbackRemove ==
    /\ pc = "rollback" /\ mem.active
    /\ \/ dest.whole /\ Halved /\ Goto(pc)
       \/ ~dest.whole /\ dest' = None /\ Remember([mem EXCEPT !.active = FALSE], pc)
       \/ /\ Fault /\ mem' = [mem EXCEPT !.active = FALSE, !.pending = TRUE]
          /\ UNCHANGED <<dest, pc, session, outcome>>
    /\ UNCHANGED <<journals, entries, backup>>

RollbackRestore ==
    /\ pc = "rollback" /\ ~mem.active
    /\ pc' = "rollback-metadata"
    /\ \/ backup[tx] = None /\ UNCHANGED <<trees, mem, limits>>
       \/ /\ backup[tx] # None /\ dest = None
          /\ dest' = backup[tx] /\ backup' = [backup EXCEPT ![tx] = None] /\ UNCHANGED <<mem, limits>>
       \/ /\ backup[tx] # None /\ IF dest = None THEN Fault ELSE UNCHANGED limits
          /\ mem' = [mem EXCEPT !.pending = TRUE] /\ UNCHANGED trees
    /\ UNCHANGED <<journals, entries, session, outcome>>

RollbackMetadata ==
    /\ pc = "rollback-metadata"
    /\ \/ meta' = (IF mem.persisted THEN TakeBack(tx, mem.prev) ELSE meta) /\ Goto("rollback-journal")
       \/ /\ mem.persisted /\ Fault /\ mem' = [mem EXCEPT !.pending = TRUE]
          /\ pc' = "rollback-journal" /\ UNCHANGED <<meta, session, outcome>>
    /\ UNCHANGED <<journals, base, renames, unfinished, trees>>

\* A mutant that removes the journal whatever the rollback left.
MutantRollbackJournal ==
    /\ pc = "rollback-journal"
    /\ installing' = IF mem.journal THEN None ELSE installing
    /\ Ends("failed")
    /\ UNCHANGED <<uninstalling, entries, trees, limits>>

\* The journal stays for recovery unless everything is as it was.
RollbackJournal ==
    /\ pc = "rollback-journal"
    /\ \/ mem.journal /\ ~mem.pending /\ installing' = None /\ UNCHANGED limits
       \/ (~mem.journal \/ mem.pending) /\ UNCHANGED <<installing, limits>>
       \/ mem.journal /\ ~mem.pending /\ Fault /\ UNCHANGED installing
    /\ Ends("failed")
    /\ UNCHANGED <<uninstalling, entries, trees>>

Install == Decide \/ Prepare \/ MoveLive \/ MoveNew \/ MoveNewThrows
           \/ Phase("activated", "activated", "add-agent") \/ AddAgent
           \/ Phase("committed", "metadata-committed", "commit") \/ InstallThrows
           \/ CommitMarker \/ CommitBackup \/ CommitJournal
           \/ RollbackRemove \/ RollbackRestore \/ RollbackMetadata \/ RollbackJournal

-----------------------------------------------------------------------------
(* uninstallAgent() *)

\* Nothing to remove, an entry without its directory, or a journal first.
Detach ==
    /\ pc = "uninstall"
    /\ \/ Loads(None) /\ Ends("absent") /\ UNCHANGED uninstalling
       \/ /\ meta # None /\ dest = None
          /\ Remember([Blank EXCEPT !.prev = meta], "remove-agent") /\ UNCHANGED uninstalling
       \/ /\ meta # None /\ dest # None
          /\ uninstalling' = [t |-> tx, prev |-> meta]
          /\ Remember([Blank EXCEPT !.prev = meta, !.journal = TRUE], "move-away")
    /\ UNCHANGED <<installing, entries, trees>>

MoveAway ==
    /\ pc = "move-away"
    /\ backup' = [backup EXCEPT ![tx] = dest]
    /\ dest' = None
    /\ Goto("remove-agent")
    /\ UNCHANGED <<journals, entries>>

\* What throws is recovered at once, if there is a journal.
Caught == IF mem.journal THEN pc' = "recover-uninstall" /\ UNCHANGED <<session, mem, outcome>> ELSE Ends("failed")

\* removeAgent() only removes the entry it was shown.
RemoveAgent ==
    /\ pc = "remove-agent"
    /\ \/ /\ meta = mem.prev /\ meta' = None
          /\ IF mem.journal THEN Remember([mem EXCEPT !.persisted = TRUE], "removed")
             ELSE Ends("uninstalled") /\ UNCHANGED limits
       \/ meta # mem.prev /\ Caught /\ UNCHANGED <<meta, limits>>
    /\ UNCHANGED <<journals, base, renames, unfinished, trees>>

Removed ==
    /\ pc = "removed"
    /\ \/ backup' = [backup EXCEPT ![tx] = None] /\ uninstalling' = None /\ UNCHANGED limits
       \/ Fault /\ UNCHANGED <<backup, uninstalling>>
       \/ Fault /\ backup' = [backup EXCEPT ![tx] = None] /\ UNCHANGED uninstalling
    /\ Ends("uninstalled")
    /\ UNCHANGED <<installing, entries, dest>>

UninstallThrows ==
    /\ pc \in {"uninstall", "move-away", "remove-agent", "removed"} /\ Fault
    /\ Caught
    /\ UNCHANGED <<journals, entries, trees>>

Uninstall == Detach \/ MoveAway \/ RemoveAgent \/ Removed \/ UninstallThrows

-----------------------------------------------------------------------------
(* The rest of the world *)

Crash ==
    /\ pc # "idle" /\ crashes < MaxCrashes
    /\ crashes' = crashes + 1
    /\ Ends("none")
    /\ UNCHANGED <<journals, entries, trees, faults>>

\* Another process loads its catalog while the lock is held, or when there is
\* nothing to recover; otherwise it would recover first.
CatalogLoads ==
    /\ pc # "idle" \/ (installing = None /\ uninstalling = None)
    /\ base # meta /\ renames < MaxRenames
    /\ base' = meta
    /\ UNCHANGED <<journals, meta, renames, unfinished, trees, pc, session, mem, outcome, limits>>

\* enrichInstalledFromRegistry(), replaceInstalled(): it stores the name of the
\* registry for the version it has loaded, if the entry still is what it loaded.
Reconcile ==
    /\ base # None /\ ~base.renamed /\ meta = base /\ renames < MaxRenames
    /\ meta' = [meta EXCEPT !.renamed = TRUE] /\ base' = meta'
    /\ renames' = renames + 1
    /\ unfinished' = IF installing # None /\ installing.t = meta.tx THEN unfinished \union {meta.tx} ELSE unfinished
    /\ UNCHANGED <<journals, trees, pc, session, mem, outcome, limits>>

Init ==
    /\ installing = None /\ uninstalling = None /\ meta = None /\ base = None
    /\ dest = None /\ backup = [t \in Txs |-> None]
    /\ pc = "idle" /\ op = "recover" /\ tx = 0 /\ mem = Blank /\ outcome = "none"
    /\ unfinished = {} /\ renames = 0 /\ faults = 0 /\ crashes = 0

Work == Recover \/ Loaded \/ Install \/ Uninstall

Next == \/ \E o \in {"install", "force", "uninstall", "recover"} : Acquire(o)
        \/ Work \/ RecoverThrows \/ Crash \/ CatalogLoads \/ Reconcile

\* A session goes on by itself, and some process loads its catalog again.
Spec == Init /\ [][Next]_vars /\ WF_vars(Work) /\ WF_vars(Acquire("recover"))

-----------------------------------------------------------------------------
(* Properties *)

\* Every variable stays in its type; nobody holds a transaction without the lock.
TypeOK ==
    /\ installing \in InstallJournals \union {None} /\ uninstalling \in UninstallJournals \union {None}
    /\ meta \in Agents \union {None} /\ base \in Agents \union {None}
    /\ dest \in Dirs \union {None} /\ backup \in [Txs -> Dirs \union {None}]
    /\ mem \in Memories /\ tx \in 0..MaxTx
    /\ pc = "idle" => mem = Blank

Settled == pc = "idle" /\ installing = None /\ uninstalling = None

\* Whenever nobody is at work and no journal is left, the runtime that agents.json
\* names is the one in the directory: a failed replacement gives back exactly the
\* previous one, a committed one stays, an uninstall leaves no entry.  (Recovery
\* does not know an entry that was renamed before its transaction ended, and takes
\* one it cannot read for none.)
RuntimeMatchesEntry ==
    Settled /\ meta # None /\ meta.tx \notin unfinished => dest # None /\ dest.tx = meta.tx

\* As long as an install is not committed, the runtime it replaces is still there,
\* in its place or in the backup of the transaction.
PreviousRuntimeSurvives ==
    /\ installing # None /\ installing.phase # "metadata-committed" /\ installing.prev # None
       /\ ({installing.t, installing.prev.tx} \intersect unfinished = {}) =>
          \E d \in {dest, backup[installing.t]} : d # None /\ d.tx = installing.prev.tx
    /\ uninstalling # None /\ Owned(meta) /\ meta.tx \notin unfinished =>
          \E d \in {dest, backup[uninstalling.t]} : d # None /\ d.tx = meta.tx

\* No crash and no failed step costs the user the runtime that worked.
RuntimeIsKept == RuntimeMatchesEntry /\ PreviousRuntimeSurvives

\* What recovery cannot leave: the removal of a runtime died half-way.  Without
\* its marker it looks like somebody else's, in the way of the backup; with it,
\* recovery keeps what its entry names, and an old uninstall misses its command.
HalfRemoved ==
    /\ dest # None /\ ~dest.whole
    /\ \/ installing # None /\ backup[installing.t] # None
       \/ uninstalling # None /\ meta # None

\* A transaction that was interrupted is finished or undone by a later session.
RecoveryCompletes ==
    (installing # None \/ uninstalling # None)
        ~> ((installing = None /\ uninstalling = None) \/ HalfRemoved \/ unfinished # {})
=============================================================================
