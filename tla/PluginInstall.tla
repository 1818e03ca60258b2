---------------------------- MODULE PluginInstall ----------------------------
(***************************************************************************)
(* `openacp plugin install`: the journaled transaction that replaces the    *)
(* package tree, the plugin's data and its registry entry together          *)
(* (core/plugin/plugin-installer.ts, cli/commands/plugins.ts, docs/adr/0007)*)
(* and the recovery every later holder of the install lock runs first.      *)
(*                                                                         *)
(* The lock lets one session work at a time, so the model has one session:  *)
(* an install, a registry edit or the recovery of a starting process.  Any  *)
(* of its file operations may fail and the process may die between any two  *)
(* of them, inside a recursive removal too.                                 *)
(***************************************************************************)
EXTENDS Naturals

CONSTANTS N,            \* package boundaries: node_modules, package.json, package-lock.json
          Broken,       \* a tree that is only partly written or partly removed
          NoJournal, Unknown,
          MaxInstalls, MaxEdits, MaxFaults, MaxCrashes   \* bounds of a run

\* The code has three boundaries; the last one, the lock file, may be missing
\* from a new tree, the first one may not.
ASSUME BoundsAssumption ==
    /\ N \in Nat \ {0, 1}
    /\ MaxInstalls \in Nat /\ MaxEdits \in Nat /\ MaxFaults \in Nat /\ MaxCrashes \in Nat

Items == 1..N
\* A tree is identified by the install that wrote it; 0 is a path that does
\* not exist and 1 what was there before the first install.
Absent == 0
Versions == Nat
Trees == Versions \union {Broken}
Registries == [version : Versions, edits : Nat]
NoRegistry == [version |-> 0, edits |-> 0]

PrePackage == {"initialized", "staged", "snapshot-pending", "hook-pending", "hook-running", "hook-complete"}
Committed == {"registry-committed", "committed"}
Phases == PrePackage \union {"backup", "activate", "packages-activated", "registry-committing"} \union Committed
Journals == [phase : Phases, at : 0..N, item : [Items -> {"untouched", "backed-up", "activated"}],
             had : [Items -> Versions], data : Versions \union {Unknown}, hookStarted : BOOLEAN,
             registry : Registries, evidence : Registries \union {Unknown}]

ASSUME ValuesAssumption ==
    /\ Broken \notin Nat
    /\ Unknown \notin Nat \union Registries
    /\ NoJournal \notin Journals

VARIABLES journal,                       \* plugin-install.journal.json, NoJournal when there is none
          live, staged, backup,          \* each package boundary: in plugins/, .stage-<id>, .rollback-<id>
          data, snapshot, registry,      \* the plugin's data, .data-snapshot-<id>.complete, plugins.json
          pc, op,                        \* the session that holds the install lock
          own, mem, k,                   \* whether it works on its own transaction, the journal
                                         \* in its memory, the boundary it works on
          outcome, before,               \* what it told its caller, and the state it started from
          installs, faults, crashes

files == <<live, staged, backup, data, snapshot, registry>>
session == <<op, own, before>>
counters == <<installs, faults, crashes>>
vars == <<journal, files, pc, session, mem, k, outcome, counters>>

State == [packages |-> live, data |-> data, registry |-> registry]

-----------------------------------------------------------------------------
(* What the journal must say to be trusted *)

HadLive(j, i) == j.had[i] # Absent

\* validateJournalStateMachine(): the phase against the package boundaries ...
PackagesFit(j) ==
    LET Before == \A i \in 1..(j.at - 1) : j.item[i] = "activated"
        Behind == \A i \in (j.at + 1)..N : j.item[i] = "untouched"
        Waiting == IF HadLive(j, j.at) THEN "backed-up" ELSE "untouched"
    IN CASE j.phase \in PrePackage -> \A i \in Items : j.item[i] = "untouched"
         [] j.phase = "backup"     -> Before /\ Behind /\ j.item[j.at] \in {"untouched", Waiting}
         [] j.phase = "activate"   -> Before /\ Behind /\ j.item[j.at] \in {"activated", Waiting}
         [] OTHER                  -> \A i \in Items : j.item[i] = "activated"

\* ... and against the data snapshot.
DataFits(j) ==
    CASE j.phase \in {"initialized", "staged", "snapshot-pending"} -> j.data = Unknown /\ ~j.hookStarted
      [] j.phase = "hook-pending" -> j.data # Unknown /\ ~j.hookStarted
      [] OTHER                    -> j.data # Unknown /\ j.hookStarted

\* Evidence of the commit comes with the committed phases only, and the
\* registry on disk must be the one it describes.
EvidenceFits(j) ==
    /\ (j.phase \in Committed) <=> (j.evidence # Unknown)
    /\ j.phase \in Committed => registry = j.evidence

Valid(j) == PackagesFit(j) /\ DataFits(j) /\ EvidenceFits(j)

\* validateCompleteSnapshot(): a snapshot that is there must be intact.
SnapshotTrusted(j) == j.data \notin {Unknown, Absent} => snapshot \in {Absent, j.data}

-----------------------------------------------------------------------------
(* Steps of a session *)

\* transition(), persist(): the journal is replaced by one rename.
Persist(from, j, to) ==
    /\ pc = from /\ Valid(j)
    /\ journal' = j /\ mem' = j /\ pc' = to
    /\ k' = IF from = "activated" THEN k + 1 ELSE k
    /\ UNCHANGED <<files, session, outcome, counters>>

\* An operation of the install throws and leaves the memory as j: the caller
\* rolls back.
Throws(from, j) ==
    /\ pc = from /\ faults < MaxFaults
    /\ faults' = faults + 1
    /\ mem' = j /\ pc' = "rollback"
    /\ UNCHANGED <<journal, session, k, outcome, installs, crashes>>

\* A mutant that keeps the finished transaction as its own.
MutantEnds(result) == pc' = "idle" /\ outcome' = result /\ mem' = NoJournal /\ k' = 0 /\ UNCHANGED own

\* The lock is released and the caller told.
Ends(result) ==
    /\ pc' = "idle" /\ outcome' = result
    /\ mem' = NoJournal /\ k' = 0 /\ own' = FALSE

\* A mutant that says the same whether its rollback succeeded or not.
MutantGivesUp == Ends(IF own THEN "failed" ELSE "quarantined")

\* What a session says when its recovery, or the undoing of its own
\* transaction, cannot go on: the journal stays for the next one.
GivesUp == Ends(IF own THEN "rollback failed" ELSE "quarantined")

Acquire(o) ==
    /\ pc = "idle"
    /\ o = "install" => installs < MaxInstalls
    /\ pc' = "recover" /\ op' = o /\ outcome' = "none"
    /\ UNCHANGED <<journal, files, own, before, mem, k, counters>>

\* recoverLocked(): nothing to do, a journal that is not trusted, or one to
\* finish or undo.
NothingToRecover ==
    /\ pc = "recover" /\ journal = NoJournal
    /\ pc' = op
    /\ before' = State
    /\ UNCHANGED <<journal, files, op, own, mem, k, outcome, counters>>

Trusted(j) == Valid(j) /\ (j.phase \notin Committed => SnapshotTrusted(j))

Quarantined ==
    /\ pc = "recover" /\ journal # NoJournal /\ ~Trusted(journal)
    /\ GivesUp
    /\ UNCHANGED <<journal, files, op, before, counters>>

\* A mutant that takes a registry save that was only begun for done.
MutantRecoveryStarts ==
    /\ pc = "recover" /\ journal # NoJournal /\ Trusted(journal)
    /\ mem' = journal
    /\ pc' = IF journal.phase \in Committed \union {"registry-committing"} THEN "clean" ELSE "restore"
    /\ k' = 1
    /\ UNCHANGED <<journal, files, session, outcome, counters>>

RecoveryStarts ==
    /\ pc = "recover" /\ journal # NoJournal /\ Trusted(journal)
    /\ mem' = journal
    /\ pc' = IF journal.phase \in Committed THEN "clean" ELSE "restore"
    /\ k' = 1
    /\ UNCHANGED <<journal, files, session, outcome, counters>>

\* A starting process wanted nothing else; a registry edit of another command
\* or of the running server is one atomic save.
Started ==
    /\ pc = "startup"
    /\ Ends("started")
    /\ UNCHANGED <<journal, files, op, before, counters>>

Edited ==
    /\ pc = "edit"
    /\ \/ registry # NoRegistry /\ registry.edits < MaxEdits
          /\ registry' = [registry EXCEPT !.edits = @ + 1]
       \/ UNCHANGED registry
    /\ Ends("edited")
    /\ UNCHANGED <<journal, live, staged, backup, data, snapshot, op, before, counters>>

-----------------------------------------------------------------------------
(* installPlugin() *)

New == installs + 1      \* the version this install brings

\* initialize(): the originals are recorded before anything is staged.
Intent == [phase |-> "initialized", at |-> 0, item |-> [i \in Items |-> "untouched"], had |-> live,
           data |-> Unknown, hookStarted |-> FALSE, registry |-> registry, evidence |-> Unknown]

Initialize ==
    /\ pc = "install"
    /\ journal' = Intent /\ mem' = Intent /\ own' = TRUE
    /\ installs' = installs + 1
    /\ pc' = "stage" /\ k' = 1
    /\ UNCHANGED <<files, op, before, outcome, faults, crashes>>

\* stageNpmPlugin(): npm writes the complete new tree beside the live one, or
\* the stage is removed again.  Only the last boundary, the lock file, may be
\* missing, if the live tree has none to start from.
Stage ==
    /\ pc = "stage"
    /\ \E last \in {New, Absent} :
          /\ HadLive(mem, N) => last = New
          /\ staged' = [i \in Items |-> IF i = N THEN last ELSE New]
    /\ pc' = "staged"
    /\ UNCHANGED <<journal, live, backup, data, snapshot, registry, session, mem, k, outcome, counters>>

StageThrows == Throws("stage", mem) /\ UNCHANGED files

In(phase) == [mem EXCEPT !.phase = phase, !.at = 0]

\* A mutant that does not verify the copy.
MutantSnapshot ==
    /\ pc = "snapshot"
    /\ snapshot' \in IF data = Absent THEN {Absent} ELSE {data, Broken}
    /\ mem' = [mem EXCEPT !.data = data]
    /\ pc' = "hook-pending"
    /\ UNCHANGED <<journal, live, staged, backup, data, registry, session, k, outcome, counters>>

\* snapshotData(): a copy is verified and renamed to .complete; a plugin
\* without data has nothing to copy.
Snapshot ==
    /\ pc = "snapshot"
    /\ snapshot' = data
    /\ mem' = [mem EXCEPT !.data = data]
    /\ pc' = "hook-pending"
    /\ UNCHANGED <<journal, live, staged, backup, data, registry, session, k, outcome, counters>>

\* The snapshot is removed when its phase cannot be persisted; the result
\* stays in the memory.
HookPendingThrows == Throws("hook-pending", mem) /\ snapshot' = Absent
                     /\ UNCHANGED <<live, staged, backup, data, registry>>

\* plugin.install(ctx): the hook writes the plugin's data as it likes.
HookWrites ==
    /\ pc \in {"hook", "hook-writes"}
    /\ \/ pc = "hook" /\ data' = Broken /\ pc' = "hook-writes"
       \/ data' = New /\ pc' = "hook-complete"
       \/ pc = "hook" /\ data' = data /\ pc' = "hook-complete"
    /\ UNCHANGED <<journal, live, staged, backup, snapshot, registry, session, mem, k, outcome, counters>>

HookThrows == (Throws("hook", mem) \/ Throws("hook-writes", mem)) /\ UNCHANGED files

At(phase) == [mem EXCEPT !.phase = phase, !.at = k]
Item(state) == [mem EXCEPT !.item[k] = state]
BackedUp == IF HadLive(mem, k) THEN Item("backed-up") ELSE mem

\* activate(): one boundary after the other is renamed away and replaced, if
\* there is something to rename.
RenameLive ==
    /\ pc = "rename-live"
    /\ backup' = [backup EXCEPT ![k] = live[k]]
    /\ live' = [live EXCEPT ![k] = Absent]
    /\ pc' = "backed-up"
    /\ UNCHANGED <<journal, staged, data, snapshot, registry, session, mem, k, outcome, counters>>

RenameStaged ==
    /\ pc = "rename-staged"
    /\ live' = [live EXCEPT ![k] = staged[k]]
    /\ staged' = [staged EXCEPT ![k] = Absent]
    /\ pc' = "activated"
    /\ UNCHANGED <<journal, backup, data, snapshot, registry, session, mem, k, outcome, counters>>

RenameThrows == (Throws("rename-live", mem) \/ Throws("rename-staged", mem)) /\ UNCHANGED files

\* pluginRegistry.save(): may throw before or after its rename.
NewEntry == [registry EXCEPT !.version = New]

SaveRegistry ==
    /\ pc = "save-registry"
    /\ registry' = NewEntry
    /\ pc' = "mark"
    /\ UNCHANGED <<journal, live, staged, backup, data, snapshot, session, mem, k, outcome, counters>>

SaveThrows == Throws("save-registry", mem) /\ registry' \in {registry, NewEntry}
              /\ UNCHANGED <<live, staged, backup, data, snapshot>>

\* The phases, in order.  markRegistryCommitted() takes the registry it reads
\* back as evidence; commit() starts the cleanup.
JournalStep ==
    \/ Persist("staged", In("staged"), "snapshot-pending")
    \/ Persist("snapshot-pending", In("snapshot-pending"), "snapshot")
    \/ Persist("hook-pending", In("hook-pending"), "hook-running")
    \/ Persist("hook-running", [In("hook-running") EXCEPT !.hookStarted = TRUE], "hook")
    \/ Persist("hook-complete", In("hook-complete"), "backup")
    \/ Persist("backup", At("backup"), "rename-live")
    \/ Persist("backed-up", BackedUp, "activate")
    \/ Persist("activate", At("activate"), "rename-staged")
    \/ Persist("activated", Item("activated"), IF k < N THEN "backup" ELSE "packages-activated")
    \/ Persist("packages-activated", In("packages-activated"), "registry-committing")
    \/ Persist("registry-committing", In("registry-committing"), "save-registry")
    \/ Persist("mark", [In("registry-committed") EXCEPT !.evidence = registry], "commit")
    \/ Persist("commit", In("committed"), "clean")

\* A phase that cannot be persisted is taken back in the memory, the state of
\* a boundary is not.
JournalThrows ==
    /\ \/ \E from \in {"staged", "snapshot-pending", "snapshot", "hook-running", "hook-complete", "backup",
                       "activate", "packages-activated", "registry-committing", "mark"} : Throws(from, mem)
       \/ Throws("backed-up", BackedUp)
       \/ Throws("activated", Item("activated"))
    /\ UNCHANGED files

\* commit() swallows its errors: the install stands, its cleanup is left to the
\* next session.
CommitThrows ==
    /\ pc = "commit" /\ faults < MaxFaults
    /\ faults' = faults + 1
    /\ Ends("installed")
    /\ UNCHANGED <<journal, files, op, before, installs, crashes>>

-----------------------------------------------------------------------------
(* restoreJournal(): each original is in place, or is put back from evidence *)

RollbackStarts ==
    /\ pc = "rollback" /\ Trusted(mem)
    /\ pc' = "restore" /\ k' = 1
    /\ UNCHANGED <<journal, files, session, mem, outcome, counters>>

Activated(i) ==
    \/ mem.item[i] = "activated"
    \/ /\ mem.phase \in {"packages-activated", "registry-committing"} \/ (mem.phase = "activate" /\ mem.at = i)
       /\ live[i] # Absent /\ staged[i] = Absent
       /\ backup[i] # Absent \/ ~HadLive(mem, i)

\* A tree to restore is removed first, which leaves it broken; then the
\* verified copy is renamed into its place.
PackageInPlace(i) == IF HadLive(mem, i) THEN live[i] = mem.had[i] ELSE live[i] = Absent \/ ~Activated(i)
PackageLost(i) == HadLive(mem, i) /\ ~PackageInPlace(i) /\ backup[i] # mem.had[i]

RestorePackage ==
    /\ pc = "restore" /\ k <= N /\ ~PackageLost(k)
    /\ IF PackageInPlace(k) THEN k' = k + 1 /\ UNCHANGED <<pc, live>>
       ELSE live' = [live EXCEPT ![k] = Broken] /\ pc' = "put-back" /\ UNCHANGED k
    /\ UNCHANGED <<journal, staged, backup, data, snapshot, registry, session, mem, outcome, counters>>

PutBack ==
    /\ pc = "put-back"
    /\ live' = [live EXCEPT ![k] = IF HadLive(mem, k) THEN backup[k] ELSE Absent]
    /\ pc' = "restore" /\ k' = k + 1
    /\ UNCHANGED <<journal, staged, backup, data, snapshot, registry, session, mem, outcome, counters>>

DataInPlace == \/ mem.data = Unknown
               \/ mem.data = Absent /\ ~mem.hookStarted
               \/ data = mem.data
DataLost == ~DataInPlace /\ mem.data # Absent /\ snapshot # mem.data

RestoreData ==
    /\ pc = "restore" /\ k > N /\ ~DataLost
    /\ IF DataInPlace THEN pc' = "restore-registry" /\ UNCHANGED data
       ELSE data' = Broken /\ pc' = "put-data-back"
    /\ UNCHANGED <<journal, live, staged, backup, snapshot, registry, session, mem, k, outcome, counters>>

PutDataBack ==
    /\ pc = "put-data-back"
    /\ data' = IF mem.data = Absent THEN Absent ELSE snapshot
    /\ pc' = "restore-registry"
    /\ UNCHANGED <<journal, live, staged, backup, snapshot, registry, session, mem, k, outcome, counters>>

\* A mutant that does not expect the registry its own transaction created.
MutantRegistryIsForeign == mem.registry = NoRegistry /\ registry # NoRegistry

RegistryIsForeign == mem.registry = NoRegistry /\ mem.phase # "registry-committing" /\ registry # NoRegistry

RestoreRegistry ==
    /\ pc = "restore-registry" /\ ~RegistryIsForeign
    /\ registry' = mem.registry
    /\ pc' = "clean"
    /\ UNCHANGED <<journal, live, staged, backup, data, snapshot, session, mem, k, outcome, counters>>

EvidenceMissing ==
    \/ pc = "restore" /\ k <= N /\ PackageLost(k)
    \/ pc = "restore" /\ k > N /\ DataLost
    \/ pc = "restore-registry" /\ RegistryIsForeign

\* A journal that is not trusted any more, or evidence that is gone, ends it.
Unsafe == (pc = "rollback" /\ ~Trusted(mem)) \/ EvidenceMissing

RestoreRefused ==
    /\ Unsafe
    /\ GivesUp
    /\ UNCHANGED <<journal, files, op, before, counters>>

-----------------------------------------------------------------------------
(* cleanJournalArtifacts(): the trees, the snapshot, and last the journal *)

CleanTrees ==
    /\ pc = "clean"
    /\ staged' = [i \in Items |-> Absent]
    /\ backup' = [i \in Items |-> Absent]
    /\ pc' = "clean-snapshot"
    /\ UNCHANGED <<journal, live, data, snapshot, registry, session, mem, k, outcome, counters>>

CleanSnapshot ==
    /\ pc = "clean-snapshot"
    /\ IF snapshot = Absent \/ snapshot = Broken THEN snapshot' = Absent /\ pc' = "clean-journal"
       ELSE snapshot' = Broken /\ UNCHANGED pc
    /\ UNCHANGED <<journal, live, staged, backup, data, registry, session, mem, k, outcome, counters>>

CleanJournal ==
    /\ pc = "clean-journal"
    /\ journal' = NoJournal
    /\ IF own THEN Ends(IF mem.phase \in Committed THEN "installed" ELSE "failed")
       ELSE pc' = "recover" /\ mem' = NoJournal /\ k' = 0 /\ UNCHANGED <<own, outcome>>
    /\ UNCHANGED <<files, op, before, counters>>

\* Restoring or cleaning up throws.
UndoThrows ==
    /\ pc \in {"recover", "rollback", "restore", "put-back", "put-data-back", "restore-registry",
              "clean", "clean-snapshot", "clean-journal"}
    /\ faults < MaxFaults
    /\ faults' = faults + 1
    /\ IF own /\ mem.phase \in Committed THEN Ends("installed") ELSE GivesUp
    /\ UNCHANGED <<journal, files, op, before, installs, crashes>>

Crash ==
    /\ pc # "idle" /\ crashes < MaxCrashes
    /\ crashes' = crashes + 1
    /\ Ends("none")
    /\ UNCHANGED <<journal, files, op, before, installs, faults>>

-----------------------------------------------------------------------------
\* Any mixture of boundaries may be there before the first install, with or
\* without data and registry.
Init ==
    /\ live \in [Items -> {Absent, 1}]
    /\ data \in {Absent, 1}
    /\ registry \in {NoRegistry, [version |-> 1, edits |-> 0]}
    /\ journal = NoJournal /\ snapshot = Absent
    /\ staged = [i \in Items |-> Absent] /\ backup = [i \in Items |-> Absent]
    /\ pc = "idle" /\ op = "startup" /\ own = FALSE /\ mem = NoJournal /\ k = 0
    /\ outcome = "none" /\ before = State
    /\ installs = 0 /\ faults = 0 /\ crashes = 0

Recover == NothingToRecover \/ Quarantined \/ RecoveryStarts
Install == Initialize \/ Stage \/ Snapshot \/ HookWrites \/ RenameLive \/ RenameStaged \/ SaveRegistry \/ JournalStep
Undo == RollbackStarts \/ RestorePackage \/ PutBack \/ RestoreData \/ PutDataBack
        \/ RestoreRegistry \/ RestoreRefused
Clean == CleanTrees \/ CleanSnapshot \/ CleanJournal
Work == Recover \/ Started \/ Edited \/ Install \/ Undo \/ Clean
Fault == StageThrows \/ HookPendingThrows \/ HookThrows \/ RenameThrows \/ SaveThrows \/ JournalThrows
         \/ CommitThrows \/ UndoThrows

Next == (\E o \in {"install", "edit", "startup"} : Acquire(o)) \/ Work \/ Fault \/ Crash

\* A session goes on by itself, and somebody starts a process again.
Fairness == WF_vars(Work) /\ WF_vars(Acquire("startup"))

Spec == Init /\ [][Next]_vars /\ Fairness

-----------------------------------------------------------------------------
(* Properties *)

\* Every variable stays in its type, and who holds no lock holds no transaction.
TypeOK ==
    /\ journal \in Journals \union {NoJournal} /\ mem \in Journals \union {NoJournal}
    /\ live \in [Items -> Trees] /\ staged \in [Items -> Trees] /\ backup \in [Items -> Trees]
    /\ data \in Trees /\ snapshot \in Trees /\ registry \in Registries
    /\ own \in BOOLEAN /\ k \in 0..(N + 1)
    /\ pc = "idle" => ~own /\ mem = NoJournal
    /\ installs \in 0..MaxInstalls /\ faults \in 0..MaxFaults /\ crashes \in 0..MaxCrashes

Undoable == journal # NoJournal /\ journal.phase \notin Committed

\* ADR 0007: whatever dies whenever, as long as the journal of an install that
\* is not committed lies there, every original it names is in place or its
\* verified copy is.
OriginalsSurvive ==
    Undoable =>
        /\ \A i \in Items : HadLive(journal, i) => journal.had[i] \in {live[i], backup[i]}
        /\ journal.data \notin {Unknown, Absent} => journal.data \in {data, snapshot}
        /\ registry = journal.registry \/ journal.phase = "registry-committing"

\* What the command tells its caller is so: after "failed" packages, data and
\* registry are what they were, after "installed" they are the new ones and
\* nothing will take them back.
ReportsAreTrue ==
    /\ outcome = "failed" => journal = NoJournal /\ State = before
    /\ outcome = "installed" =>
          /\ registry = [before.registry EXCEPT !.version = New]
          /\ \A i \in Items : live[i] = New \/ (live[i] = Absent /\ before.packages[i] = Absent)
          /\ ~Undoable

\* Nobody loses anything, and nobody is told otherwise.
NothingIsLost == OriginalsSurvive /\ ReportsAreTrue

\* The one state recovery cannot leave: it died, or failed, inside the removal
\* of the snapshot of an install it had already undone.
HalfRemoved == Undoable /\ snapshot = Broken

\* A journal that is left behind is finished or undone by a later session.
RecoveryCompletes == (journal # NoJournal) ~> (journal = NoJournal \/ HalfRemoved)

\* The abstract installation: what a journal that is not committed names is
\* still there, whatever the files hold.
Inst == INSTANCE Installation WITH
    Versions <- 0..(MaxInstalls + 1),
    packages <- IF Undoable THEN journal.had ELSE live,
    data <- IF Undoable /\ journal.data # Unknown THEN journal.data ELSE data,
    registry <- IF Undoable THEN journal.registry ELSE registry
ImplementsInstallation == Inst!Spec
=============================================================================
