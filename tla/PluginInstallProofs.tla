-------------------------- MODULE PluginInstallProofs --------------------------
(***************************************************************************)
(* For any number of package boundaries, installs, faults and crashes: the *)
(* journaled install keeps every original it names, says only what is so,  *)
(* and implements the all-or-nothing Installation.                         *)
(***************************************************************************)
EXTENDS PluginInstall, TLAPS

USE BoundsAssumption, ValuesAssumption

(***************************************************************************)
(* The inductive invariant, first of the files.                            *)
(***************************************************************************)
Waits    == {"idle", "recover", "install", "edit", "startup"}
Restores == {"restore", "put-back", "put-data-back", "restore-registry"}
Cleans   == {"clean", "clean-snapshot", "clean-journal"}
Stages   == {"stage", "staged", "snapshot-pending", "snapshot", "hook-pending"}
Hooks    == {"hook-running", "hook", "hook-writes", "hook-complete"}
Moves    == {"backup", "rename-live", "backed-up", "activate", "rename-staged", "activated"}
Commits  == {"packages-activated", "registry-committing", "save-registry", "mark", "commit"}
Installs == Stages \union Hooks \union Moves \union Commits

Points   == Waits \union Installs \union {"rollback"} \union Restores \union Cleans

Outcomes == {"none", "started", "edited", "installed", "failed", "rollback failed", "quarantined"}
States   == [packages : [Items -> Versions], data : Versions, registry : Registries]

Types ==
  /\ TypeOK
  /\ pc \in Points /\ op \in {"install", "edit", "startup"}
  /\ outcome \in Outcomes /\ before \in States

Vacant(i) == staged[i] = Absent /\ backup[i] = Absent

\* Without a journal there is nothing beside the live tree, and what is there
\* was brought by an install that has begun.
Settled ==
  /\ \A i \in Items : Vacant(i) /\ live[i] \in 0..New
  /\ snapshot = Absent
  /\ data \in 0..New
  /\ registry.version \in 0..New

\* The originals the journal names are older than the new version.
Older(j) ==
  /\ \A i \in Items : j.had[i] \in 0..installs
  /\ j.data \in (0..installs) \union {Unknown}
  /\ j.registry.version \in 0..installs

\* An original that is not in place is in its backup; what stands where
\* nothing was came from the stage, and the trees show it.
PackageKept(j, i) ==
  IF HadLive(j, i) THEN j.had[i] \in {live[i], backup[i]}
  ELSE live[i] # Absent => \/ j.item[i] = "activated"
                           \/ j.phase = "activate" /\ j.at = i /\ staged[i] = Absent

\* The data are what the journal names until the hook starts, and are in the
\* snapshot from then on.
DataKept(j) ==
  IF j.data = Unknown THEN data \in 0..installs
  ELSE data = j.data \/ (j.hookStarted /\ j.data \in {Absent, snapshot})

RegistryKept(j) ==
  \/ registry = j.registry
  \/ j.phase = "registry-committing" /\ registry = [j.registry EXCEPT !.version = New]

\* Behind the commit the new tree is live.
Renewed(j) ==
  /\ \A i \in Items : live[i] = New \/ (live[i] = Absent /\ ~HadLive(j, i) /\ i = N)
  /\ data \in 0..New
  /\ registry.version = New

Described(j) ==
  /\ Valid(j) /\ Older(j)
  /\ j.phase \notin Committed => (\A i \in Items : PackageKept(j, i)) /\ DataKept(j) /\ RegistryKept(j)
  /\ j.phase \in Committed => Renewed(j)

Disk == IF journal = NoJournal THEN Settled ELSE Described(journal)

(***************************************************************************)
(* The session at work.                                                    *)
(***************************************************************************)
Holds ==
  /\ own => pc \notin Waits
  /\ pc \in Installs \union {"rollback"} => own
  /\ pc \in Waits <=> mem = NoJournal
  /\ pc \notin Waits => journal # NoJournal
  /\ outcome # "none" => pc = "idle"
  /\ pc \in {"install", "edit", "startup"} => journal = NoJournal /\ pc = op
  /\ pc = "install" => before = State

\* A session that acquired the lock for an install still has one to make.
Begins == op = "install" /\ pc # "idle" /\ ~own => installs < MaxInstalls

\* What its own journal names is the state the session started from.
Remembers ==
  own =>
    /\ before.packages = journal.had /\ before.registry = journal.registry
    /\ journal.phase \notin Committed =>
         before.data = (IF journal.data = Unknown THEN data ELSE journal.data)
    /\ journal.phase \in Committed => registry = [before.registry EXCEPT !.version = New]

\* The memory of a session that goes back: the journal, and what this process
\* did behind it.
Agrees ==
  /\ mem.phase = journal.phase /\ mem.at = journal.at /\ mem.had = journal.had
  /\ mem.hookStarted = journal.hookStarted
  /\ mem.registry = journal.registry /\ mem.evidence = journal.evidence
  /\ \A i \in Items : journal.item[i] = "activated" => mem.item[i] = "activated"

PackagesBack(n) == \A i \in 1..n : live[i] = mem.had[i]
DataBack == mem.data # Unknown => data = mem.data

Restoring ==
  /\ pc = "rollback" => /\ Agrees /\ mem.phase \notin Committed
                        /\ mem.data = journal.data \/ mem.phase = "snapshot-pending"
  /\ pc \in Restores => Agrees /\ mem.data = journal.data /\ mem.phase \notin Committed
  /\ pc = "restore" => k \in 1..(N + 1) /\ PackagesBack(k - 1)
  /\ pc = "put-back" => k \in 1..N /\ PackagesBack(k - 1) /\ (HadLive(mem, k) => backup[k] = mem.had[k])
  /\ pc = "put-data-back" => /\ PackagesBack(N) /\ mem.hookStarted /\ mem.data # Unknown
                             /\ mem.data # Absent => snapshot = mem.data
  /\ pc = "restore-registry" => PackagesBack(N) /\ DataBack

Cleaning ==
  pc \in Cleans =>
    /\ Agrees /\ mem.data = journal.data
    /\ mem.phase \notin Committed => PackagesBack(N) /\ DataBack /\ registry = mem.registry
    /\ pc # "clean" => \A i \in Items : Vacant(i)
    /\ pc = "clean-journal" => snapshot = Absent

(***************************************************************************)
(* The install itself, stretch by stretch: a boundary waits, is renamed    *)
(* away, is replaced.                                                      *)
(***************************************************************************)
NewTree(tree, i) == tree = New \/ (tree = Absent /\ i = N /\ ~HadLive(mem, N))

Waiting(i)  == live[i] = mem.had[i] /\ backup[i] = Absent /\ NewTree(staged[i], i)
Renamed(i)  == live[i] = Absent /\ backup[i] = mem.had[i] /\ NewTree(staged[i], i)
Replaced(i) == NewTree(live[i], i) /\ staged[i] = Absent /\ backup[i] = mem.had[i]

AtPhase(phase) == journal.phase = phase

Staging ==
  /\ pc \in Stages => k = 1 /\ journal.data = Unknown
  /\ pc \in Stages \ {"hook-pending"} => mem = journal
  /\ pc \in {"stage", "staged"} => AtPhase("initialized")
  /\ pc = "snapshot-pending" => AtPhase("staged")
  /\ pc \in {"snapshot", "hook-pending"} => AtPhase("snapshot-pending")
  /\ pc = "hook-pending" => mem = [journal EXCEPT !.data = data] /\ snapshot = data
  /\ pc = "stage" => \A i \in Items : live[i] = mem.had[i] /\ Vacant(i)
  /\ pc \in Stages \ {"stage"} => \A i \in Items : Waiting(i)

Hooking ==
  /\ pc \in Hooks => mem = journal /\ k = 1 /\ snapshot = mem.data /\ \A i \in Items : Waiting(i)
  /\ pc = "hook-running" => AtPhase("hook-pending")
  /\ pc \in Hooks \ {"hook-running"} => AtPhase("hook-running")
  /\ pc \in {"hook-running", "hook"} => data = mem.data
  /\ pc = "hook-complete" => data \in {mem.data, New}

Moving ==
  /\ pc \in Moves =>
       /\ mem = journal /\ k \in 1..N
       /\ data \in {mem.data, New} /\ snapshot = mem.data
       /\ \A i \in 1..(k - 1) : Replaced(i)
       /\ \A i \in (k + 1)..N : Waiting(i)
  /\ pc = "backup" => IF k = 1 THEN AtPhase("hook-complete")
                      ELSE AtPhase("activate") /\ mem.at = k - 1 /\ mem.item[k - 1] = "activated"
  /\ pc \in {"rename-live", "backed-up", "activate"} => AtPhase("backup") /\ mem.at = k
  /\ pc \in {"rename-staged", "activated"} => AtPhase("activate") /\ mem.at = k
  /\ pc \in {"backup", "rename-live"} => Waiting(k)
  /\ pc \in {"backed-up", "activate", "rename-staged"} => Renamed(k)
  /\ pc = "activated" => Replaced(k)

Committing ==
  /\ pc \in Commits => mem = journal
  /\ pc \in Commits \ {"commit"} =>
       /\ \A i \in Items : Replaced(i)
       /\ data \in {mem.data, New} /\ snapshot = mem.data
  /\ pc = "packages-activated" => AtPhase("activate") /\ mem.at = N /\ mem.item[N] = "activated"
  /\ pc = "registry-committing" => AtPhase("packages-activated")
  /\ pc \in {"save-registry", "mark"} => AtPhase("registry-committing")
  /\ pc = "save-registry" => registry = mem.registry
  /\ pc = "mark" => registry = [mem.registry EXCEPT !.version = New]
  /\ pc = "commit" => AtPhase("registry-committed")

Session    == Holds /\ Begins /\ Remembers
GoingBack  == Restoring /\ Cleaning
GoingAhead == Staging /\ Hooking /\ Moving /\ Committing

IInv == Types /\ Disk /\ Session /\ GoingBack /\ GoingAhead /\ ReportsAreTrue

-----------------------------------------------------------------------------
(* Journals *)

\* What every journal has.
LEMMA JournalFields ==
  ASSUME NEW j \in Journals
  PROVE  /\ j # NoJournal /\ j.phase \in Phases /\ j.at \in 0..N
         /\ j.item \in [Items -> {"untouched", "backed-up", "activated"}]
         /\ j.had \in [Items -> Versions] /\ j.data \in Versions \union {Unknown} /\ j.hookStarted \in BOOLEAN
         /\ j.registry \in Registries /\ j.evidence \in Registries \union {Unknown}
BY DEF Journals

\* What the snapshot, the start of the hook and the commit note in a journal.
LEMMA JournalNotes ==
  ASSUME NEW j \in Journals, NEW d \in Versions
  PROVE  LET r == [j EXCEPT !.data = d]
         IN /\ r \in Journals /\ r.phase = j.phase /\ r.at = j.at /\ r.item = j.item
            /\ r.had = j.had /\ r.data = d /\ r.hookStarted = j.hookStarted
            /\ r.registry = j.registry /\ r.evidence = j.evidence
BY DEF Journals

LEMMA JournalStarts ==
  ASSUME NEW j \in Journals
  PROVE  LET r == [j EXCEPT !.hookStarted = TRUE]
         IN /\ r \in Journals /\ r.phase = j.phase /\ r.at = j.at /\ r.item = j.item
            /\ r.had = j.had /\ r.data = j.data /\ r.hookStarted
            /\ r.registry = j.registry /\ r.evidence = j.evidence
BY DEF Journals

LEMMA JournalProves ==
  ASSUME NEW j \in Journals, NEW e \in Registries
  PROVE  LET r == [j EXCEPT !.evidence = e]
         IN /\ r \in Journals /\ r.phase = j.phase /\ r.at = j.at /\ r.item = j.item
            /\ r.had = j.had /\ r.data = j.data /\ r.hookStarted = j.hookStarted
            /\ r.registry = j.registry /\ r.evidence = e
BY DEF Journals

\* A session that ends leaves nothing of itself.
LEMMA EndsTyped ==
  ASSUME NEW result, Ends(result)
  PROVE  /\ own' \in BOOLEAN /\ ~own'
         /\ mem' = NoJournal /\ k' \in 0..(N + 1) /\ pc' = "idle" /\ outcome' = result
<1>1. own' \in BOOLEAN /\ ~own'
  BY DEF Ends
<1>2. mem' = NoJournal /\ k' \in 0..(N + 1) /\ pc' = "idle" /\ outcome' = result
  BY DEF Ends
<1> QED BY <1>1, <1>2

-----------------------------------------------------------------------------
(* The journal steps of the install *)

\* A new phase, a new boundary and a new item state keep the originals named.
LEMMA InPhase ==
  ASSUME mem \in Journals, NEW phase \in Phases
  PROVE  /\ In(phase) \in Journals /\ In(phase).phase = phase /\ In(phase).at = 0
         /\ In(phase).had = mem.had /\ In(phase).registry = mem.registry /\ In(phase).data = mem.data
<1>1. 0 \in 0..N
  OBVIOUS
<1> QED BY <1>1 DEF In, Journals

LEMMA AtBoundary ==
  ASSUME mem \in Journals, k \in 1..N, NEW phase \in Phases
  PROVE  /\ At(phase) \in Journals /\ At(phase).phase = phase /\ At(phase).at = k
         /\ At(phase).had = mem.had /\ At(phase).registry = mem.registry /\ At(phase).data = mem.data
<1>1. k \in 0..N
  OBVIOUS
<1> QED BY <1>1 DEF At, Journals

LEMMA ItemState ==
  ASSUME mem \in Journals, k \in 1..N, NEW state \in {"untouched", "backed-up", "activated"}
  PROVE  /\ Item(state) \in Journals /\ Item(state).phase = mem.phase /\ Item(state).at = mem.at
         /\ Item(state).item = [mem.item EXCEPT ![k] = state]
         /\ Item(state).had = mem.had /\ Item(state).registry = mem.registry /\ Item(state).data = mem.data
         /\ Item(state).hookStarted = mem.hookStarted /\ Item(state).evidence = mem.evidence
BY DEF Item, Journals, Items

\* An install has its journal in the memory and on the disk.
LEMMA InstallHoldsJournal ==
  ASSUME IInv, pc \in Installs
  PROVE  mem \in Journals /\ journal \in Journals
BY DEF IInv, Types, TypeOK, Session, Holds, Waits, Installs, Stages, Hooks, Moves, Commits

LEMMA PhasesNamed ==
  /\ PrePackage \subseteq Phases /\ Committed \subseteq Phases
  /\ {"backup", "activate", "packages-activated", "registry-committing"} \subseteq Phases
BY DEF Phases

\* What a journal step writes: the phase, and the originals it had before.
Written(from, phase, at, to) ==
  /\ pc = from /\ pc' = to
  /\ mem \in Journals /\ journal \in Journals
  /\ journal' \in Journals /\ mem' = journal' /\ Valid(journal)'
  /\ journal'.phase = phase /\ journal'.at = at
  /\ journal'.had = mem.had /\ journal'.registry = mem.registry /\ journal'.data = mem.data
  /\ UNCHANGED <<live, staged, backup, data, snapshot, registry>>
  /\ UNCHANGED <<op, before, outcome, installs, faults, crashes>>
  /\ k' = IF from = "activated" THEN k + 1 ELSE k

LEMMA Persists ==
  ASSUME NEW from, NEW j \in Journals, NEW to, NEW phase, NEW at, mem \in Journals, journal \in Journals,
         Persist(from, j, to), j.phase = phase, j.at = at,
         j.had = mem.had, j.registry = mem.registry, j.data = mem.data
  PROVE  Written(from, phase, at, to)
<1>1. /\ pc = from /\ pc' = to /\ journal' = j /\ mem' = j /\ Valid(journal)'
      /\ UNCHANGED <<live, staged, backup, data, snapshot, registry>>
      /\ UNCHANGED <<op, before, outcome, installs, faults, crashes>>
      /\ k' = IF from = "activated" THEN k + 1 ELSE k
  BY DEF Persist, files, session, counters, Valid, PackagesFit, DataFits, EvidenceFits, HadLive
<1> QED BY <1>1 DEF Written

LEMMA PhaseWritten ==
  ASSUME IInv, NEW from \in Installs, NEW phase \in Phases, NEW to, Persist(from, In(phase), to)
  PROVE  Written(from, phase, 0, to)
<1>1. mem \in Journals /\ journal \in Journals
  BY InstallHoldsJournal DEF Persist
<1> QED BY <1>1, InPhase, Persists

\* The thirteen journal steps: where the session stands, the phase it writes
\* and where it goes on.
Writes ==
  \/ Written("staged", "staged", 0, "snapshot-pending")
  \/ Written("snapshot-pending", "snapshot-pending", 0, "snapshot")
  \/ Written("hook-pending", "hook-pending", 0, "hook-running")
  \/ Written("hook-running", "hook-running", 0, "hook")
  \/ Written("hook-complete", "hook-complete", 0, "backup")
  \/ Written("backup", "backup", k, "rename-live")
  \/ Written("backed-up", "backup", k, "activate")
  \/ Written("activate", "activate", k, "rename-staged")
  \/ Written("activated", "activate", k, IF k < N THEN "backup" ELSE "packages-activated")
  \/ Written("packages-activated", "packages-activated", 0, "registry-committing")
  \/ Written("registry-committing", "registry-committing", 0, "save-registry")
  \/ Written("mark", "registry-committed", 0, "commit")
  \/ Written("commit", "committed", 0, "clean")

LEMMA JournalWrites ==
  ASSUME IInv, JournalStep
  PROVE  Writes
<1>1. CASE Persist("staged", In("staged"), "snapshot-pending")
  BY <1>1, PhaseWritten DEF Writes, Installs, Stages, Hooks, Moves, Commits, Phases, PrePackage,
     Committed
<1>2. CASE Persist("snapshot-pending", In("snapshot-pending"), "snapshot")
  BY <1>2, PhaseWritten DEF Writes, Installs, Stages, Hooks, Moves, Commits, Phases, PrePackage,
     Committed
<1>3. CASE Persist("hook-pending", In("hook-pending"), "hook-running")
  BY <1>3, PhaseWritten DEF Writes, Installs, Stages, Hooks, Moves, Commits, Phases, PrePackage,
     Committed
<1>4. CASE Persist("hook-running", [In("hook-running") EXCEPT !.hookStarted = TRUE], "hook")
  <2>1. pc \in Installs /\ pc = "hook-running"
    BY <1>4 DEF Persist, Stages, Hooks, Moves, Commits, Installs
  <2>2. mem \in Journals /\ journal \in Journals
    BY <2>1, InstallHoldsJournal
  <2>3. /\ [In("hook-running") EXCEPT !.hookStarted = TRUE] \in Journals
        /\ [In("hook-running") EXCEPT !.hookStarted = TRUE].phase = "hook-running"
        /\ [In("hook-running") EXCEPT !.hookStarted = TRUE].at = 0
        /\ [In("hook-running") EXCEPT !.hookStarted = TRUE].had = mem.had
        /\ [In("hook-running") EXCEPT !.hookStarted = TRUE].registry = mem.registry
        /\ [In("hook-running") EXCEPT !.hookStarted = TRUE].data = mem.data
    BY <2>2, InPhase, JournalStarts, PhasesNamed DEF PrePackage
  <2>4. Written("hook-running", "hook-running", 0, "hook")
    BY <1>4, <2>2, <2>3, Persists
  <2> QED BY <2>4 DEF Writes
<1>5. CASE Persist("hook-complete", In("hook-complete"), "backup")
  BY <1>5, PhaseWritten DEF Writes, Installs, Stages, Hooks, Moves, Commits, Phases, PrePackage,
     Committed
<1>6. CASE Persist("backup", At("backup"), "rename-live")
  <2>1. pc \in Installs /\ pc = "backup"
    BY <1>6 DEF Persist, Stages, Hooks, Moves, Commits, Installs
  <2>2. mem \in Journals /\ journal \in Journals
    BY <2>1, InstallHoldsJournal
  <2>3. /\ At("backup") \in Journals /\ At("backup").phase = "backup" /\ At("backup").at = k
        /\ At("backup").had = mem.had /\ At("backup").registry = mem.registry /\ At("backup").data = mem.data
    BY <2>1, <2>2, AtBoundary, PhasesNamed DEF IInv, GoingAhead, Moving, Moves
  <2>4. Written("backup", "backup", k, "rename-live")
    BY <1>6, <2>2, <2>3, Persists
  <2> QED BY <2>4 DEF Writes
<1>7. CASE Persist("backed-up", BackedUp, "activate")
  <2>1. pc \in Installs /\ pc = "backed-up"
    BY <1>7 DEF Persist, Stages, Hooks, Moves, Commits, Installs
  <2>2. mem \in Journals /\ journal \in Journals
    BY <2>1, InstallHoldsJournal
  <2>3. /\ BackedUp \in Journals /\ BackedUp.phase = "backup" /\ BackedUp.at = k
        /\ BackedUp.had = mem.had /\ BackedUp.registry = mem.registry /\ BackedUp.data = mem.data
    BY <2>1, <2>2, ItemState DEF IInv, GoingAhead, Moving, Moves, AtPhase, BackedUp
  <2>4. Written("backed-up", "backup", k, "activate")
    BY <1>7, <2>2, <2>3, Persists
  <2> QED BY <2>4 DEF Writes
<1>8. CASE Persist("activate", At("activate"), "rename-staged")
  <2>1. pc \in Installs /\ pc = "activate"
    BY <1>8 DEF Persist, Stages, Hooks, Moves, Commits, Installs
  <2>2. mem \in Journals /\ journal \in Journals
    BY <2>1, InstallHoldsJournal
  <2>3. /\ At("activate") \in Journals /\ At("activate").phase = "activate" /\ At("activate").at = k
        /\ At("activate").had = mem.had /\ At("activate").registry = mem.registry
        /\ At("activate").data = mem.data
    BY <2>1, <2>2, AtBoundary, PhasesNamed DEF IInv, GoingAhead, Moving, Moves
  <2>4. Written("activate", "activate", k, "rename-staged")
    BY <1>8, <2>2, <2>3, Persists
  <2> QED BY <2>4 DEF Writes
<1>9. CASE Persist("activated", Item("activated"), IF k < N THEN "backup" ELSE "packages-activated")
  <2>1. pc \in Installs /\ pc = "activated"
    BY <1>9 DEF Persist, Stages, Hooks, Moves, Commits, Installs
  <2>2. mem \in Journals /\ journal \in Journals
    BY <2>1, InstallHoldsJournal
  <2>3. /\ Item("activated") \in Journals /\ Item("activated").phase = "activate" /\ Item("activated").at = k
        /\ Item("activated").had = mem.had /\ Item("activated").registry = mem.registry
        /\ Item("activated").data = mem.data
    BY <2>1, <2>2, ItemState DEF IInv, GoingAhead, Moving, Moves, AtPhase
  <2>4. Written("activated", "activate", k, IF k < N THEN "backup" ELSE "packages-activated")
    BY <1>9, <2>2, <2>3, Persists
  <2> QED BY <2>4 DEF Writes
<1>10. CASE Persist("packages-activated", In("packages-activated"), "registry-committing")
  BY <1>10, PhaseWritten DEF Writes, Installs, Stages, Hooks, Moves, Commits, Phases, PrePackage,
     Committed
<1>11. CASE Persist("registry-committing", In("registry-committing"), "save-registry")
  BY <1>11, PhaseWritten DEF Writes, Installs, Stages, Hooks, Moves, Commits, Phases, PrePackage,
     Committed
<1>12. CASE Persist("mark", [In("registry-committed") EXCEPT !.evidence = registry], "commit")
  <2>1. pc \in Installs /\ pc = "mark"
    BY <1>12 DEF Persist, Stages, Hooks, Moves, Commits, Installs
  <2>2. mem \in Journals /\ journal \in Journals
    BY <2>1, InstallHoldsJournal
  <2>3. /\ [In("registry-committed") EXCEPT !.evidence = registry] \in Journals
        /\ [In("registry-committed") EXCEPT !.evidence = registry].phase = "registry-committed"
        /\ [In("registry-committed") EXCEPT !.evidence = registry].at = 0
        /\ [In("registry-committed") EXCEPT !.evidence = registry].had = mem.had
        /\ [In("registry-committed") EXCEPT !.evidence = registry].registry = mem.registry
        /\ [In("registry-committed") EXCEPT !.evidence = registry].data = mem.data
    BY <2>2, InPhase, JournalProves, PhasesNamed DEF Committed, IInv, Types, TypeOK
  <2>4. Written("mark", "registry-committed", 0, "commit")
    BY <1>12, <2>2, <2>3, Persists
  <2> QED BY <2>4 DEF Writes
<1>13. CASE Persist("commit", In("committed"), "clean")
  BY <1>13, PhaseWritten DEF Writes, Installs, Stages, Hooks, Moves, Commits, Phases, PrePackage,
     Committed
<1> QED BY <1>1, <1>2, <1>3, <1>4, <1>5, <1>6, <1>7, <1>8, <1>9, <1>10, <1>11, <1>12, <1>13 DEF
        JournalStep

\* Between the snapshot and the phase that notes it the memory is ahead of the
\* journal by the data.
LEMMA HookPendingMemory ==
  ASSUME IInv, pc = "hook-pending"
  PROVE  /\ mem \in Journals /\ mem.data = data /\ data \in 0..installs
         /\ mem.had = journal.had /\ mem.registry = journal.registry
         /\ mem.phase = "snapshot-pending" /\ journal.data = Unknown /\ Agrees
<1>1. journal \in Journals /\ journal.phase = "snapshot-pending"
  BY InstallHoldsJournal DEF Installs, Stages, IInv, GoingAhead, Staging, AtPhase
<1>2. journal.data = Unknown /\ mem = [journal EXCEPT !.data = data]
  BY DEF IInv, GoingAhead, Staging, Stages
<1>3. data \in 0..installs /\ data \in Versions
  BY <1>1, <1>2, JournalFields DEF IInv, Disk, Described, DataKept, Committed, Types, TypeOK, Versions
<1>4. Agrees
  BY <1>1, <1>2, <1>3, JournalNotes DEF Agrees
<1> QED BY <1>1, <1>2, <1>3, <1>4, JournalNotes

-----------------------------------------------------------------------------
(* What a step may do *)

\* The steps that touch a file, and those that touch nothing but the journal.
FileStep ==
  \/ Stage \/ Snapshot \/ HookWrites \/ RenameLive \/ RenameStaged \/ SaveRegistry \/ Edited
  \/ RestorePackage \/ PutBack \/ RestoreData \/ PutDataBack \/ RestoreRegistry
  \/ CleanTrees \/ CleanSnapshot \/ HookPendingThrows \/ SaveThrows

LEMMA FileSteps ==
  ASSUME [Next]_vars
  PROVE  UNCHANGED files \/ FileStep
BY DEF Next, vars, Work, Recover, Install, Undo, Clean, Fault, FileStep, Acquire, NothingToRecover,
   Quarantined, RecoveryStarts, Started, Initialize, JournalStep, Persist, RollbackStarts,
   RestoreRefused, CleanJournal, StageThrows, HookThrows, RenameThrows, JournalThrows, CommitThrows,
   UndoThrows, Crash

\* Who writes the journal, who the memory, who counts an install.
LEMMA JournalChanges ==
  ASSUME [Next]_vars
  PROVE  journal' = journal \/ Initialize \/ JournalStep \/ CleanJournal
BY DEF Next, vars, Work, Recover, Install, Undo, Clean, Fault, Acquire, NothingToRecover, Quarantined,
   RecoveryStarts, Started, Edited, Stage, Snapshot, HookWrites, RenameLive, RenameStaged,
   SaveRegistry, RollbackStarts, RestorePackage, PutBack, RestoreData, PutDataBack, RestoreRegistry,
   RestoreRefused, CleanTrees, CleanSnapshot, StageThrows, HookPendingThrows, HookThrows,
   RenameThrows, SaveThrows, JournalThrows, CommitThrows, UndoThrows, Crash, Throws

LEMMA MemoryChanges ==
  ASSUME [Next]_vars
  PROVE  \/ mem' \in {mem, journal, NoJournal}
         \/ Initialize \/ Snapshot \/ JournalStep \/ JournalThrows
BY DEF Next, vars, Work, Recover, Install, Undo, Clean, Fault, Acquire, NothingToRecover, Quarantined,
   RecoveryStarts, Started, Edited, Stage, HookWrites, RenameLive, RenameStaged, SaveRegistry,
   RollbackStarts, RestorePackage, PutBack, RestoreData, PutDataBack, RestoreRegistry,
   RestoreRefused, CleanTrees, CleanSnapshot, CleanJournal, StageThrows, HookPendingThrows,
   HookThrows, RenameThrows, SaveThrows, CommitThrows, UndoThrows, Crash, Throws, Ends, GivesUp

LEMMA InstallsCount ==
  ASSUME [Next]_vars
  PROVE  installs' = installs \/ Initialize
BY DEF Next, vars, Work, Recover, Install, Undo, Clean, Fault, Acquire, NothingToRecover, Quarantined,
   RecoveryStarts, Started, Edited, Stage, Snapshot, HookWrites, RenameLive, RenameStaged,
   SaveRegistry, JournalStep, Persist, RollbackStarts, RestorePackage, PutBack, RestoreData,
   PutDataBack, RestoreRegistry, RestoreRefused, CleanTrees, CleanSnapshot, CleanJournal,
   StageThrows, HookPendingThrows, HookThrows, RenameThrows, SaveThrows, JournalThrows,
   CommitThrows, UndoThrows, Crash, Throws, counters

\* The steps of an install, the steps that lead back from it or clean up behind
\* it, and the steps between the transactions.
AheadStep ==
  \/ Initialize \/ Stage \/ Snapshot \/ HookWrites \/ RenameLive \/ RenameStaged \/ SaveRegistry
  \/ JournalStep

BackStep ==
  \/ RecoveryStarts \/ RollbackStarts
  \/ RestorePackage \/ PutBack \/ RestoreData \/ PutDataBack \/ RestoreRegistry
  \/ CleanTrees \/ CleanSnapshot
  \/ StageThrows \/ HookPendingThrows \/ HookThrows \/ RenameThrows \/ SaveThrows \/ JournalThrows

WaitStep ==
  \/ \E o \in {"install", "edit", "startup"} : Acquire(o)
  \/ NothingToRecover \/ Quarantined \/ Started \/ Edited \/ RestoreRefused \/ CleanJournal
  \/ CommitThrows \/ UndoThrows \/ Crash

LEMMA Steps ==
  ASSUME [Next]_vars
  PROVE  WaitStep \/ AheadStep \/ BackStep \/ UNCHANGED vars
BY DEF Next, Work, Recover, Install, Undo, Clean, Fault, WaitStep, AheadStep, BackStep

\* A session between transactions holds nothing.
LEMMA WaitSteps ==
  ASSUME IInv, WaitStep
  PROVE  /\ pc' \in Waits /\ mem' = NoJournal
BY DEF WaitStep, Acquire, NothingToRecover, Quarantined, Started, Edited, RestoreRefused, CleanJournal,
   CommitThrows, UndoThrows, Crash, GivesUp, Ends, Waits, IInv, Types, TypeOK, Session, Holds

LEMMA WaitsEnd ==
  ASSUME IInv, WaitStep
  PROVE  /\ pc' = "idle" \/ (pc' = "recover" /\ outcome' = "none") \/ NothingToRecover
BY DEF WaitStep, Acquire, Quarantined, Started, Edited, RestoreRefused, CleanJournal, CommitThrows,
   UndoThrows, Crash, GivesUp, Ends, IInv, Session, Holds, Cleans

LEMMA WaitsOwnNothing ==
  ASSUME IInv, WaitStep
  PROVE ~own'
BY DEF WaitStep, Acquire, NothingToRecover, Quarantined, Started, Edited, RestoreRefused, CleanJournal,
   CommitThrows, UndoThrows, Crash, GivesUp, Ends, Waits, IInv, Types, TypeOK, Session, Holds

\* Going back leaves the journal, and what was said, alone.
LEMMA BackSteps ==
  ASSUME IInv, BackStep
  PROVE  /\ pc' \in {"rollback"} \union Restores \union Cleans
         /\ UNCHANGED <<journal, op, before, outcome, installs>> /\ own' = own
<1> USE DEF Restores, Cleans, files, session, counters
<1>1. CASE RecoveryStarts \/ RollbackStarts
  BY <1>1 DEF RecoveryStarts, RollbackStarts
<1>2. CASE RestorePackage \/ PutBack \/ RestoreData \/ PutDataBack \/ RestoreRegistry
  BY <1>2 DEF RestorePackage, PutBack, RestoreData, PutDataBack, RestoreRegistry
<1>3. CASE CleanTrees \/ CleanSnapshot
  BY <1>3 DEF CleanTrees, CleanSnapshot
<1>4. CASE StageThrows \/ HookPendingThrows \/ HookThrows \/ RenameThrows \/ SaveThrows \/ JournalThrows
  BY <1>4 DEF StageThrows, HookPendingThrows, HookThrows, RenameThrows, SaveThrows, JournalThrows,
     Throws
<1> QED BY <1>1, <1>2, <1>3, <1>4 DEF BackStep

LEMMA AheadSteps ==
  ASSUME IInv, AheadStep
  PROVE  /\ pc' \in Installs \union {"clean"}
         /\ UNCHANGED <<op, before, outcome>>
<1> USE DEF Installs, Stages, Hooks, Moves, Commits, session
<1>1. CASE JournalStep
  BY <1>1, JournalWrites DEF Writes, Written
<1>2. CASE Initialize \/ Stage \/ Snapshot \/ HookWrites \/ RenameLive \/ RenameStaged \/ SaveRegistry
  BY <1>2 DEF Initialize, Stage, Snapshot, HookWrites, RenameLive, RenameStaged, SaveRegistry
<1> QED BY <1>1, <1>2 DEF AheadStep

\* An install that moves boundaries has a journal that is not committed.
LEMMA Ahead ==
  ASSUME IInv, pc \in Moves \union Commits \union Hooks, pc # "commit"
  PROVE  /\ journal # NoJournal /\ journal.phase \notin Committed /\ mem = journal
         /\ journal.data # Unknown /\ (pc # "hook-running" => journal.hookStarted)
<1>1. journal \in Journals /\ journal # NoJournal /\ mem = journal
  BY InstallHoldsJournal, JournalFields DEF Installs, IInv, GoingAhead, Hooking, Moving, Committing
<1>2. /\ journal.phase \in Phases \ Committed
      /\ journal.phase \notin {"initialized", "staged", "snapshot-pending"}
      /\ ((journal.phase = "hook-pending") <=> (pc = "hook-running"))
  BY <1>1, JournalFields DEF IInv, GoingAhead, Hooking, Moving, Committing, AtPhase, Committed, Hooks,
     Moves, Commits
<1>3. DataFits(journal)
  BY <1>1 DEF IInv, Disk, Described, Valid
<1> QED BY <1>1, <1>2, <1>3 DEF DataFits

\* What a session that undoes or cleans up knows.
LEMMA Behind ==
  ASSUME IInv, pc \in Restores \union Cleans
  PROVE  /\ journal # NoJournal /\ journal \in Journals /\ mem \in Journals /\ Agrees /\ mem.data = journal.data
         /\ pc \in Restores => journal.phase \notin Committed /\ mem.phase \notin Committed
BY DEF IInv, Types, TypeOK, Session, Holds, Waits, Restores, Cleans, GoingBack, Restoring, Cleaning,
   Agrees

\* What the disk holds of an install that is not committed.
LEMMA Kept ==
  ASSUME IInv, journal # NoJournal, journal.phase \notin Committed
  PROVE  /\ journal \in Journals /\ Valid(journal) /\ Older(journal)
         /\ \A i \in Items : PackageKept(journal, i)
         /\ DataKept(journal) /\ RegistryKept(journal)
BY DEF IInv, Types, TypeOK, Disk, Described

\* What initialize() and snapshotData() write down is a journal.
LEMMA IntentIsAJournal ==
  ASSUME IInv, journal = NoJournal
  PROVE  Intent \in Journals
<1>1. live \in [Items -> Versions] /\ registry \in Registries
  <2>1. \A i \in Items : live[i] \in Nat
    BY DEF IInv, Disk, Settled, Types, TypeOK, New
  <2> QED BY <2>1 DEF IInv, Types, TypeOK, Versions
<1>2. [i \in Items |-> "untouched"] \in [Items -> {"untouched", "backed-up", "activated"}]
  OBVIOUS
<1>3. 0 \in 0..N /\ "initialized" \in Phases
  BY DEF Phases, PrePackage
<1> QED BY <1>1, <1>2, <1>3 DEF Intent, Journals

LEMMA SnapshotNotes ==
  ASSUME IInv, Snapshot
  PROVE  /\ journal \in Journals /\ mem = journal /\ journal.phase = "snapshot-pending"
         /\ journal.data = Unknown
         /\ mem' \in Journals /\ mem' # NoJournal
<1>1. journal \in Journals /\ mem = journal /\ journal.phase = "snapshot-pending" /\ journal.data = Unknown
  BY InstallHoldsJournal DEF Snapshot, IInv, GoingAhead, Staging, AtPhase, Stages, Installs
<1>2. data \in Versions
  BY <1>1, JournalFields DEF IInv, Disk, Described, DataKept, Committed, Types, TypeOK, Versions
<1> QED BY <1>1, <1>2, JournalNotes, JournalFields DEF Snapshot

LEMMA ThrowsTyped ==
  ASSUME IInv, JournalThrows
  PROVE  pc \in Installs /\ mem' \in Journals
<1>1. pc \in Installs
  BY DEF JournalThrows, Throws, Installs, Stages, Hooks, Moves, Commits
<1>2. mem' \in Journals
  BY <1>1, InstallHoldsJournal, ItemState DEF JournalThrows, Throws, BackedUp, IInv, GoingAhead, Moving,
     Moves
<1> QED BY <1>1, <1>2

-----------------------------------------------------------------------------
(* Types *)

\* The trees, the data and the registry stay what they are.
LEMMA FilesTyped ==
  ASSUME IInv, [Next]_vars
  PROVE  /\ live' \in [Items -> Trees] /\ staged' \in [Items -> Trees] /\ backup' \in [Items -> Trees]
         /\ data' \in Trees /\ snapshot' \in Trees /\ registry' \in Registries
<1> USE DEF IInv, Types, TypeOK
<1>0. Absent \in Trees /\ Broken \in Trees /\ New \in Trees /\ Versions \subseteq Trees /\ installs \in Nat
  BY DEF Absent, Trees, Versions, New
<1>1. CASE UNCHANGED files
  BY <1>1 DEF files
<1>2. CASE Stage
  BY <1>0, <1>2 DEF Stage
<1>3. CASE Snapshot
  BY <1>3 DEF Snapshot
<1>4. CASE HookWrites
  BY <1>0, <1>4 DEF HookWrites
<1>5. CASE RenameLive
  BY <1>0, <1>5 DEF RenameLive, GoingAhead, Moving, Moves, Items
<1>6. CASE RenameStaged
  BY <1>0, <1>6 DEF RenameStaged, GoingAhead, Moving, Moves, Items
<1>7. CASE SaveRegistry \/ SaveThrows
  <2>1. NewEntry \in Registries
    BY <1>0 DEF NewEntry, Registries, Versions, New
  <2> QED BY <1>7, <2>1 DEF SaveRegistry, SaveThrows, Throws
<1>8. CASE Edited
  <2>1. registry' \in Registries
    BY <1>8 DEF Edited, Registries
  <2> QED BY <1>8, <2>1 DEF Edited
<1>9. CASE RestorePackage
  BY <1>0, <1>9 DEF RestorePackage
<1>10. CASE PutBack
  BY <1>0, <1>10 DEF PutBack, GoingBack, Restoring, Items
<1>11. CASE RestoreData
  BY <1>0, <1>11 DEF RestoreData
<1>12. CASE PutDataBack
  BY <1>0, <1>12 DEF PutDataBack
<1>13. CASE RestoreRegistry
  <2>1. mem \in Journals
    BY <1>13, Behind DEF RestoreRegistry, Restores
  <2> QED BY <1>13, <2>1, JournalFields DEF RestoreRegistry
<1>14. CASE CleanTrees
  BY <1>0, <1>14 DEF CleanTrees
<1>15. CASE CleanSnapshot \/ HookPendingThrows
  BY <1>0, <1>15 DEF CleanSnapshot, HookPendingThrows, Throws
<1> QED
  BY <1>1, <1>2, <1>3, <1>4, <1>5, <1>6, <1>7, <1>8, <1>9, <1>10, <1>11, <1>12, <1>13, <1>14, <1>15,
     FileSteps DEF FileStep

\* So do the journal and the memory,
LEMMA JournalsTyped ==
  ASSUME IInv, [Next]_vars
  PROVE  journal' \in Journals \union {NoJournal} /\ mem' \in Journals \union {NoJournal}
<1>1. journal \in Journals \union {NoJournal} /\ mem \in Journals \union {NoJournal}
  BY DEF IInv, Types, TypeOK
<1>2. CASE Initialize
  BY <1>2, IntentIsAJournal DEF Initialize, IInv, Session, Holds
<1>3. CASE JournalStep
  BY <1>3, JournalWrites DEF Writes, Written
<1>4. CASE CleanJournal
  BY <1>1, <1>4 DEF CleanJournal, Ends
<1>5. CASE Snapshot
  BY <1>1, <1>5, SnapshotNotes DEF Snapshot
<1>6. CASE JournalThrows
  BY <1>1, <1>6, ThrowsTyped, JournalChanges DEF JournalThrows, Throws
<1> QED BY <1>1, <1>2, <1>3, <1>4, <1>5, <1>6, JournalChanges, MemoryChanges

\* the counters: an install that starts is one of MaxInstalls,
LEMMA CountersTyped ==
  ASSUME IInv, [Next]_vars
  PROVE  installs' \in 0..MaxInstalls /\ faults' \in 0..MaxFaults /\ crashes' \in 0..MaxCrashes
<1> USE DEF IInv, Types, TypeOK
<1>1. faults' \in 0..MaxFaults /\ crashes' \in 0..MaxCrashes
  <2>1. \/ UNCHANGED <<faults, crashes>>
        \/ faults < MaxFaults /\ faults' = faults + 1 /\ crashes' = crashes
        \/ crashes < MaxCrashes /\ crashes' = crashes + 1 /\ faults' = faults
    BY DEF Next, vars, Work, Recover, Install, Undo, Clean, Fault, Acquire, NothingToRecover,
       Quarantined, RecoveryStarts, Started, Edited, Initialize, Stage, Snapshot, HookWrites,
       RenameLive, RenameStaged, SaveRegistry, JournalStep, Persist, RollbackStarts, RestorePackage,
       PutBack, RestoreData, PutDataBack, RestoreRegistry, RestoreRefused, CleanTrees,
       CleanSnapshot, CleanJournal, StageThrows, HookPendingThrows, HookThrows, RenameThrows,
       SaveThrows, JournalThrows, CommitThrows, UndoThrows, Crash, Throws, counters
  <2> QED BY <2>1
<1>2. installs' \in 0..MaxInstalls
  <2>1. CASE Initialize
    <3>1. pc = "install" /\ op = "install" /\ ~own
      BY <2>1 DEF Initialize, Session, Holds, Waits
    <3> QED BY <2>1, <3>1 DEF Initialize, Session, Begins
  <2>2. CASE installs' = installs
    BY <2>2
  <2> QED BY <2>1, <2>2, InstallsCount
<1> QED BY <1>1, <1>2

\* and the control state.
LEMMA OpTyped ==
  ASSUME IInv, [Next]_vars
  PROVE  op' \in {"install", "edit", "startup"}
BY Steps, AheadSteps, BackSteps DEF WaitStep, IInv, Types, vars, session, Acquire, NothingToRecover,
   Quarantined, Started, Edited, RestoreRefused, CleanJournal, CommitThrows, UndoThrows, Crash

LEMMA OutcomeTyped ==
  ASSUME IInv, [Next]_vars
  PROVE  outcome' \in Outcomes
<1>1. CASE WaitStep
BY <1>1 DEF Outcomes, WaitStep, IInv, Types, vars, session, Acquire, NothingToRecover, Quarantined,
   Started, Edited, RestoreRefused, CleanJournal, CommitThrows, UndoThrows, Crash, Ends, GivesUp
<1> QED BY <1>1, Steps, AheadSteps, BackSteps DEF IInv, Types, vars

LEMMA BeforeTyped ==
  ASSUME IInv, [Next]_vars
  PROVE  before' \in States
<1>1. CASE NothingToRecover
  <2>1. \A i \in Items : live[i] \in Nat
    BY <1>1 DEF NothingToRecover, IInv, Disk, Settled, Types, TypeOK, New
  <2>2. live \in [Items -> Versions] /\ data \in Versions /\ registry \in Registries
    BY <1>1, <2>1 DEF NothingToRecover, IInv, Disk, Settled, Types, TypeOK, New, Versions
  <2> QED BY <1>1, <2>2 DEF NothingToRecover, State, States
<1>2. CASE WaitStep /\ ~NothingToRecover
BY <1>2 DEF WaitStep, IInv, Types, session, Acquire, Quarantined, Started, Edited, RestoreRefused,
   CleanJournal, CommitThrows, UndoThrows, Crash
<1> QED BY <1>1, <1>2, Steps, AheadSteps, BackSteps DEF IInv, Types, vars, session

LEMMA BoundaryTyped ==
  ASSUME IInv, [Next]_vars
  PROVE  k' \in 0..(N+1)
<1> USE DEF IInv, Types, TypeOK
<1>0. k \in 0..(N + 1) /\ 0 \in 0..(N + 1) /\ 1 \in 0..(N + 1) /\ (k <= N => k + 1 \in 0..(N + 1))
  OBVIOUS
<1>1. CASE WaitStep
 BY <1>0, <1>1 DEF WaitStep, Acquire, NothingToRecover, Quarantined, Started, Edited, RestoreRefused,
    CleanJournal, CommitThrows, UndoThrows, Crash, Ends, GivesUp
<1>2. CASE BackStep
  BY <1>0, <1>2 DEF BackStep, RecoveryStarts, RollbackStarts, RestorePackage, PutBack, RestoreData,
     PutDataBack, RestoreRegistry, CleanTrees, CleanSnapshot, StageThrows, HookPendingThrows,
     HookThrows, RenameThrows, SaveThrows, JournalThrows, Throws, GoingBack, Restoring
<1>3. CASE AheadStep
  <2>1. CASE JournalStep
    BY <1>0, <2>1, JournalWrites DEF Writes, Written, GoingAhead, Moving, Moves
  <2> QED
   BY <1>0, <1>3, <2>1 DEF AheadStep, Initialize, Stage, Snapshot, HookWrites, RenameLive, RenameStaged,
      SaveRegistry
<1> QED BY <1>0, <1>1, <1>2, <1>3, Steps DEF vars

LEMMA OwnTyped ==
  ASSUME IInv, [Next]_vars
  PROVE  own' \in BOOLEAN
BY DEF IInv, Types, TypeOK, Next, vars, Work, Recover, Install, Undo, Clean, Fault, Acquire,
   NothingToRecover, Quarantined, RecoveryStarts, Started, Edited, Initialize, Stage, Snapshot,
   HookWrites, RenameLive, RenameStaged, SaveRegistry, JournalStep, Persist, RollbackStarts,
   RestorePackage, PutBack, RestoreData, PutDataBack, RestoreRegistry, RestoreRefused, CleanTrees,
   CleanSnapshot, CleanJournal, StageThrows, HookPendingThrows, HookThrows, RenameThrows,
   SaveThrows, JournalThrows, CommitThrows, UndoThrows, Crash, Throws, session, Ends, GivesUp

LEMMA ProgramCounterTyped ==
  ASSUME IInv, [Next]_vars
  PROVE  pc' \in Points
BY Steps, WaitSteps, AheadSteps, BackSteps DEF IInv, Types, vars, Points, Waits, Cleans

\* Together: every step keeps the types.
LEMMA TypesStep ==
  ASSUME IInv, [Next]_vars
  PROVE  Types'
<1>1. (pc = "idle" => ~own /\ mem = NoJournal)'
  <2>1. CASE WaitStep
    BY <2>1, WaitSteps, WaitsOwnNothing
  <2>2. CASE AheadStep
    BY <2>2, AheadSteps DEF Installs, Stages, Hooks, Moves, Commits
  <2>3. CASE BackStep
    BY <2>3, BackSteps DEF Restores, Cleans
  <2>4. CASE UNCHANGED vars
    <3>1. pc' = pc /\ mem' = mem /\ own' = own
      BY <2>4 DEF vars, session
    <3> QED BY <3>1 DEF IInv, Types, TypeOK
  <2> QED BY <2>1, <2>2, <2>3, <2>4, Steps
<1>2. TypeOK'
  BY <1>1, FilesTyped, JournalsTyped, CountersTyped, BoundaryTyped, OwnTyped DEF TypeOK
<1> QED BY <1>2, OpTyped, OutcomeTyped, BeforeTyped, ProgramCounterTyped DEF Types

-----------------------------------------------------------------------------
(* The disk: every original in place or in its backup *)

\* Nothing touched, nothing lost.
LEMMA DiskFrame ==
  ASSUME IInv, UNCHANGED <<journal, live, staged, backup, data, snapshot, registry, installs>>
  PROVE  Disk'
BY DEF IInv, Disk, Settled, Described, Valid, PackagesFit, DataFits, EvidenceFits, Older, PackageKept,
   DataKept, RegistryKept, Renewed, HadLive, Vacant, New

\* For the steps that move files it is enough to follow what the journal names.
LEMMA DiskMoves ==
  ASSUME IInv, journal # NoJournal, journal.phase \notin Committed, UNCHANGED <<journal, installs>>,
         \A i \in Items : PackageKept(journal, i)', DataKept(journal)', RegistryKept(journal)'
  PROVE  Disk'
<1>1. Valid(journal) /\ Older(journal)
  BY DEF IInv, Disk, Described
<1>2. Valid(journal)' /\ Older(journal)'
  BY <1>1 DEF Valid, PackagesFit, DataFits, EvidenceFits, HadLive, Older
<1> QED BY <1>2 DEF Disk, Described

\* A boundary renamed away is in its backup ...
LEMMA RenameLiveKeeps ==
  ASSUME IInv, RenameLive
  PROVE  Disk'
<1>1. journal # NoJournal /\ journal.phase \notin Committed /\ mem = journal
  BY Ahead DEF RenameLive, Moves
<1>2. k \in Items /\ live[k] = journal.had[k] /\ (HadLive(journal, k) \/ ~HadLive(journal, k))
  BY <1>1 DEF RenameLive, IInv, GoingAhead, Moving, Moves, Waiting, Items
<1>3. live \in [Items -> Trees] /\ backup \in [Items -> Trees]
  BY DEF IInv, Types, TypeOK
<1>4. ASSUME NEW i \in Items PROVE PackageKept(journal, i)'
  BY <1>1, <1>2, <1>3, Kept DEF PackageKept, RenameLive, HadLive, Absent
<1>5. DataKept(journal)' /\ RegistryKept(journal)' /\ UNCHANGED <<journal, installs>>
  BY <1>1, Kept DEF RenameLive, DataKept, RegistryKept, counters, New
<1> QED BY <1>1, <1>4, <1>5, DiskMoves

\* ... before the staged one takes its place.
LEMMA RenameStagedKeeps ==
  ASSUME IInv, RenameStaged
  PROVE  Disk'
<1>1. journal # NoJournal /\ journal.phase \notin Committed /\ mem = journal
  BY Ahead DEF RenameStaged, Moves
<1>2. k \in Items /\ backup[k] = journal.had[k] /\ journal.phase = "activate" /\ journal.at = k
  BY <1>1 DEF RenameStaged, IInv, GoingAhead, Moving, Moves, Renamed, Items, AtPhase
<1>3. live \in [Items -> Trees] /\ staged \in [Items -> Trees]
  BY DEF IInv, Types, TypeOK
<1>4. ASSUME NEW i \in Items PROVE PackageKept(journal, i)'
  BY <1>1, <1>2, <1>3, Kept DEF PackageKept, RenameStaged, HadLive, Absent
<1>5. DataKept(journal)' /\ RegistryKept(journal)' /\ UNCHANGED <<journal, installs>>
  BY <1>1, Kept DEF RenameStaged, DataKept, RegistryKept, counters, New
<1> QED BY <1>1, <1>4, <1>5, DiskMoves

\* The hook writes over data that are in the snapshot.
LEMMA HookWritesKeep ==
  ASSUME IInv, HookWrites
  PROVE  Disk'
<1>1. /\ journal # NoJournal /\ journal.phase \notin Committed /\ mem = journal
      /\ journal.hookStarted /\ journal.data # Unknown
  BY Ahead DEF HookWrites, Hooks
<1>2. snapshot = journal.data
  BY <1>1 DEF HookWrites, IInv, GoingAhead, Hooking, Hooks
<1>4. ASSUME NEW i \in Items PROVE PackageKept(journal, i)'
  BY <1>1, Kept DEF PackageKept, HookWrites, HadLive
<1>5. DataKept(journal)' /\ RegistryKept(journal)' /\ UNCHANGED <<journal, installs>>
  BY <1>1, <1>2, Kept DEF HookWrites, DataKept, RegistryKept, counters, New
<1> QED BY <1>1, <1>4, <1>5, DiskMoves

\* The registry changes in its phase only.
LEMMA SaveRegistryKeeps ==
  ASSUME IInv, SaveRegistry \/ SaveThrows
  PROVE  Disk'
<1>1. /\ journal # NoJournal /\ journal.phase \notin Committed /\ mem = journal
      /\ journal.phase = "registry-committing" /\ registry = journal.registry
  BY Ahead DEF SaveRegistry, SaveThrows, Throws, Commits, IInv, GoingAhead, Committing, AtPhase
<1>4. ASSUME NEW i \in Items PROVE PackageKept(journal, i)'
  BY <1>1, Kept DEF PackageKept, SaveRegistry, SaveThrows, Throws, HadLive
<1>5. DataKept(journal)' /\ RegistryKept(journal)' /\ UNCHANGED <<journal, installs>>
  BY <1>1, Kept DEF SaveRegistry, SaveThrows, Throws, NewEntry, DataKept, RegistryKept, counters, New
<1> QED BY <1>1, <1>4, <1>5, DiskMoves

\* A tree is put back from a copy that is there.
LEMMA RestorePackageKeeps ==
  ASSUME IInv, RestorePackage \/ PutBack
  PROVE  Disk'
<1>1. /\ journal # NoJournal /\ journal.phase \notin Committed /\ mem.had = journal.had
  BY DEF RestorePackage, PutBack, IInv, GoingBack, Restoring, Restores, Agrees, Session, Holds, Waits
<1>2. k \in Items /\ k \in 1..N
  BY DEF RestorePackage, PutBack, IInv, GoingBack, Restoring, Items
<1>3. live \in [Items -> Trees] /\ backup \in [Items -> Trees]
  BY DEF IInv, Types, TypeOK
<1>4. ASSUME NEW i \in Items PROVE PackageKept(journal, i)'
  <2>1. CASE i # k
    BY <1>1, <1>2, <1>3, <2>1, Kept DEF PackageKept, RestorePackage, PutBack, HadLive
  <2>2. CASE i = k /\ RestorePackage
    BY <1>1, <1>2, <1>3, <2>2, Kept DEF PackageKept, RestorePackage, HadLive, PackageLost,
       PackageInPlace, Activated
  <2>3. CASE i = k /\ PutBack
    BY <1>1, <1>2, <1>3, <2>3, Kept DEF PackageKept, PutBack, HadLive, IInv, GoingBack, Restoring,
       Absent
  <2> QED BY <2>1, <2>2, <2>3
<1>5. DataKept(journal)' /\ RegistryKept(journal)' /\ UNCHANGED <<journal, installs>>
  BY <1>1, Kept DEF RestorePackage, PutBack, DataKept, RegistryKept, counters, New
<1> QED BY <1>1, <1>4, <1>5, DiskMoves

\* A new journal names what lies there,
LEMMA InitializeKeeps ==
  ASSUME IInv, Initialize
  PROVE  Disk'
<1>1. journal = NoJournal /\ Settled
  BY DEF Initialize, IInv, Session, Holds, Disk
<1>2. /\ journal' = Intent /\ journal'.phase = "initialized" /\ journal'.had = live /\ journal'.data = Unknown
      /\ journal'.registry = registry /\ journal'.evidence = Unknown /\ ~journal'.hookStarted
      /\ \A i \in Items : journal'.item[i] = "untouched"
  BY DEF Initialize, Intent
<1>3. journal' # NoJournal
  BY <1>1, <1>2, IntentIsAJournal, JournalFields
<1>4. UNCHANGED <<live, staged, backup, data, snapshot, registry>> /\ installs' = New
  BY DEF Initialize, files, New
<1>5. Valid(journal)'
  BY <1>2 DEF Valid, PackagesFit, DataFits, EvidenceFits, Committed, PrePackage
<1>6. Older(journal)'
  BY <1>1, <1>2, <1>4 DEF Older, Settled
<1>7. (\A i \in Items : PackageKept(journal, i))' /\ DataKept(journal)' /\ RegistryKept(journal)'
  BY <1>1, <1>2, <1>4 DEF Settled, PackageKept, DataKept, RegistryKept, HadLive
<1> QED BY <1>2, <1>3, <1>5, <1>6, <1>7 DEF Disk, Described, Committed

\* and when it goes nothing but that, or the new version, lies there.
LEMMA CleanJournalKeeps ==
  ASSUME IInv, CleanJournal
  PROVE  Disk'
<1>1. /\ journal # NoJournal /\ Agrees /\ mem.data = journal.data /\ \A i \in Items : Vacant(i)
      /\ snapshot = Absent
      /\ (mem.phase \notin Committed => PackagesBack(N) /\ DataBack /\ registry = mem.registry)
  BY DEF CleanJournal, IInv, GoingBack, Cleaning, Cleans, Session, Holds, Waits
<1>2. journal' = NoJournal /\ UNCHANGED <<live, staged, backup, data, snapshot, registry, installs>>
  BY DEF CleanJournal, files, counters
<1>3. Described(journal) /\ installs \in Nat
  BY <1>1 DEF IInv, Disk, Types, TypeOK
<1>4. (\A i \in Items : live[i] \in 0..New) /\ data \in 0..New /\ registry.version \in 0..New
  <2>1. CASE journal.phase \in Committed
    BY <1>3, <2>1 DEF Described, Renewed, New, Absent
  <2>2. CASE journal.phase \notin Committed
    BY <1>1, <1>3, <2>2 DEF Described, Agrees, PackagesBack, DataBack, Older, DataKept, New, Items
  <2> QED BY <2>1, <2>2
<1> QED BY <1>1, <1>2, <1>4 DEF Disk, Settled, Vacant, New

\* The journal steps keep it: each promises no more than the steps before it did.
LEMMA HookPendingKeeps ==
  ASSUME IInv, Written("hook-pending", "hook-pending", 0, "hook-running")
  PROVE
   Older(journal)' /\ (journal'.phase \notin Committed => DataKept(journal)' /\ RegistryKept(journal)')
<1>0. pc = "hook-pending"
  BY DEF Written
<1>1. journal.phase = "snapshot-pending" /\ journal \in Journals /\ journal # NoJournal
  BY <1>0, InstallHoldsJournal, JournalFields DEF IInv, GoingAhead, Staging, AtPhase, Installs, Stages
<1>2. Older(journal) /\ RegistryKept(journal)
  BY <1>1 DEF IInv, Disk, Described, Committed
<1> QED BY <1>0, <1>1, <1>2, HookPendingMemory DEF Older, DataKept, RegistryKept, Written, New

LEMMA WritesPackages ==
  ASSUME IInv, Writes
  PROVE  journal'.phase \notin Committed => \A i \in Items : PackageKept(journal, i)'
<1> USE DEF Written, IInv, Committed, PackageKept, PackagesFit, Valid, HadLive, NewTree, Waiting,
        Renamed, Replaced, PrePackage, Items, Vacant, GoingAhead, Staging, Hooking, Moving, Committing,
        AtPhase, Stages, Hooks, Moves, Commits
<1>1. CASE Written("staged", "staged", 0, "snapshot-pending")
  BY <1>1, JournalFields
<1>2. CASE Written("snapshot-pending", "snapshot-pending", 0, "snapshot")
  BY <1>2, JournalFields
<1>3. CASE Written("hook-pending", "hook-pending", 0, "hook-running")
  BY <1>3, JournalFields
<1>4. CASE Written("hook-running", "hook-running", 0, "hook")
  BY <1>4, JournalFields
<1>5. CASE Written("hook-complete", "hook-complete", 0, "backup")
  BY <1>5, JournalFields
<1>6. CASE Written("backup", "backup", k, "rename-live")
  BY <1>6, JournalFields
<1>7. CASE Written("backed-up", "backup", k, "activate")
  BY <1>7, JournalFields
<1>8. CASE Written("activate", "activate", k, "rename-staged")
  BY <1>8, JournalFields
<1>9. CASE Written("activated", "activate", k, IF k < N THEN "backup" ELSE "packages-activated")
  BY <1>9, JournalFields
<1>10. CASE Written("packages-activated", "packages-activated", 0, "registry-committing")
  BY <1>10, JournalFields
<1>11. CASE Written("registry-committing", "registry-committing", 0, "save-registry")
  BY <1>11, JournalFields
<1>12. CASE Written("mark", "registry-committed", 0, "commit")
  BY <1>12, JournalFields
<1>13. CASE Written("commit", "committed", 0, "clean")
  BY <1>13, JournalFields
<1> HIDE DEF Written, IInv, Committed, PackageKept, PackagesFit, Valid, HadLive, NewTree, Waiting,
        Renamed, Replaced, PrePackage, Items, Vacant, GoingAhead, Staging, Hooking, Moving, Committing,
        AtPhase, Stages, Hooks, Moves, Commits
<1> QED BY <1>1, <1>2, <1>3, <1>4, <1>5, <1>6, <1>7, <1>8, <1>9, <1>10, <1>11, <1>12, <1>13 DEF Writes

LEMMA WritesData ==
  ASSUME IInv, Writes
  PROVE  Older(journal)' /\ (journal'.phase \notin Committed => DataKept(journal)' /\ RegistryKept(journal)')
<1> USE DEF Written, IInv, New, Older, DataKept, RegistryKept, DataFits, Valid, Disk, Described,
        Committed, PrePackage, GoingAhead, Staging, Hooking, Moving, Committing, AtPhase, Stages, Hooks,
        Moves, Commits
<1>1. CASE Written("staged", "staged", 0, "snapshot-pending")
  BY <1>1, JournalFields
<1>2. CASE Written("snapshot-pending", "snapshot-pending", 0, "snapshot")
  BY <1>2, JournalFields
<1>3. CASE Written("hook-pending", "hook-pending", 0, "hook-running")
  BY <1>3, HookPendingKeeps
<1>4. CASE Written("hook-running", "hook-running", 0, "hook")
  BY <1>4, JournalFields
<1>5. CASE Written("hook-complete", "hook-complete", 0, "backup")
  BY <1>5, JournalFields
<1>6. CASE Written("backup", "backup", k, "rename-live")
  BY <1>6, JournalFields
<1>7. CASE Written("backed-up", "backup", k, "activate")
  BY <1>7, JournalFields
<1>8. CASE Written("activate", "activate", k, "rename-staged")
  BY <1>8, JournalFields
<1>9. CASE Written("activated", "activate", k, IF k < N THEN "backup" ELSE "packages-activated")
  BY <1>9, JournalFields
<1>10. CASE Written("packages-activated", "packages-activated", 0, "registry-committing")
  BY <1>10, JournalFields
<1>11. CASE Written("registry-committing", "registry-committing", 0, "save-registry")
  BY <1>11, JournalFields
<1>12. CASE Written("mark", "registry-committed", 0, "commit")
  BY <1>12, JournalFields
<1>13. CASE Written("commit", "committed", 0, "clean")
  BY <1>13, JournalFields
<1> HIDE DEF Written, IInv, New, Older, DataKept, RegistryKept, DataFits, Valid, Disk, Described,
        Committed, PrePackage, GoingAhead, Staging, Hooking, Moving, Committing, AtPhase, Stages, Hooks,
        Moves, Commits
<1> QED BY <1>1, <1>2, <1>3, <1>4, <1>5, <1>6, <1>7, <1>8, <1>9, <1>10, <1>11, <1>12, <1>13 DEF Writes

LEMMA WritesRenew ==
  ASSUME IInv, Writes
  PROVE  journal'.phase \in Committed => Renewed(journal)'
<1> USE DEF Written, IInv, Types, TypeOK, Registries, Versions, Renewed, Older, DataFits, Valid, Disk,
        Described, Committed, PrePackage, HadLive, NewTree, Replaced, New, Items, GoingAhead, Staging,
        Hooking, Moving, Committing, AtPhase, Stages, Hooks, Moves, Commits
<1>1. CASE Written("staged", "staged", 0, "snapshot-pending")
  BY <1>1, JournalFields
<1>2. CASE Written("snapshot-pending", "snapshot-pending", 0, "snapshot")
  BY <1>2, JournalFields
<1>3. CASE Written("hook-pending", "hook-pending", 0, "hook-running")
  BY <1>3, JournalFields
<1>4. CASE Written("hook-running", "hook-running", 0, "hook")
  BY <1>4, JournalFields
<1>5. CASE Written("hook-complete", "hook-complete", 0, "backup")
  BY <1>5, JournalFields
<1>6. CASE Written("backup", "backup", k, "rename-live")
  BY <1>6, JournalFields
<1>7. CASE Written("backed-up", "backup", k, "activate")
  BY <1>7, JournalFields
<1>8. CASE Written("activate", "activate", k, "rename-staged")
  BY <1>8, JournalFields
<1>9. CASE Written("activated", "activate", k, IF k < N THEN "backup" ELSE "packages-activated")
  BY <1>9, JournalFields
<1>10. CASE Written("packages-activated", "packages-activated", 0, "registry-committing")
  BY <1>10, JournalFields
<1>11. CASE Written("registry-committing", "registry-committing", 0, "save-registry")
  BY <1>11, JournalFields
<1>12. CASE Written("mark", "registry-committed", 0, "commit")
  <2>1. /\ mem = journal /\ (\A i \in Items : Replaced(i)) /\ data \in {mem.data, New}
        /\ registry = [mem.registry EXCEPT !.version = New] /\ journal.data # Unknown
        /\ UNCHANGED <<live, data, registry, installs>> /\ journal'.had = journal.had /\ journal \in Journals
    BY <1>12, Ahead
  <2>2. Older(journal) /\ installs \in Nat
    BY <1>12, <2>1, Ahead, Kept
  <2>3. \A i \in Items : live[i] = New \/ (live[i] = Absent /\ ~HadLive(journal, i) /\ i = N)
    BY <2>1
  <2>4. data \in 0..New /\ registry.version = New
    BY <2>1, <2>2, JournalFields
  <2> QED BY <2>1, <2>3, <2>4
<1>13. CASE Written("commit", "committed", 0, "clean")
  BY <1>13, JournalFields
<1> HIDE DEF Written, IInv, Types, TypeOK, Registries, Versions, Renewed, Older, DataFits, Valid, Disk,
        Described, Committed, PrePackage, HadLive, NewTree, Replaced, New, Items, GoingAhead, Staging,
        Hooking, Moving, Committing, AtPhase, Stages, Hooks, Moves, Commits
<1> QED BY <1>1, <1>2, <1>3, <1>4, <1>5, <1>6, <1>7, <1>8, <1>9, <1>10, <1>11, <1>12, <1>13 DEF Writes

LEMMA JournalStepKeeps ==
  ASSUME IInv, JournalStep
  PROVE  Disk'
<1>1. Writes
  BY JournalWrites
<1>2. journal' \in Journals /\ Valid(journal)'
  BY <1>1 DEF Writes, Written
<1> QED BY <1>1, <1>2, WritesPackages, WritesData, WritesRenew, JournalFields DEF Disk, Described

\* Together: every step keeps what the journal promises.
LEMMA DiskStep ==
  ASSUME IInv, [Next]_vars
  PROVE  Disk'
<1>1. CASE UNCHANGED <<journal, files, installs>>
  BY <1>1, DiskFrame DEF files
<1>2. CASE FileStep
  <2>1. UNCHANGED <<journal, installs>>
    BY <1>2 DEF FileStep, Stage, Snapshot, HookWrites, RenameLive, RenameStaged, SaveRegistry, Edited,
       RestorePackage, PutBack, RestoreData, PutDataBack, RestoreRegistry, CleanTrees,
       CleanSnapshot, HookPendingThrows, SaveThrows, Throws, counters
  <2>2. CASE Stage \/ Snapshot \/ HookPendingThrows
    <3>1. /\ pc \in Stages /\ journal \in Journals /\ journal.phase \notin Committed /\ journal.data = Unknown
      BY <2>2, InstallHoldsJournal DEF Stage, Snapshot, HookPendingThrows, Throws, Stages, Installs,
         IInv, GoingAhead, Staging, AtPhase, Committed
    <3>2. UNCHANGED <<live, data, registry, backup>>
      BY <2>2 DEF Stage, Snapshot, HookPendingThrows
    <3>3. \A i \in Items : live[i] = journal.had[i]
      BY <2>2, <3>1, HookPendingMemory DEF Stage, Snapshot, HookPendingThrows, Throws, Stages, IInv,
         GoingAhead, Staging, Waiting
    <3> QED BY <2>1, <3>1, <3>2, <3>3, JournalFields, Kept, DiskMoves DEF PackageKept, DataKept,
            RegistryKept, HadLive, New
  <2>3. CASE Edited
    <3>1. journal = NoJournal /\ registry'.version = registry.version
      BY <2>3 DEF Edited, IInv, Session, Holds, Types, TypeOK, Registries
    <3> QED BY <2>1, <2>3, <3>1 DEF Edited, IInv, Disk, Settled, Vacant, New
  <2>4. CASE RestoreData \/ PutDataBack \/ RestoreRegistry
    <3>1. /\ journal \in Journals /\ journal # NoJournal /\ journal.phase \notin Committed /\ Agrees
          /\ mem.data = journal.data
      BY <2>4, Behind DEF RestoreData, PutDataBack, RestoreRegistry, Restores
    <3>2. UNCHANGED <<live, staged, backup, snapshot>>
      BY <2>4 DEF RestoreData, PutDataBack, RestoreRegistry
    <3>3. \A i \in Items : PackageKept(journal, i)'
      BY <2>1, <3>1, <3>2, Kept DEF PackageKept, HadLive
    <3>4. RegistryKept(journal)'
      BY <2>1, <2>4, <3>1, Kept DEF RestoreData, PutDataBack, RestoreRegistry, RegistryKept, Agrees, New
    <3>5. DataKept(journal)'
      <4>1. CASE RestoreRegistry
        BY <2>1, <3>1, <3>2, <4>1, Kept DEF RestoreRegistry, DataKept
      <4>2. CASE RestoreData
        BY <2>1, <3>1, <3>2, <4>2, Kept DEF RestoreData, DataInPlace, DataLost, DataKept, Agrees
      <4>3. CASE PutDataBack
        BY <2>1, <3>1, <3>2, <4>3, Kept DEF PutDataBack, DataKept, Agrees, IInv, GoingBack, Restoring
      <4> QED BY <2>4, <4>1, <4>2, <4>3
    <3> QED BY <2>1, <3>1, <3>3, <3>4, <3>5, DiskMoves
  <2>5. CASE CleanTrees \/ CleanSnapshot
    <3>1. journal # NoJournal /\ Agrees /\ mem.data = journal.data
      BY <2>5, Behind DEF CleanTrees, CleanSnapshot, Cleans
    <3>2. UNCHANGED <<live, data, registry>> /\ (\A i \in Items : staged'[i] = Absent)
      BY <2>5 DEF CleanTrees, CleanSnapshot, IInv, GoingBack, Cleaning, Cleans, Vacant
    <3>3. CASE journal.phase \in Committed
      BY <2>1, <3>1, <3>2, <3>3 DEF IInv, Disk, Described, Valid, PackagesFit, DataFits, EvidenceFits,
         Older, Renewed, HadLive, New
    <3>4. CASE journal.phase \notin Committed
      <4>1. PackagesBack(N) /\ DataBack /\ registry = mem.registry
        BY <2>5, <3>1, <3>4 DEF CleanTrees, CleanSnapshot, Agrees, IInv, GoingBack, Cleaning, Cleans
      <4>2. \A i \in Items : PackageKept(journal, i)'
        BY <2>1, <3>1, <3>2, <4>1 DEF PackagesBack, PackageKept, HadLive, Items, Agrees
      <4>3. DataKept(journal)' /\ RegistryKept(journal)'
        BY <2>1, <3>1, <3>2, <3>4, <4>1, Kept DEF DataKept, RegistryKept, DataBack, Agrees, New
      <4> QED BY <2>1, <3>1, <3>4, <4>2, <4>3, DiskMoves
    <3> QED BY <3>3, <3>4
  <2> QED BY <1>2, <2>2, <2>3, <2>4, <2>5, RenameLiveKeeps, RenameStagedKeeps, HookWritesKeep,
          SaveRegistryKeeps, RestorePackageKeeps DEF FileStep
<1>3. CASE JournalStep
  <2> QED BY <1>3, JournalStepKeeps
<1> QED
  BY <1>1, <1>2, <1>3, InitializeKeeps, CleanJournalKeeps, FileSteps, JournalChanges, InstallsCount

-----------------------------------------------------------------------------
(* The session: what its journal names is what it started from *)

\* The start of an install, and its snapshot.
LEMMA InitializeSession ==
  ASSUME IInv, Initialize
  PROVE  Holds' /\ Remembers'
<1>1. /\ journal' = Intent /\ journal'.phase = "initialized" /\ journal'.had = live
      /\ journal'.data = Unknown /\ journal'.registry = registry /\ mem' = journal'
  BY DEF Initialize, Intent
<1>2. Intent # NoJournal /\ before = State
  BY IntentIsAJournal, JournalFields DEF Initialize, IInv, Session, Holds
<1>3. pc' = "stage" /\ UNCHANGED <<live, data, registry, before, outcome>>
  BY DEF Initialize, files
<1>4. own'
  BY DEF Initialize
<1>5. Holds'
  BY <1>1, <1>2, <1>3, <1>4 DEF Holds, Initialize, IInv, Session, Waits, Installs, Stages, Hooks, Moves,
     Commits
<1>6. Remembers'
  BY <1>1, <1>2, <1>3 DEF Remembers, State, Committed
<1> QED BY <1>5, <1>6

LEMMA SnapshotSession ==
  ASSUME IInv, Snapshot
  PROVE  Holds' /\ Remembers'
<1>1. Holds'
  BY SnapshotNotes DEF Snapshot, Holds, IInv, Session, session, Waits, Installs, Stages, Hooks, Moves,
     Commits
<1>2. Remembers'
  BY DEF Snapshot, Remembers, IInv, Session, session, Committed, New, counters
<1> QED BY <1>1, <1>2

\* The journal steps.
LEMMA HookPendingRemembers ==
  ASSUME IInv, Written("hook-pending", "hook-pending", 0, "hook-running"), own' = own
  PROVE  Remembers'
<1>0. pc = "hook-pending"
  BY DEF Written
<1>1. journal.phase = "snapshot-pending" /\ journal.data = Unknown
  BY <1>0 DEF IInv, GoingAhead, Staging, AtPhase, Stages
<1> QED BY <1>0, <1>1, HookPendingMemory DEF IInv, Session, Remembers, Written, Committed

LEMMA WritesHold ==
  ASSUME IInv, Writes, own' = own
  PROVE  Holds'
<1> USE DEF Written, IInv, Session, Holds, Waits, Installs, Stages, Hooks, Moves, Commits
<1>1. CASE Written("staged", "staged", 0, "snapshot-pending")
  BY <1>1, JournalFields
<1>2. CASE Written("snapshot-pending", "snapshot-pending", 0, "snapshot")
  BY <1>2, JournalFields
<1>3. CASE Written("hook-pending", "hook-pending", 0, "hook-running")
  BY <1>3, JournalFields
<1>4. CASE Written("hook-running", "hook-running", 0, "hook")
  BY <1>4, JournalFields
<1>5. CASE Written("hook-complete", "hook-complete", 0, "backup")
  BY <1>5, JournalFields
<1>6. CASE Written("backup", "backup", k, "rename-live")
  BY <1>6, JournalFields
<1>7. CASE Written("backed-up", "backup", k, "activate")
  BY <1>7, JournalFields
<1>8. CASE Written("activate", "activate", k, "rename-staged")
  BY <1>8, JournalFields
<1>9. CASE Written("activated", "activate", k, IF k < N THEN "backup" ELSE "packages-activated")
  BY <1>9, JournalFields
<1>10. CASE Written("packages-activated", "packages-activated", 0, "registry-committing")
  BY <1>10, JournalFields
<1>11. CASE Written("registry-committing", "registry-committing", 0, "save-registry")
  BY <1>11, JournalFields
<1>12. CASE Written("mark", "registry-committed", 0, "commit")
  BY <1>12, JournalFields
<1>13. CASE Written("commit", "committed", 0, "clean")
  BY <1>13, JournalFields
<1> HIDE DEF Written, IInv, Session, Holds, Waits, Installs, Stages, Hooks, Moves, Commits
<1> QED BY <1>1, <1>2, <1>3, <1>4, <1>5, <1>6, <1>7, <1>8, <1>9, <1>10, <1>11, <1>12, <1>13 DEF Writes

LEMMA WritesRemember ==
  ASSUME IInv, Writes, own' = own
  PROVE  Remembers'
<1> USE DEF Written, IInv, New, Session, Remembers, Committed, Disk, Described, Valid, DataFits,
        DataKept, PrePackage, GoingAhead, Staging, Hooking, Moving, Committing, AtPhase, Stages, Hooks,
        Moves, Commits
<1>1. CASE Written("staged", "staged", 0, "snapshot-pending")
  BY <1>1, JournalFields
<1>2. CASE Written("snapshot-pending", "snapshot-pending", 0, "snapshot")
  BY <1>2, JournalFields
<1>3. CASE Written("hook-pending", "hook-pending", 0, "hook-running")
  BY <1>3, HookPendingRemembers
<1>4. CASE Written("hook-running", "hook-running", 0, "hook")
  BY <1>4, JournalFields
<1>5. CASE Written("hook-complete", "hook-complete", 0, "backup")
  BY <1>5, JournalFields
<1>6. CASE Written("backup", "backup", k, "rename-live")
  BY <1>6, JournalFields
<1>7. CASE Written("backed-up", "backup", k, "activate")
  BY <1>7, JournalFields
<1>8. CASE Written("activate", "activate", k, "rename-staged")
  BY <1>8, JournalFields
<1>9. CASE Written("activated", "activate", k, IF k < N THEN "backup" ELSE "packages-activated")
  BY <1>9, JournalFields
<1>10. CASE Written("packages-activated", "packages-activated", 0, "registry-committing")
  BY <1>10, JournalFields
<1>11. CASE Written("registry-committing", "registry-committing", 0, "save-registry")
  BY <1>11, JournalFields
<1>12. CASE Written("mark", "registry-committed", 0, "commit")
  BY <1>12, JournalFields
<1>13. CASE Written("commit", "committed", 0, "clean")
  BY <1>13, JournalFields
<1> HIDE DEF Written, IInv, New, Session, Remembers, Committed, Disk, Described, Valid, DataFits,
        DataKept, PrePackage, GoingAhead, Staging, Hooking, Moving, Committing, AtPhase, Stages, Hooks,
        Moves, Commits
<1> QED BY <1>1, <1>2, <1>3, <1>4, <1>5, <1>6, <1>7, <1>8, <1>9, <1>10, <1>11, <1>12, <1>13 DEF Writes

\* Only an acquired lock that still has an install to make comes to make one.
LEMMA BeginsStep ==
  ASSUME IInv, [Next]_vars
  PROVE  Begins'
<1>1. CASE Acquire("install")
  BY <1>1 DEF Acquire, Begins, counters
<1>2. CASE WaitStep /\ ~Acquire("install")
  <2>1. \/ pc' = "idle" \/ op' # "install"
        \/ op' = op /\ pc # "idle" /\ installs' = installs /\ (~own \/ pc' = "idle")
    BY <1>2 DEF WaitStep, Acquire, NothingToRecover, Quarantined, Started, Edited, RestoreRefused,
       CleanJournal, CommitThrows, UndoThrows, Crash, Ends, GivesUp, IInv, Session, Holds, Waits,
       counters
  <2> QED BY <2>1 DEF IInv, Session, Begins
<1>3. CASE BackStep
  <2>1. pc # "idle"
    BY <1>3 DEF BackStep, RecoveryStarts, RollbackStarts, RestorePackage, PutBack, RestoreData,
       PutDataBack, RestoreRegistry, CleanTrees, CleanSnapshot, StageThrows, HookPendingThrows,
       HookThrows, RenameThrows, SaveThrows, JournalThrows, Throws
  <2> QED BY <1>3, <2>1, BackSteps DEF IInv, Session, Begins
<1>4. CASE AheadStep
  <2>1. own'
    BY <1>4 DEF AheadStep, IInv, Session, Holds, Installs, Stages, Hooks, Moves, Commits, session,
       Initialize, Stage, Snapshot, HookWrites, RenameLive, RenameStaged, SaveRegistry, JournalStep,
       Persist
  <2> QED BY <2>1 DEF Begins
<1> QED BY <1>1, <1>2, <1>3, <1>4, Steps DEF vars, session, counters, IInv, Session, Begins

\* The steps between transactions, back and ahead.
LEMMA WaitsHold ==
  ASSUME IInv, WaitStep
  PROVE  Holds'
<1>1. pc' \in Waits /\ mem' = NoJournal /\ ~own'
  BY WaitSteps, WaitsOwnNothing
<1>2. CASE NothingToRecover
  BY <1>1, <1>2 DEF NothingToRecover, Holds, IInv, Types, Session, State, files, Waits, Installs,
     Stages, Hooks, Moves, Commits
<1>3. CASE ~NothingToRecover
  <2>1. pc' = "idle" \/ (pc' = "recover" /\ outcome' = "none")
    BY <1>3, WaitsEnd
  <2> QED BY <1>1, <2>1 DEF Holds, Waits, Installs, Stages, Hooks, Moves, Commits
<1> QED BY <1>2, <1>3

LEMMA BacksHold ==
  ASSUME IInv, BackStep
  PROVE  Holds'
<1>1. /\ pc' \in {"rollback"} \union Restores \union Cleans
      /\ UNCHANGED <<journal, op, before, outcome, installs>> /\ own' = own
  BY BackSteps
<1>2. pc # "idle" /\ journal \in Journals /\ journal # NoJournal
  <2>1. pc \notin Waits \/ RecoveryStarts
    BY DEF BackStep, RollbackStarts, RestorePackage, PutBack, RestoreData, PutDataBack, RestoreRegistry,
       CleanTrees, CleanSnapshot, StageThrows, HookPendingThrows, HookThrows, RenameThrows,
       SaveThrows, JournalThrows, Throws, Waits
  <2> QED BY <2>1 DEF RecoveryStarts, Waits, IInv, Types, TypeOK, Session, Holds
<1>3. mem' # NoJournal
  <2>1. CASE JournalThrows
    BY <2>1, ThrowsTyped, JournalFields
  <2>2. CASE RecoveryStarts
    BY <1>2, <2>2 DEF RecoveryStarts
  <2>3. (mem' = mem /\ mem # NoJournal) \/ JournalThrows \/ RecoveryStarts
    BY DEF BackStep, RollbackStarts, RestorePackage, PutBack, RestoreData, PutDataBack, RestoreRegistry,
       CleanTrees, CleanSnapshot, StageThrows, HookPendingThrows, HookThrows, RenameThrows,
       SaveThrows, Throws, Waits, IInv, Session, Holds
  <2> QED BY <2>1, <2>2, <2>3
<1>4. pc' = "rollback" => pc \in Installs
  BY DEF BackStep, RecoveryStarts, RollbackStarts, RestorePackage, PutBack, RestoreData, PutDataBack,
     RestoreRegistry, CleanTrees, CleanSnapshot, StageThrows, HookPendingThrows, HookThrows,
     RenameThrows, SaveThrows, JournalThrows, Throws, Installs, Stages, Hooks, Moves, Commits
<1>5. pc' = "rollback" => own'
  BY <1>1, <1>4 DEF IInv, Session, Holds
<1>6. outcome' = "none"
  BY <1>1, <1>2 DEF IInv, Session, Holds
<1>7. pc' \notin Waits \union Installs
  BY <1>1 DEF Restores, Cleans, Waits, Installs, Stages, Hooks, Moves, Commits
<1>8. pc' \notin {"install", "edit", "startup", "idle"}
  BY <1>7 DEF Waits
<1> QED BY <1>1, <1>2, <1>3, <1>5, <1>6, <1>7, <1>8 DEF Holds

LEMMA BacksRemember ==
  ASSUME IInv, BackStep
  PROVE  Remembers'
<1>1. UNCHANGED <<journal, before, installs>> /\ own' = own
  BY BackSteps
<1>2. CASE UNCHANGED <<data, registry>>
  BY <1>1, <1>2 DEF IInv, Session, Remembers, New
<1>3. CASE ~(UNCHANGED <<data, registry>>)
  <2>1. RestoreData \/ PutDataBack \/ RestoreRegistry \/ SaveThrows
    BY <1>3 DEF BackStep, RecoveryStarts, RollbackStarts, RestorePackage, PutBack, CleanTrees,
       CleanSnapshot, StageThrows, HookPendingThrows, HookThrows, RenameThrows, JournalThrows, files
  <2>2. journal.phase \notin Committed /\ (data' = data \/ journal.data # Unknown)
    <3>1. CASE SaveThrows
      BY <3>1, Ahead DEF SaveThrows, Throws, Commits
    <3>2. CASE RestoreRegistry
      BY <3>2, Behind DEF RestoreRegistry, Restores
    <3>3. CASE RestoreData
      BY <3>3, Behind DEF RestoreData, DataInPlace, Restores
    <3>4. CASE PutDataBack
      BY <3>4, Behind DEF PutDataBack, Restores, IInv, GoingBack, Restoring
    <3> QED BY <2>1, <3>1, <3>2, <3>3, <3>4
  <2> QED BY <1>1, <2>2 DEF IInv, Session, Remembers
<1> QED BY <1>2, <1>3

LEMMA AheadSession ==
  ASSUME IInv, AheadStep
  PROVE  Holds' /\ Remembers'
<1>1. CASE Initialize \/ Snapshot
  BY <1>1, InitializeSession, SnapshotSession
<1>2. CASE JournalStep
  <2>1. own' = own
    BY <1>2 DEF JournalStep, Persist, session
  <2> QED BY <1>2, <2>1, JournalWrites, WritesHold, WritesRemember
<1>3. CASE Stage \/ HookWrites \/ RenameLive \/ RenameStaged \/ SaveRegistry
  <2>1. /\ UNCHANGED <<journal, mem, op, before, outcome, installs>> /\ own' = own
        /\ pc \in Installs /\ pc' \in Installs
    BY <1>3 DEF Stage, HookWrites, RenameLive, RenameStaged, SaveRegistry, session, counters, Installs,
       Stages, Hooks, Moves, Commits
  <2>2. pc \notin Waits /\ pc' \notin Waits
    BY <2>1 DEF Waits, Installs, Stages, Hooks, Moves, Commits
  <2>3. pc' \notin {"idle", "install", "edit", "startup"} /\ pc # "idle"
    BY <2>2 DEF Waits
  <2>4. Holds'
    BY <2>1, <2>2, <2>3 DEF Holds, IInv, Session
  <2>5. journal.phase \notin Committed /\ (data' = data \/ journal.data # Unknown)
    <3>1. CASE Stage
      BY <3>1 DEF Stage, IInv, GoingAhead, Staging, Stages, AtPhase, Committed
    <3>2. CASE HookWrites
      BY <3>2, Ahead DEF HookWrites, Hooks
    <3>3. CASE RenameLive \/ RenameStaged \/ SaveRegistry
      BY <3>3, Ahead DEF RenameLive, RenameStaged, SaveRegistry, Moves, Commits
    <3> QED BY <1>3, <3>1, <3>2, <3>3
  <2>6. Remembers'
    BY <2>1, <2>5 DEF Remembers, IInv, Session
  <2> QED BY <2>4, <2>6
<1> QED BY <1>1, <1>2, <1>3 DEF AheadStep

\* Together.
LEMMA SessionStep ==
  ASSUME IInv, [Next]_vars
  PROVE  Session'
<1>1. CASE WaitStep
  <2>1. Remembers'
    BY <1>1, WaitsOwnNothing DEF Remembers
  <2> QED BY <1>1, <2>1, WaitsHold, BeginsStep DEF Session
<1>2. CASE AheadStep
  BY <1>2, AheadSession, BeginsStep DEF Session
<1>3. CASE BackStep
  BY <1>3, BacksHold, BacksRemember, BeginsStep DEF Session
<1>4. CASE UNCHANGED vars
  <2>1. UNCHANGED <<journal, live, data, registry, pc, op, before, mem, outcome, installs>> /\ own' = own
    BY <1>4 DEF vars, files, session, counters
  <2>2. Holds'
    BY <2>1 DEF IInv, Session, Holds, State
  <2>3. Remembers'
    BY <2>1 DEF IInv, Session, Remembers, New
  <2> QED BY <2>2, <2>3, BeginsStep DEF Session
<1> QED BY <1>1, <1>2, <1>3, <1>4, Steps

-----------------------------------------------------------------------------
(* Going back: the memory agrees with the journal, the originals return *)

\* A boundary that recovery passes over is the original.
LEMMA InPlace ==
  ASSUME IInv, mem.had = journal.had, mem.phase = journal.phase, mem.at = journal.at,
         journal # NoJournal, journal.phase \notin Committed,
         \A j \in Items : journal.item[j] = "activated" => mem.item[j] = "activated",
         NEW i \in Items, PackageInPlace(i)
  PROVE  live[i] = mem.had[i]
BY Kept DEF PackageInPlace, PackageKept, HadLive, Activated, Absent

\* Where an install fails, the memory agrees with the journal.
LEMMA HookPendingThrowsGoesBack ==
  ASSUME IInv, HookPendingThrows
  PROVE  GoingBack'
<1>1. pc = "hook-pending" /\ pc' = "rollback" /\ UNCHANGED <<journal, mem>>
  BY DEF HookPendingThrows, Throws
<1>2. Agrees /\ mem.phase = "snapshot-pending"
  BY <1>1, HookPendingMemory DEF Agrees
<1>3. Agrees' /\ mem'.phase = "snapshot-pending"
  BY <1>1, <1>2 DEF Agrees
<1> QED BY <1>1, <1>3 DEF GoingBack, Restoring, Cleaning, Restores, Cleans, Committed

LEMMA JournalThrowsGoesBack ==
  ASSUME IInv, JournalThrows
  PROVE  GoingBack'
<1>1. /\ pc \in Installs /\ pc' = "rollback" /\ UNCHANGED <<journal>> /\ mem = journal
      /\ mem \in Journals /\ journal.phase \notin Committed
  BY InstallHoldsJournal DEF JournalThrows, Throws, Installs, Stages, Hooks, Moves, Commits, IInv,
     GoingAhead, Staging, Hooking, Moving, Committing, AtPhase, Committed
<1>2. CASE mem' = mem
  BY <1>1, <1>2 DEF GoingBack, Restoring, Cleaning, Agrees, Restores, Cleans
<1>3. CASE mem' # mem
  <2>1. /\ k \in 1..N
        /\ \E state \in {"backed-up", "activated"} :
             mem' = Item(state) /\ (state = "backed-up" => journal.phase = "backup" /\ journal.at = k)
    BY <1>1, <1>3 DEF JournalThrows, Throws, BackedUp, IInv, GoingAhead, Moving, Moves, AtPhase
  <2>2. PackagesFit(journal)
    BY <1>1, JournalFields DEF IInv, Disk, Described, Valid
  <2>3. journal.phase = "backup" /\ journal.at = k => journal.item[k] # "activated"
    BY <2>1, <2>2 DEF PackagesFit, PrePackage
  <2>4. mem' \in Journals /\ Agrees' /\ mem'.data = journal.data
    BY <1>1, <2>1, <2>3, ItemState, JournalFields DEF Agrees
  <2> QED BY <1>1, <2>4 DEF GoingBack, Restoring, Cleaning, Agrees, Restores, Cleans
<1> QED BY <1>2, <1>3

LEMMA RenameThrowsGoesBack ==
  ASSUME IInv, RenameThrows
  PROVE  GoingBack'
<1>1. pc \in Moves /\ pc' = "rollback" /\ UNCHANGED <<journal, mem>>
  BY DEF RenameThrows, Throws, Moves
<1>2. mem = journal /\ journal.phase \notin Committed
  BY <1>1, Ahead DEF Moves
<1> QED BY <1>1, <1>2 DEF GoingBack, Restoring, Cleaning, Agrees, Restores, Cleans

\* The boundaries come back one by one, then the data.
LEMMA RestorePackageGoesBack ==
  ASSUME IInv, RestorePackage
  PROVE  GoingBack'
<1>1. /\ journal # NoJournal /\ Agrees /\ mem.data = journal.data /\ journal.phase \notin Committed
      /\ mem.phase \notin Committed /\ live \in [Items -> Trees]
      /\ k \in 1..N /\ PackagesBack(k - 1) /\ pc = "restore"
  BY Behind DEF RestorePackage, Restores, IInv, Types, TypeOK, GoingBack, Restoring
<1>2. UNCHANGED <<journal, backup, mem>>
  BY DEF RestorePackage
<1>3. Agrees'
  BY <1>1, <1>2 DEF Agrees
<1>4. CASE PackageInPlace(k)
  <2>1. live[k] = mem.had[k]
    BY <1>1, <1>4, InPlace DEF Agrees, Items
  <2>2. k' = k + 1 /\ pc' = "restore" /\ live' = live
    BY <1>1, <1>4 DEF RestorePackage
  <2>3. k' \in 1..(N + 1) /\ PackagesBack(k - 1)'
    BY <1>1, <1>2, <2>1, <2>2 DEF PackagesBack
  <2>4. (\A i \in 1..(k' - 1) : live'[i] = mem'.had[i])
    BY <1>1, <1>2, <2>1, <2>2 DEF PackagesBack
  <2> QED BY <1>1, <1>2, <1>3, <2>2, <2>3, <2>4 DEF PackagesBack, GoingBack, Restoring, Cleaning,
          Restores, Cleans
<1>5. CASE ~PackageInPlace(k)
  <2>1. k' = k /\ pc' = "put-back" /\ live' = [live EXCEPT ![k] = Broken] /\ ~PackageLost(k)
    BY <1>1, <1>5 DEF RestorePackage
  <2>2. HadLive(mem, k) => backup[k] = mem.had[k]
    BY <1>5, <2>1 DEF PackageLost
  <2>3. PackagesBack(k - 1)'
    BY <1>1, <1>2, <2>1 DEF PackagesBack
  <2> QED BY <1>1, <1>2, <1>1, <1>3, <2>1, <2>2, <2>3 DEF PackagesBack, GoingBack, Restoring, Cleaning,
          Restores, Cleans, HadLive
<1> QED BY <1>4, <1>5

LEMMA PutBackGoesBack ==
  ASSUME IInv, PutBack
  PROVE  GoingBack'
<1>1. /\ journal # NoJournal /\ Agrees /\ mem.data = journal.data /\ journal.phase \notin Committed
      /\ mem.phase \notin Committed /\ live \in [Items -> Trees]
      /\ k \in 1..N /\ PackagesBack(k - 1) /\ pc = "put-back" /\ (HadLive(mem, k) => backup[k] = mem.had[k])
  BY Behind DEF PutBack, Restores, IInv, Types, TypeOK, GoingBack, Restoring
<1>2. /\ UNCHANGED <<journal, backup, mem>> /\ k' = k + 1 /\ pc' = "restore"
      /\ live' = [live EXCEPT ![k] = mem.had[k]]
  BY <1>1 DEF PutBack, HadLive
<1>3. Agrees'
  BY <1>1, <1>2 DEF Agrees
<1>4. k' \in 1..(N + 1) /\ (\A i \in 1..(k' - 1) : live'[i] = mem'.had[i])
  BY <1>1, <1>2 DEF PackagesBack, Items
<1> QED BY <1>1, <1>2, <1>3, <1>4 DEF PackagesBack, GoingBack, Restoring, Cleaning, Restores, Cleans

LEMMA RestoreDataGoesBack ==
  ASSUME IInv, RestoreData
  PROVE  GoingBack'
<1>1. /\ journal # NoJournal /\ Agrees /\ mem.data = journal.data /\ journal.phase \notin Committed
      /\ mem.phase \notin Committed /\ mem \in Journals
      /\ k = N + 1 /\ PackagesBack(N) /\ pc = "restore"
  BY Behind DEF RestoreData, Restores, IInv, Types, TypeOK, GoingBack, Restoring
<1>2. UNCHANGED <<journal, backup, mem, live, snapshot>>
  BY DEF RestoreData
<1>3. Agrees' /\ PackagesBack(N)'
  BY <1>1, <1>2 DEF Agrees, PackagesBack
<1>4. CASE DataInPlace
  <2>1. DataBack
    BY <1>1, <1>4, Kept DEF DataBack, DataInPlace, DataKept, Agrees
  <2> QED BY <1>1, <1>2, <1>3, <1>4, <2>1 DEF RestoreData, DataBack, GoingBack, Restoring, Cleaning,
          Restores, Cleans
<1>5. CASE ~DataInPlace
  <2>1. mem.data # Unknown /\ mem.hookStarted
    BY <1>1, <1>5, Kept DEF DataInPlace, DataKept, Agrees
  <2> QED BY <1>1, <1>2, <1>3, <1>5, <2>1 DEF RestoreData, DataLost, GoingBack, Restoring, Cleaning,
          Restores, Cleans
<1> QED BY <1>4, <1>5

\* Every step of the way back.
LEMMA BacksGoBack ==
  ASSUME IInv, BackStep
  PROVE  GoingBack'
<1> USE DEF GoingBack, Restoring, Cleaning, Agrees, Restores, Cleans
<1>1. CASE RecoveryStarts
  BY <1>1 DEF RecoveryStarts, Trusted, Valid, PackagesBack, Vacant
<1>2. CASE RollbackStarts
  <2>1. mem.data = journal.data
    BY <1>2, Kept, JournalFields DEF RollbackStarts, Trusted, Valid, DataFits, IInv, Types, TypeOK,
       Session, Holds, Waits, PrePackage, Committed
  <2> QED BY <1>2, <2>1 DEF RollbackStarts, IInv, PackagesBack
<1>3. CASE PutDataBack
  BY <1>3 DEF PutDataBack, IInv, PackagesBack, DataBack
<1>4. CASE RestoreRegistry
  BY <1>4 DEF RestoreRegistry, IInv, PackagesBack, DataBack
<1>5. CASE CleanTrees
  BY <1>5 DEF CleanTrees, IInv, PackagesBack, DataBack, Vacant
<1>6. CASE CleanSnapshot
  BY <1>6 DEF CleanSnapshot, IInv, PackagesBack, DataBack, Vacant
<1>7. CASE StageThrows \/ HookThrows \/ SaveThrows
  <2>1. mem = journal /\ journal.phase \notin Committed
    BY <1>7 DEF StageThrows, HookThrows, SaveThrows, Throws, IInv, GoingAhead, Staging, Hooking,
       Committing, AtPhase, Stages, Hooks, Commits, Committed
  <2> QED BY <1>7, <2>1 DEF StageThrows, HookThrows, SaveThrows, Throws
<1> HIDE DEF GoingBack, Restoring, Cleaning, Agrees, Restores, Cleans
<1> QED BY <1>1, <1>2, <1>3, <1>4, <1>5, <1>6, <1>7, HookPendingThrowsGoesBack, JournalThrowsGoesBack,
        RenameThrowsGoesBack, RestorePackageGoesBack, PutBackGoesBack, RestoreDataGoesBack DEF BackStep

\* The last journal step starts the cleanup.
LEMMA WritesGoBack ==
  ASSUME IInv, Writes
  PROVE  GoingBack'
<1> USE DEF Written, IInv, GoingBack, Restoring, Cleaning, Restores, Cleans, Agrees, Committed,
        GoingAhead, Staging, Hooking, Moving, Committing, AtPhase, Stages, Hooks, Moves, Commits
<1>1. CASE Written("staged", "staged", 0, "snapshot-pending")
  BY <1>1, JournalFields
<1>2. CASE Written("snapshot-pending", "snapshot-pending", 0, "snapshot")
  BY <1>2, JournalFields
<1>3. CASE Written("hook-pending", "hook-pending", 0, "hook-running")
  BY <1>3, JournalFields
<1>4. CASE Written("hook-running", "hook-running", 0, "hook")
  BY <1>4, JournalFields
<1>5. CASE Written("hook-complete", "hook-complete", 0, "backup")
  BY <1>5, JournalFields
<1>6. CASE Written("backup", "backup", k, "rename-live")
  BY <1>6, JournalFields
<1>7. CASE Written("backed-up", "backup", k, "activate")
  BY <1>7, JournalFields
<1>8. CASE Written("activate", "activate", k, "rename-staged")
  BY <1>8, JournalFields
<1>9. CASE Written("activated", "activate", k, IF k < N THEN "backup" ELSE "packages-activated")
  BY <1>9, JournalFields
<1>10. CASE Written("packages-activated", "packages-activated", 0, "registry-committing")
  BY <1>10, JournalFields
<1>11. CASE Written("registry-committing", "registry-committing", 0, "save-registry")
  BY <1>11, JournalFields
<1>12. CASE Written("mark", "registry-committed", 0, "commit")
  BY <1>12, JournalFields
<1>13. CASE Written("commit", "committed", 0, "clean")
  BY <1>13, JournalFields
<1> HIDE DEF Written, IInv, GoingBack, Restoring, Cleaning, Restores, Cleans, Agrees, Committed,
        GoingAhead, Staging, Hooking, Moving, Committing, AtPhase, Stages, Hooks, Moves, Commits
<1> QED BY <1>1, <1>2, <1>3, <1>4, <1>5, <1>6, <1>7, <1>8, <1>9, <1>10, <1>11, <1>12, <1>13 DEF Writes

\* Together.
LEMMA GoingBackStep ==
  ASSUME IInv, [Next]_vars
  PROVE  GoingBack'
<1>1. CASE WaitStep
  <2>1. pc' \notin {"rollback"} \union Restores \union Cleans
    BY <1>1, WaitSteps DEF Waits, Restores, Cleans
  <2> QED BY <2>1 DEF GoingBack, Restoring, Cleaning, Restores
<1>2. CASE AheadStep
  <2>1. JournalStep \/ pc' \in Installs
    BY <1>2 DEF AheadStep, Initialize, Stage, Snapshot, HookWrites, RenameLive, RenameStaged,
       SaveRegistry, Installs, Stages, Hooks, Moves, Commits
  <2>2. CASE pc' \in Installs
    <3>1. pc' \notin {"rollback"} \union Restores \union Cleans
      BY <2>2 DEF Installs, Stages, Hooks, Moves, Commits, Restores, Cleans
    <3> QED BY <3>1 DEF GoingBack, Restoring, Cleaning, Restores
  <2> QED BY <2>1, <2>2, JournalWrites, WritesGoBack
<1>3. CASE BackStep
  BY <1>3, BacksGoBack
<1>4. CASE UNCHANGED vars
  <2>1. UNCHANGED <<journal, mem, pc, k, live, staged, backup, data, snapshot, registry>>
    BY <1>4 DEF vars, files
  <2> QED BY <2>1 DEF IInv, GoingBack, Restoring, Cleaning, Agrees, PackagesBack, DataBack, HadLive,
          Vacant
<1> QED BY <1>1, <1>2, <1>3, <1>4, Steps

-----------------------------------------------------------------------------
(* Going ahead: a boundary waits, is renamed away, is replaced *)

\* The two renames.
LEMMA RenameLiveGoesAhead ==
  ASSUME IInv, RenameLive
  PROVE  GoingAhead'
<1>1. /\ pc = "rename-live" /\ mem = journal /\ k \in 1..N /\ data \in {mem.data, New} /\ snapshot = mem.data
      /\ (\A i \in 1..(k - 1) : Replaced(i)) /\ (\A i \in (k + 1)..N : Waiting(i)) /\ Waiting(k)
      /\ AtPhase("backup") /\ mem.at = k
  BY DEF RenameLive, IInv, GoingAhead, Moving, Moves
<1>2. live \in [Items -> Trees] /\ backup \in [Items -> Trees]
  BY DEF IInv, Types, TypeOK
<1>3. UNCHANGED <<journal, mem, k, data, snapshot, staged, installs>> /\ pc' = "backed-up"
      /\ live' = [live EXCEPT ![k] = Absent] /\ backup' = [backup EXCEPT ![k] = live[k]]
  BY DEF RenameLive, counters
<1>4. Renamed(k)'
  BY <1>1, <1>2, <1>3 DEF Renamed, Waiting, NewTree, New, HadLive, Items
<1>5. \A i \in 1..(k - 1) : Replaced(i)'
  BY <1>1, <1>2, <1>3 DEF Replaced, NewTree, New, HadLive, Items
<1>6. \A i \in (k + 1)..N : Waiting(i)'
  BY <1>1, <1>2, <1>3 DEF Waiting, NewTree, New, HadLive, Items
<1> QED BY <1>1, <1>3, <1>4, <1>5, <1>6 DEF GoingAhead, Staging, Hooking, Moving, Committing, AtPhase,
        Stages, Hooks, Moves, Commits, New

LEMMA RenameStagedGoesAhead ==
  ASSUME IInv, RenameStaged
  PROVE  GoingAhead'
<1>1. /\ pc = "rename-staged" /\ mem = journal /\ k \in 1..N /\ data \in {mem.data, New} /\ snapshot = mem.data
      /\ (\A i \in 1..(k - 1) : Replaced(i)) /\ (\A i \in (k + 1)..N : Waiting(i)) /\ Renamed(k)
      /\ AtPhase("activate") /\ mem.at = k
  BY DEF RenameStaged, IInv, GoingAhead, Moving, Moves
<1>2. live \in [Items -> Trees] /\ staged \in [Items -> Trees]
  BY DEF IInv, Types, TypeOK
<1>3. UNCHANGED <<journal, mem, k, data, snapshot, backup, installs>> /\ pc' = "activated"
      /\ live' = [live EXCEPT ![k] = staged[k]] /\ staged' = [staged EXCEPT ![k] = Absent]
  BY DEF RenameStaged, counters
<1>4. Replaced(k)'
  BY <1>1, <1>2, <1>3 DEF Renamed, Replaced, NewTree, New, HadLive, Items
<1>5. \A i \in 1..(k - 1) : Replaced(i)'
  BY <1>1, <1>2, <1>3 DEF Replaced, NewTree, New, HadLive, Items
<1>6. \A i \in (k + 1)..N : Waiting(i)'
  BY <1>1, <1>2, <1>3 DEF Waiting, NewTree, New, HadLive, Items
<1> QED BY <1>1, <1>3, <1>4, <1>5, <1>6 DEF GoingAhead, Staging, Hooking, Moving, Committing, AtPhase,
        Stages, Hooks, Moves, Commits, New

\* The other steps on files.
LEMMA InstallsGoAhead ==
  ASSUME IInv, Initialize \/ Stage \/ Snapshot \/ HookWrites \/ RenameLive \/ RenameStaged \/ SaveRegistry
  PROVE  GoingAhead'
<1> USE DEF GoingAhead, Staging, Hooking, Moving, Committing, AtPhase, Stages, Hooks, Moves, Commits
<1>1. CASE Initialize
  <2>1. journal = NoJournal /\ Settled
    BY <1>1 DEF Initialize, IInv, Session, Holds, Disk
  <2> QED BY <1>1, <2>1 DEF Initialize, Intent, files, Settled, Vacant
<1>2. CASE Stage
  <2>1. \A i \in Items : Waiting(i)'
    BY <1>2 DEF Stage, IInv, Waiting, NewTree, New, HadLive, Items, Vacant, counters
  <2> QED BY <1>2, <2>1 DEF Stage, IInv
<1>3. CASE Snapshot
  <2>1. \A i \in Items : Waiting(i)'
    BY <1>3, SnapshotNotes, JournalNotes DEF Snapshot, IInv, Waiting, NewTree, New, HadLive, Items,
       counters
  <2>2. mem' = [journal EXCEPT !.data = data] /\ snapshot' = data
    BY <1>3, SnapshotNotes DEF Snapshot
  <2> QED BY <1>3, <2>1, <2>2 DEF Snapshot, IInv
<1>4. CASE HookWrites
  <2>1. \A i \in Items : Waiting(i)'
    BY <1>4 DEF HookWrites, IInv, Waiting, NewTree, New, HadLive, Items, counters
  <2> QED BY <1>4, <2>1 DEF HookWrites, IInv, New, counters
<1>5. CASE SaveRegistry
  <2>1. \A i \in Items : Replaced(i)'
    BY <1>5 DEF SaveRegistry, IInv, Replaced, NewTree, New, HadLive, Items, counters
  <2> QED BY <1>5, <2>1 DEF SaveRegistry, NewEntry, IInv, New, counters
<1> HIDE DEF GoingAhead, Staging, Hooking, Moving, Committing, AtPhase, Stages, Hooks, Moves, Commits
<1> QED BY <1>1, <1>2, <1>3, <1>4, <1>5, RenameLiveGoesAhead, RenameStagedGoesAhead

\* The journal steps: an activated boundary is noted before the next one.
LEMMA ActivatedIsNoted ==
  ASSUME IInv, JournalStep, pc = "activated"
  PROVE  journal'.item[k] = "activated"
<1>1. Persist("activated", Item("activated"), IF k < N THEN "backup" ELSE "packages-activated")
  BY DEF JournalStep, Persist
<1>2. mem \in Journals /\ k \in 1..N
  BY InstallHoldsJournal DEF Installs, IInv, GoingAhead, Moving, Moves
<1>3. Item("activated").item[k] = "activated"
  BY <1>2, ItemState, JournalFields DEF Items
<1> QED BY <1>1, <1>3 DEF Persist

LEMMA WritesGoAhead ==
  ASSUME IInv, JournalStep, Writes
  PROVE  GoingAhead'
<1>1. /\ \A i \in Items : HadLive(mem, i)' = HadLive(mem, i)
      /\ \A i \in Items : Waiting(i) => Waiting(i)'
      /\ \A i \in Items : Renamed(i) => Renamed(i)'
      /\ \A i \in Items : Replaced(i) => Replaced(i)'
  BY DEF Writes, Written, Waiting, Renamed, Replaced, NewTree, HadLive, New, Items
<1>2. N \in Items /\ 1 \in Items /\ New' = New
  BY DEF Items, Writes, Written, New
<1> USE DEF Written, IInv, Items, GoingAhead, Staging, Hooking, Moving, Committing, AtPhase, Stages,
        Hooks, Moves, Commits
<1>3. CASE Written("staged", "staged", 0, "snapshot-pending")
  BY <1>1, <1>2, <1>3
<1>4. CASE Written("snapshot-pending", "snapshot-pending", 0, "snapshot")
  BY <1>1, <1>2, <1>4
<1>5. CASE Written("hook-pending", "hook-pending", 0, "hook-running")
  BY <1>1, <1>2, <1>5, HookPendingMemory
<1>6. CASE Written("hook-running", "hook-running", 0, "hook")
  BY <1>1, <1>2, <1>6
<1>7. CASE Written("hook-complete", "hook-complete", 0, "backup")
  BY <1>1, <1>2, <1>7
<1>8. CASE Written("backup", "backup", k, "rename-live")
  BY <1>1, <1>2, <1>8
<1>9. CASE Written("backed-up", "backup", k, "activate")
  BY <1>1, <1>2, <1>9
<1>10. CASE Written("activate", "activate", k, "rename-staged")
  BY <1>1, <1>2, <1>10
<1>11. CASE Written("activated", "activate", k, IF k < N THEN "backup" ELSE "packages-activated")
  <2>1. /\ k \in 1..N /\ k' = k + 1 /\ mem' = journal' /\ data' = data /\ snapshot' = snapshot
        /\ data \in {mem'.data, New} /\ snapshot = mem'.data
        /\ journal'.phase = "activate" /\ mem'.at = k /\ mem'.item[k] = "activated"
    BY <1>11, ActivatedIsNoted
  <2>2. (\A i \in 1..k : Replaced(i)') /\ (\A i \in (k + 1)..N : Waiting(i)')
    BY <1>1, <1>11
  <2>3. CASE k < N
    <3>1. pc' = "backup" /\ k' \in 1..N /\ k' # 1
      BY <1>11, <2>1, <2>3
    <3>2. (\A i \in 1..(k - 1) : Replaced(i))' /\ (\A i \in (k + 1)..N : Waiting(i))' /\ Waiting(k)'
      BY <2>1, <2>2, <2>3
    <3> QED BY <1>2, <2>1, <3>1, <3>2
  <2>4. CASE k = N
    <3>1. pc' = "packages-activated" /\ \A i \in Items : Replaced(i)'
      BY <1>11, <2>2, <2>4
    <3> QED BY <1>2, <2>1, <2>4, <3>1
  <2> QED BY <2>1, <2>3, <2>4
<1>12. CASE Written("packages-activated", "packages-activated", 0, "registry-committing")
  BY <1>1, <1>2, <1>12
<1>13. CASE Written("registry-committing", "registry-committing", 0, "save-registry")
  <2>1. mem = journal /\ registry = journal.registry
    BY <1>13, Ahead, Kept DEF RegistryKept
  <2> QED BY <1>1, <1>2, <1>13, <2>1
<1>14. CASE Written("mark", "registry-committed", 0, "commit")
  BY <1>1, <1>2, <1>14
<1>15. CASE Written("commit", "committed", 0, "clean")
  BY <1>1, <1>2, <1>15
<1> HIDE DEF Written, IInv, Items, GoingAhead, Staging, Hooking, Moving, Committing, AtPhase, Stages,
        Hooks, Moves, Commits
<1> QED BY <1>3, <1>4, <1>5, <1>6, <1>7, <1>8, <1>9, <1>10, <1>11, <1>12, <1>13, <1>14, <1>15 DEF Writes

\* Together.
LEMMA GoingAheadStep ==
  ASSUME IInv, [Next]_vars
  PROVE  GoingAhead'
<1>1. CASE WaitStep \/ BackStep
  <2>1. pc' \notin Installs
    BY <1>1, WaitSteps, BackSteps DEF Waits, Restores, Cleans, Installs, Stages, Hooks, Moves, Commits
  <2> QED BY <2>1 DEF GoingAhead, Staging, Hooking, Moving, Committing, Installs, Stages, Hooks, Moves,
          Commits
<1>2. CASE AheadStep
  BY <1>2, InstallsGoAhead, JournalWrites, WritesGoAhead DEF AheadStep
<1>3. CASE UNCHANGED vars
  <2>1. UNCHANGED <<journal, live, staged, backup, data, snapshot, registry, pc, mem, k, installs>>
    BY <1>3 DEF vars, files, counters
  <2> QED BY <2>1 DEF IInv, GoingAhead, Staging, Hooking, Moving, Committing, AtPhase, Waiting, Renamed,
          Replaced, NewTree, HadLive, Vacant, New
<1> QED BY <1>1, <1>2, <1>3, Steps

-----------------------------------------------------------------------------
(* Reports *)

\* A session that ends with the journal removed says what happened,
LEMMA CleanJournalReports ==
  ASSUME IInv, CleanJournal
  PROVE  ReportsAreTrue'
<1>1. /\ journal # NoJournal /\ Agrees /\ mem.data = journal.data
      /\ (mem.phase \notin Committed => PackagesBack(N) /\ DataBack /\ registry = mem.registry)
  BY DEF CleanJournal, IInv, GoingBack, Cleaning, Cleans, Session, Holds, Waits
<1>2. journal' = NoJournal /\ UNCHANGED <<live, staged, backup, data, snapshot, registry, installs, before>>
  BY DEF CleanJournal, files, counters
<1>3. CASE outcome' = "failed"
  <2>1. own /\ mem.phase \notin Committed
    BY <1>3 DEF CleanJournal, Ends, IInv, Session, Holds, Cleans
  <2>2. before \in States /\ journal \in Journals /\ live \in [Items -> Trees]
    BY <1>1 DEF IInv, Types, TypeOK
  <2>3. live = before.packages
    <3>1. /\ journal.had \in [Items -> Versions] /\ before.packages = journal.had
          /\ \A i \in Items : live[i] = journal.had[i]
      BY <1>1, <2>1, <2>2, JournalFields DEF IInv, Session, Remembers, PackagesBack, Items, Agrees
    <3> QED BY <2>2, <3>1
  <2>4. data = before.data /\ registry = before.registry
    BY <1>1, <2>1 DEF IInv, Session, Remembers, DataBack, Agrees
  <2>5. State = before
    BY <2>2, <2>3, <2>4 DEF State, States
  <2> QED BY <1>2, <1>3, <2>5 DEF ReportsAreTrue, State
<1>4. CASE outcome' = "installed"
  <2>1. own /\ mem.phase \in Committed
    BY <1>4 DEF CleanJournal, Ends, IInv, Session, Holds, Cleans
  <2>2. Renewed(journal) /\ before.packages = journal.had /\ registry = [before.registry EXCEPT !.version = New]
    BY <1>1, <2>1 DEF IInv, Disk, Described, Session, Remembers, Agrees
  <2> QED BY <1>2, <1>4, <2>2 DEF ReportsAreTrue, Renewed, HadLive, New, Undoable
<1> QED BY <1>3, <1>4 DEF ReportsAreTrue

\* one whose cleanup fails as well;
LEMMA UndoThrowsReports ==
  ASSUME IInv, UndoThrows
  PROVE  ReportsAreTrue'
<1>1. UNCHANGED <<journal, live, data, registry, before, installs>>
  BY DEF UndoThrows, files
<1>2. outcome' # "failed"
  BY DEF UndoThrows, GivesUp, Ends
<1>3. CASE outcome' = "installed"
  <2>1. own /\ mem.phase \in Committed
    BY <1>3 DEF UndoThrows, GivesUp, Ends
  <2>2. journal # NoJournal /\ Agrees
    BY <2>1 DEF UndoThrows, IInv, Session, Holds, Waits, GoingBack, Restoring, Cleaning, Restores,
       Cleans
  <2>3. /\ Renewed(journal) /\ before.packages = journal.had
        /\ registry = [before.registry EXCEPT !.version = New] /\ ~Undoable
    BY <2>1, <2>2 DEF IInv, Disk, Described, Session, Remembers, Agrees, Undoable
  <2> QED BY <1>1, <1>3, <2>3 DEF ReportsAreTrue, Renewed, HadLive, New, Undoable
<1> QED BY <1>2, <1>3 DEF ReportsAreTrue

\* nobody else says that it installed or failed.
LEMMA ReportsStep ==
  ASSUME IInv, [Next]_vars
  PROVE  ReportsAreTrue'
<1>1. CASE AheadStep \/ BackStep
  <2>1. pc # "idle"
    BY <1>1 DEF AheadStep, BackStep, Initialize, Stage, Snapshot, HookWrites, RenameLive, RenameStaged,
       SaveRegistry, JournalStep, Persist, RecoveryStarts, RollbackStarts, RestorePackage, PutBack,
       RestoreData, PutDataBack, RestoreRegistry, CleanTrees, CleanSnapshot, StageThrows,
       HookPendingThrows, HookThrows, RenameThrows, SaveThrows, JournalThrows, Throws
  <2>2. outcome' = "none"
    BY <1>1, <2>1, AheadSteps, BackSteps DEF IInv, Session, Holds
  <2> QED BY <2>2 DEF ReportsAreTrue
<1>2. CASE CommitThrows
  <2>1. /\ own /\ journal # NoJournal /\ journal.phase \in Committed
    BY <1>2 DEF CommitThrows, IInv, Session, Holds, Waits, GoingAhead, Committing, AtPhase, Committed,
       Installs, Commits
  <2>2. /\ UNCHANGED <<journal, live, data, registry, before, installs>> /\ outcome' = "installed"
    BY <1>2 DEF CommitThrows, Ends, files
  <2>3. /\ Renewed(journal) /\ before.packages = journal.had
        /\ registry = [before.registry EXCEPT !.version = New] /\ ~Undoable
    BY <2>1 DEF IInv, Disk, Described, Session, Remembers, Undoable
  <2> QED BY <2>2, <2>3 DEF ReportsAreTrue, Renewed, HadLive, New, Undoable
<1>3. CASE WaitStep /\ ~CommitThrows /\ ~CleanJournal /\ ~UndoThrows
  <2>1. outcome' \notin {"failed", "installed"}
    BY <1>3 DEF WaitStep, Acquire, NothingToRecover, Quarantined, Started, Edited, RestoreRefused,
       Crash, GivesUp, Ends, IInv, Session, Holds
  <2> QED BY <2>1 DEF ReportsAreTrue
<1>4. CASE UNCHANGED vars
  <2>1. UNCHANGED <<journal, live, data, registry, before, outcome, installs>>
    BY <1>4 DEF vars, files, session, counters
  <2> QED BY <2>1 DEF IInv, ReportsAreTrue, State, Undoable, New
<1> QED BY <1>1, <1>2, <1>3, <1>4, CleanJournalReports, UndoThrowsReports, Steps

-----------------------------------------------------------------------------
(* The invariant and what it means *)

\* The program starts in the invariant.
LEMMA InitInv ==
  ASSUME Init
  PROVE  IInv
<1>1. /\ journal = NoJournal /\ pc = "idle" /\ op = "startup" /\ mem = NoJournal /\ k = 0 /\ outcome = "none"
      /\ installs = 0 /\ faults = 0 /\ crashes = 0 /\ snapshot = Absent
      /\ staged = [i \in Items |-> Absent] /\ backup = [i \in Items |-> Absent]
  BY DEF Init
<1>2. live \in [Items -> {0, 1}] /\ data \in {0, 1} /\ registry \in Registries /\ registry.version \in {0, 1}
  BY DEF Init, Registries, Versions, NoRegistry, Absent
<1>3. ~own /\ own \in BOOLEAN
  BY DEF Init
<1>4. /\ live \in [Items -> Trees] /\ staged \in [Items -> Trees] /\ backup \in [Items -> Trees]
      /\ data \in Trees /\ snapshot \in Trees
  BY <1>1, <1>2 DEF Trees, Versions, Absent
<1>5. before \in States
  BY <1>2 DEF Init, State, States, Versions
<1>6. installs \in 0..MaxInstalls /\ faults \in 0..MaxFaults /\ crashes \in 0..MaxCrashes /\ k \in 0..(N + 1)
  BY <1>1
<1>7. Types
  BY <1>1, <1>2, <1>3, <1>4, <1>5, <1>6 DEF Types, TypeOK, Points, Waits, Outcomes
<1>8. Disk
  BY <1>1, <1>2 DEF Disk, Settled, Vacant, New
<1>9. Session
  BY <1>1, <1>3 DEF Session, Holds, Begins, Remembers, Waits, Installs, Stages, Hooks, Moves, Commits
<1>10. GoingBack /\ GoingAhead /\ ReportsAreTrue
  BY <1>1 DEF GoingBack, Restoring, Cleaning, Restores, Cleans, GoingAhead, Staging, Hooking, Moving,
     Committing, Stages, Hooks, Moves, Commits, ReportsAreTrue
<1> QED BY <1>7, <1>8, <1>9, <1>10 DEF IInv

\* The inductive invariant holds of every behaviour of the installer and the
\* recovery: plugin-installer.ts under crashes and faults between any two steps.
THEOREM Invariance == Spec => []IInv
<1>1. IInv /\ [Next]_vars => IInv'
  BY TypesStep, DiskStep, SessionStep, GoingBackStep, GoingAheadStep, ReportsStep DEF IInv
<1> QED BY <1>1, InitInv, PTL DEF Spec

\* The invariant says where every original is.
LEMMA OriginalsKept ==
  ASSUME IInv
  PROVE  OriginalsSurvive
<1> SUFFICES ASSUME Undoable PROVE OriginalsSurvive
  BY DEF OriginalsSurvive
<1>1. /\ journal \in Journals /\ \A i \in Items : PackageKept(journal, i)
      /\ DataKept(journal) /\ RegistryKept(journal)
  BY Kept DEF Undoable
<1> QED BY <1>1 DEF OriginalsSurvive, PackageKept, DataKept, RegistryKept

\* Every variable stays in its type, and a session that ended has neither a
\* transaction nor a journal in memory.
THEOREM TypesKept == Spec => []TypeOK
<1>1. IInv => TypeOK
  BY DEF IInv, Types
<1> QED BY <1>1, Invariance, PTL

\* Nothing is lost and nobody is told otherwise: the originals a journal names
\* are in place or in their backups until it commits, "failed" means that all is
\* as before, and "installed" that all is new and stays so.
THEOREM Safety == Spec => []NothingIsLost
<1>1. IInv => NothingIsLost
  BY OriginalsKept DEF IInv, NothingIsLost
<1> QED BY <1>1, Invariance, PTL

-----------------------------------------------------------------------------
(* The refinement: what the abstract installation sees *)

\* While a journal is not committed, what it names; then what lies there.
Packs == IF Undoable THEN journal.had ELSE live

Data  == IF Undoable /\ journal.data # Unknown THEN journal.data ELSE data

Entry == IF Undoable THEN journal.registry ELSE registry

Seen  == <<Packs, Data, Entry>>

\* File by file nothing is seen of an install, nor of its undoing.
LEMMA SeenAlike ==
  ASSUME IInv, [Next]_vars, journal' = journal, ~Edited
  PROVE  Seen' = Seen
<1>1. UNCHANGED <<live, data, registry>> \/ HookWrites \/ RenameLive \/ RenameStaged \/ SaveRegistry \/ SaveThrows
      \/ RestorePackage \/ PutBack \/ RestoreData \/ PutDataBack \/ RestoreRegistry
  BY FileSteps DEF FileStep, files, Stage, Snapshot, CleanTrees, CleanSnapshot, HookPendingThrows
<1>2. CASE UNCHANGED <<live, data, registry>>
  BY <1>2 DEF Seen, Packs, Data, Entry, Undoable
<1>3. CASE ~UNCHANGED <<live, data, registry>>
  <2>1. Undoable
    BY <1>1, <1>3, Ahead, Behind DEF Undoable, HookWrites, RenameLive, RenameStaged, SaveRegistry,
       SaveThrows, Throws, RestorePackage, PutBack, RestoreData, PutDataBack, RestoreRegistry,
       Hooks, Moves, Commits, Restores
  <2>2. data' = data \/ journal.data # Unknown
    <3>1. CASE HookWrites
      BY <3>1, Ahead DEF HookWrites, Hooks
    <3>2. CASE RestoreData
      BY <3>2, Behind DEF RestoreData, DataInPlace, Restores
    <3>3. CASE PutDataBack
      BY <3>3, Behind DEF PutDataBack, Restores, IInv, GoingBack, Restoring
    <3>4. CASE \/ RenameLive \/ RenameStaged \/ SaveRegistry \/ SaveThrows
               \/ RestorePackage \/ PutBack \/ RestoreRegistry
      BY <3>4 DEF RenameLive, RenameStaged, SaveRegistry, SaveThrows, RestorePackage, PutBack,
         RestoreRegistry
    <3> QED BY <1>1, <1>3, <3>1, <3>2, <3>3, <3>4
  <2> QED BY <2>1, <2>2 DEF Seen, Packs, Data, Entry, Undoable
<1> QED BY <1>2, <1>3

\* An edit of the registry is one.
LEMMA EditSeen ==
  ASSUME IInv, Edited
  PROVE  Inst!Edit \/ Seen' = Seen
<1>1. ~Undoable /\ ~Undoable' /\ UNCHANGED <<live, data>>
  BY DEF Edited, IInv, Session, Holds, Undoable
<1>2. registry' = [registry EXCEPT !.edits = @ + 1] \/ registry' = registry
  BY DEF Edited
<1> QED BY <1>1, <1>2 DEF Inst!Edit, Seen, Packs, Data, Entry

\* A journal that appears shows what lay there,
LEMMA InitializeSeen ==
  ASSUME IInv, Initialize
  PROVE  Seen' = Seen
<1>1. /\ journal = NoJournal /\ UNCHANGED <<live, data, registry>>
      /\ journal' = Intent /\ journal'.phase = "initialized" /\ journal'.had = live /\ journal'.data = Unknown
      /\ journal'.registry = registry
  BY DEF Initialize, Intent, files, IInv, Session, Holds
<1>2. Undoable' /\ ~Undoable
  BY <1>1, IntentIsAJournal, JournalFields DEF Undoable, Committed
<1> QED BY <1>1, <1>2 DEF Seen, Packs, Data, Entry

\* one that goes leaves what it showed.
LEMMA CleanJournalSeen ==
  ASSUME IInv, CleanJournal
  PROVE  Seen' = Seen
<1>1. /\ journal # NoJournal /\ Agrees /\ mem.data = journal.data /\ journal \in Journals
      /\ live \in [Items -> Trees]
      /\ (mem.phase \notin Committed => PackagesBack(N) /\ DataBack /\ registry = mem.registry)
  BY DEF CleanJournal, IInv, Types, TypeOK, GoingBack, Cleaning, Cleans, Session, Holds, Waits
<1>2. journal' = NoJournal /\ UNCHANGED <<live, data, registry>>
  BY DEF CleanJournal, files
<1>3. CASE journal.phase \in Committed
  BY <1>2, <1>3 DEF Seen, Packs, Data, Entry, Undoable
<1>4. CASE journal.phase \notin Committed
  <2>1. live = journal.had
    <3>1. journal.had \in [Items -> Versions] /\ \A i \in Items : live[i] = journal.had[i]
      BY <1>1, <1>4, JournalFields DEF PackagesBack, Items, Agrees
    <3> QED BY <1>1, <3>1
  <2>2. registry = journal.registry /\ (journal.data # Unknown => data = journal.data)
    BY <1>1, <1>4 DEF DataBack, Agrees
  <2> QED BY <1>2, <2>1, <2>2 DEF Seen, Packs, Data, Entry, Undoable
<1> QED BY <1>3, <1>4

\* The commit is the install: one journal write makes the packages, the data
\* and the registry new together.
LEMMA MarkSeen ==
  ASSUME IInv, Written("mark", "registry-committed", 0, "commit")
  PROVE  Inst!Install
<1>1. /\ journal # NoJournal /\ journal.phase \notin Committed /\ mem = journal
      /\ journal.data # Unknown /\ journal \in Journals
      /\ UNCHANGED <<live, data, registry, installs>> /\ pc = "mark"
  BY Ahead, JournalFields DEF Written, Commits
<1>2. Undoable /\ ~Undoable'
  BY <1>1 DEF Undoable, Written, Committed
<1>3. /\ \A i \in Items : Replaced(i)
      /\ data \in {journal.data, New} /\ registry = [journal.registry EXCEPT !.version = New]
  BY <1>1 DEF IInv, GoingAhead, Committing, Commits
<1>4. /\ \A i \in Items : live[i] = New \/ (live[i] = 0 /\ i = N /\ journal.had[i] = 0)
      /\ live \in [Items -> Trees]
  BY <1>1, <1>3 DEF Replaced, NewTree, HadLive, Absent, IInv, Types, TypeOK
<1>5. journal.registry.version \in 0..installs /\ installs \in 0..MaxInstalls
  BY <1>1, Kept DEF Older, IInv, Types, TypeOK
<1>6. New \in 0..(MaxInstalls + 1) /\ New > journal.registry.version
  BY <1>5 DEF New
<1>7. live \in [Items -> {0, New}] /\ live[1] = New
  BY <1>4 DEF Items
<1> DEFINE v == New
<1>8. /\ v \in 0..(MaxInstalls + 1) /\ v > Entry.version
      /\ Packs' \in [Items -> {0, v}]
      /\ Packs'[1] = v /\ \A i \in Items : Packs[i] # 0 => Packs'[i] = v
      /\ Data' \in {Data, v}
      /\ Entry' = [Entry EXCEPT !.version = v]
  BY <1>1, <1>2, <1>3, <1>4, <1>6, <1>7 DEF Packs, Data, Entry
<1> QED BY <1>8 DEF Inst!Install, Inst!Items, Packs, Data, Entry, Items

\* No other journal step shows.
LEMMA WritesSeen ==
  ASSUME IInv, Writes
  PROVE  Inst!Install \/ Seen' = Seen
<1>1. UNCHANGED <<live, data, registry>> /\ journal # NoJournal /\ journal' # NoJournal
  BY JournalFields DEF Writes, Written
<1>2. CASE Written("mark", "registry-committed", 0, "commit")
  BY <1>2, MarkSeen
<1>3. CASE Written("commit", "committed", 0, "clean")
  <2>1. journal.phase \in Committed /\ journal'.phase \in Committed
    BY <1>3 DEF Written, IInv, GoingAhead, Committing, Commits, AtPhase, Committed
  <2> QED BY <1>1, <2>1 DEF Seen, Packs, Data, Entry, Undoable
<1>4. CASE pc = "hook-pending"
  <2>1. /\ journal.data = Unknown /\ journal'.data = data /\ journal'.had = journal.had
        /\ journal'.registry = journal.registry
        /\ journal.phase \notin Committed /\ journal'.phase \notin Committed
    BY <1>4, HookPendingMemory DEF Writes, Written, Committed, Agrees
  <2> QED BY <1>1, <2>1 DEF Seen, Packs, Data, Entry, Undoable
<1>5. CASE pc \notin {"mark", "commit", "hook-pending"}
  <2>1. mem = journal /\ journal.phase \notin Committed
    BY <1>5 DEF Writes, Written, IInv, GoingAhead, Staging, Hooking, Moving, Committing, AtPhase,
       Stages, Hooks, Moves, Commits, Committed
  <2>2. /\ journal'.phase \notin Committed /\ journal'.had = mem.had
        /\ journal'.registry = mem.registry /\ journal'.data = mem.data
    BY <1>5 DEF Writes, Written, Committed
  <2> QED BY <1>1, <2>1, <2>2 DEF Seen, Packs, Data, Entry, Undoable
<1> QED BY <1>2, <1>3, <1>4, <1>5 DEF Writes, Written

\* Every step is a step of the abstract installation or none.
LEMMA StepSeen ==
  ASSUME IInv, [Next]_vars
  PROVE  [Inst!Next]_(Inst!vars)
<1>1. Inst!Install \/ Inst!Edit \/ Seen' = Seen
  BY SeenAlike, EditSeen, InitializeSeen, CleanJournalSeen, JournalWrites, WritesSeen, JournalChanges
<1>2. Seen' = Seen => (Inst!vars)' = Inst!vars
  BY DEF Seen, Inst!vars, Packs, Data, Entry
<1> QED BY <1>1, <1>2 DEF Inst!Next

\* So is the start.
LEMMA InitSeen ==
  ASSUME Init
  PROVE  Inst!Init
<1>1. ~Undoable
  BY DEF Init, Undoable
<1>2. live \in [Items -> 0..1] /\ data \in 0..1 /\ registry.edits = 0
  BY DEF Init, Absent, NoRegistry
<1> QED BY <1>1, <1>2 DEF Inst!Init, Inst!Items, Items

\* The journaled install implements the all-or-nothing Installation: packages,
\* data and registry change together at the commit, or not at all.
THEOREM Refinement == Spec => ImplementsInstallation
<1>1. IInv /\ [Next]_vars => [Inst!Next]_(Inst!vars)
  BY StepSeen
<1>2. Init => Inst!Init
  BY InitSeen
<1> QED BY <1>1, <1>2, Invariance, PTL DEF Spec, ImplementsInstallation, Inst!Spec
=============================================================================
