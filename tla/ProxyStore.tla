----------------------------- MODULE ProxyStore -----------------------------
(***************************************************************************)
(* The transactional proxy policy store (core/network/proxy-store.ts) and   *)
(* the mutations of proxy-service.ts that use it.  The policy lies in two   *)
(* files, proxy.json and proxy-secrets.json; a commit writes it to a        *)
(* journal first and removes the journal last, under a lock file.  Readers  *)
(* take no lock and do not look at the journal.                             *)
(*                                                                         *)
(* The actors are the mutation queue of the daemon, its registrations of    *)
(* scopes, which do not wait in that queue, and commands of the command     *)
(* line, each in a process of its own.  All of a mutation but the test of   *)
(* its candidate, and the listeners that hear of a changed route before the *)
(* queue goes on, is synchronous: nothing else of its process runs between  *)
(* two steps, only other processes do.                                      *)
(***************************************************************************)
EXTENDS Naturals, FiniteSets

CONSTANTS None,
          Actors,       \* who mutates the policy
          Servers,      \* those of them in the daemon
          Tested,       \* those that test their candidate before they commit it
          MaxMutations, MaxCrashes, MaxFaults   \* bounds

ASSUME ProxyStoreAssumption ==
    /\ Servers \subseteq Actors /\ Tested \subseteq Actors /\ None \notin Actors
    /\ Actors \intersect {"dead", "empty"} = {}
    /\ MaxMutations \in Nat /\ MaxCrashes \in Nat /\ MaxFaults \in Nat

\* A mutation of the routes (setRoute, clearRoute, registerScope) and a profile
\* saved without credentials ("endpoint") leave those that are there; a profile
\* may also set them, or clear them, as its deletion does.
Kinds == {"route", "endpoint", "set", "clear"}
Mutations == [nr : 1..MaxMutations, kind : Kinds]

VARIABLES config,     \* proxy.json
          secrets,    \* proxy-secrets.json: the mutation that set the credentials
          journal,    \* proxy-transaction.json
          lkg,        \* proxy-lkg.json
          lock,       \* proxy.lock: whose process it names, "dead" for one before that
                      \* process was started again, "empty" when nothing was written
          actor,
          begun, crashes, faults,
          acked,      \* history: the mutations that were reported as done
          peeked,     \* history: somebody read the files beside a journal
          shared      \* history: two have been under the lock at once

files == <<config, secrets, journal, lkg>>
history == <<acked, peeked, shared>>
bounds == <<begun, crashes, faults>>
vars == <<files, lock, actor, bounds, history>>

Configs == [revision : Nat, edits : SUBSET Mutations, has : BOOLEAN]
Secrets == Mutations \union {None}
Policies == [config : Configs, secrets : Secrets]
ASSUME NoneIsNothing == None \notin Mutations \union Policies
Reading == {"consistency", "again", "credentials"}
Writing == {"journal", "config", "secrets", "lkg", "unlink"}
Locked == Writing \union {"recover", "compare"}
Waiting == {"lock", "stale"}
Resting == {"down", "idle", "testing", "notifying"}
Operations == [pc : Resting \union Reading \union Waiting \union Locked,
               id : Mutations \union {None}, base : Configs \union {None},
               has : BOOLEAN, pass : Secrets, tx : Policies \union {None}, replay : BOOLEAN]

\* The constructor is an operation as well, the one of no mutation.
Idle == [pc |-> "idle", id |-> None, base |-> None, has |-> FALSE, pass |-> None, tx |-> None, replay |-> FALSE]
Down == [Idle EXCEPT !.pc = "down"]
Notifying == [Idle EXCEPT !.pc = "notifying"]
Opens(r) == r.id = None

\* The actors of one process, and those in the middle of something synchronous.
Mates(a) == IF a \in Servers THEN Servers ELSE {a}
Busy(a) == actor[a].pc \notin Resting
Runs(a) == \A b \in Mates(a) \ {a} : ~Busy(b)

Consistent(c, s) == c.has = (s # None)
To(a, pc) == actor' = [actor EXCEPT ![a].pc = pc]
Peeks == peeked' = (peeked \/ journal # None)

-----------------------------------------------------------------------------
(* Processes *)

\* A new process, of another number than the one before.
Start(a) ==
    /\ \A b \in Mates(a) : actor[b].pc = "down"
    /\ actor' = [actor EXCEPT ![a] = [Idle EXCEPT !.pc = "lock"]]
    /\ lock' = IF lock \in Mates(a) THEN "dead" ELSE lock
    /\ UNCHANGED <<files, bounds, history>>

\* A lock that was just created may not be written yet.
Crash(a) ==
    /\ actor[a].pc # "down" /\ crashes < MaxCrashes /\ crashes' = crashes + 1
    /\ actor' = [b \in Actors |-> IF b \in Mates(a) THEN Down ELSE actor[b]]
    /\ \/ UNCHANGED lock
       \/ \E b \in Mates(a) : lock = b /\ actor[b].pc = "recover" /\ lock' = "empty"
    /\ UNCHANGED <<files, begun, faults, history>>

\* A constructor that throws leaves no store.
Refuse(a) == actor' = [actor EXCEPT ![a] = IF Opens(actor[a]) THEN Down ELSE Idle]

-----------------------------------------------------------------------------
(* A mutation reads: load(), the test of the candidate, getSecrets() *)

Begin(a, kind) ==
    /\ actor[a].pc = "idle" /\ Runs(a)
    /\ begun < MaxMutations /\ begun' = begun + 1
    /\ kind = "route" \/ a \in Tested
    /\ actor' = [actor EXCEPT ![a] = [Idle EXCEPT !.pc = "consistency", !.base = config,
                                                  !.id = [nr |-> begun', kind |-> kind]]]
    /\ Peeks
    /\ UNCHANGED <<files, lock, crashes, faults, acked, shared>>

\* load() compares what it has read with the credentials.  A route is tested
\* before getSecrets(), a profile after it.
CheckConsistency(a) ==
    /\ actor[a].pc = "consistency"
    /\ Peeks
    /\ IF Consistent(actor[a].base, secrets)
       THEN To(a, IF a \in Tested /\ actor[a].id.kind = "route" THEN "testing" ELSE "again")
       ELSE Refuse(a)
    /\ UNCHANGED <<files, lock, bounds, acked, shared>>

\* getSecrets() reads both files again, and keeps the credentials.
ReadAgain(a) ==
    /\ actor[a].pc = "again"
    /\ Peeks
    /\ actor' = [actor EXCEPT ![a].pc = "credentials", ![a].has = config.has]
    /\ UNCHANGED <<files, lock, bounds, acked, shared>>

ReadCredentials(a) ==
    /\ actor[a].pc = "credentials"
    /\ Peeks
    /\ IF actor[a].has = (secrets # None)
       THEN actor' = [actor EXCEPT ![a].pass = secrets,
                        ![a].pc = IF a \in Tested /\ actor[a].id.kind # "route" THEN "testing" ELSE "lock"]
       ELSE Refuse(a)
    /\ UNCHANGED <<files, lock, bounds, acked, shared>>

TestPasses(a) ==
    /\ actor[a].pc = "testing" /\ Runs(a)
    /\ To(a, IF actor[a].id.kind = "route" THEN "again" ELSE "lock")
    /\ UNCHANGED <<files, lock, bounds, history>>

TestFails(a) ==
    /\ actor[a].pc = "testing"
    /\ Refuse(a)
    /\ UNCHANGED <<files, lock, bounds, history>>

-----------------------------------------------------------------------------
(* acquireLock() and releaseLock() *)

\* Creating the file is exclusive, and the only thing that is.
Acquire(a) ==
    /\ actor[a].pc = "lock" /\ lock = None
    /\ lock' = a
    /\ To(a, "recover")
    /\ shared' = (shared \/ \E b \in Actors : actor[b].pc \in Locked)
    /\ UNCHANGED <<files, bounds, acked, peeked>>

\* The file is created but not written, or not flushed; it is not removed.
AcquireFails(a) ==
    /\ actor[a].pc = "lock" /\ lock = None
    /\ faults < MaxFaults /\ faults' = faults + 1
    /\ lock' \in {a, "empty"}
    /\ Refuse(a)
    /\ UNCHANGED <<files, begun, crashes, history>>

\* A mutant that waits for a process that is gone.
MutantStale == lock = "empty"
\* The lock of a process that is gone, or an empty one of thirty seconds.
Stale == lock \in {"dead", "empty"} \/ \E b \in Actors : lock = b /\ actor[b].pc = "down"

\* removeStaleLock() looks, and then removes what is there by now.
FindsStale(a) ==
    /\ actor[a].pc = "lock" /\ Stale
    /\ To(a, "stale")
    /\ UNCHANGED <<files, lock, bounds, history>>

UnlinkStale(a) ==
    /\ actor[a].pc = "stale"
    /\ lock' = None
    /\ To(a, "lock")
    /\ UNCHANGED <<files, bounds, history>>

\* PROXY_STORE_BUSY, after two seconds.
GiveUp(a) ==
    /\ actor[a].pc = "lock" /\ lock # None
    /\ Stale => lock = "empty"
    /\ Refuse(a)
    /\ UNCHANGED <<files, lock, bounds, history>>

\* What is there is removed, whoever has created it, and a failure goes unseen.
Release(n) ==
    \/ lock' = None /\ faults' = n
    \/ n < MaxFaults /\ lock' = lock /\ faults' = n + 1

-----------------------------------------------------------------------------
(* commit(), and the constructor *)

\* The queue of the daemon tells the listeners of a changed route before it
\* takes the next mutation; the deletion of a profile may change some.
Afterwards(a) ==
    CASE a \notin Tested \/ Opens(actor[a]) -> {Idle}
      [] actor[a].id.kind = "route" -> {Notifying}
      [] actor[a].id.kind = "clear" -> {Idle, Notifying}
      [] OTHER -> {Idle}

\* The end of an operation, with the lock released.
Done(a) ==
    /\ Release(faults)
    /\ \E r \in Afterwards(a) : actor' = [b \in Actors |->
           IF b = a THEN r ELSE IF b \in Mates(a) /\ actor[b].pc = "down" THEN Idle ELSE actor[b]]

ListenersSettle(a) ==
    /\ actor[a].pc = "notifying"
    /\ actor' = [actor EXCEPT ![a] = Idle]
    /\ UNCHANGED <<files, lock, bounds, history>>

\* recoverJournal(): the constructor needs no more than that.
Recovered(a) == IF Opens(actor[a]) THEN Done(a) ELSE To(a, "compare") /\ UNCHANGED <<lock, faults>>

\* A mutant that forgets the journal of a commit that was cut off.
MutantRecover(a) ==
    /\ actor[a].pc = "recover"
    /\ Recovered(a)
    /\ UNCHANGED <<files, begun, crashes, history>>
Recover(a) ==
    /\ actor[a].pc = "recover"
    /\ IF journal = None THEN Recovered(a)
       ELSE /\ actor' = [actor EXCEPT ![a].pc = "config", ![a].tx = journal, ![a].replay = TRUE]
            /\ UNCHANGED <<lock, faults>>
    /\ UNCHANGED <<files, begun, crashes, history>>

\* The credentials the mutation leaves, and the settings with its own edit.
Pass(r) == CASE r.id.kind = "set" -> r.id [] r.id.kind = "clear" -> None [] OTHER -> r.pass
Transaction(r) ==
    [config |-> [revision |-> r.base.revision + 1, edits |-> r.base.edits \union {r.id}, has |-> Pass(r) # None],
     secrets |-> Pass(r)]

\* The expected revision is compared once the lock is held.
\* A mutant that does not compare it.
MutantUnchanged(a) == TRUE
Unchanged(a) == config.revision = actor[a].base.revision

\* A mutant that returns with the lock held.
MutantCompare(a) ==
    /\ actor[a].pc = "compare"
    /\ IF Consistent(config, secrets) /\ Unchanged(a)
       THEN actor' = [actor EXCEPT ![a].pc = "journal", ![a].tx = Transaction(actor[a]), ![a].replay = FALSE]
       ELSE Refuse(a)
    /\ UNCHANGED <<files, lock, bounds, history>>
Compare(a) ==
    /\ actor[a].pc = "compare"
    /\ IF Consistent(config, secrets) /\ Unchanged(a)
       THEN /\ actor' = [actor EXCEPT ![a].pc = "journal", ![a].tx = Transaction(actor[a]), ![a].replay = FALSE]
            /\ UNCHANGED <<lock, faults>>
       ELSE Refuse(a) /\ Release(faults)
    /\ UNCHANGED <<files, begun, crashes, history>>

\* A mutant that keeps no journal.
MutantWriteJournal(a) ==
    /\ actor[a].pc = "journal"
    /\ To(a, "config")
    /\ UNCHANGED <<files, lock, bounds, history>>
WriteJournal(a) ==
    /\ actor[a].pc = "journal"
    /\ journal' = actor[a].tx
    /\ To(a, "config")
    /\ UNCHANGED <<config, secrets, lkg, lock, bounds, history>>

WriteConfig(a) ==
    /\ actor[a].pc = "config"
    /\ config' = actor[a].tx.config
    /\ To(a, "secrets")
    /\ UNCHANGED <<secrets, journal, lkg, lock, bounds, history>>

WriteSecrets(a) ==
    /\ actor[a].pc = "secrets"
    /\ secrets' = actor[a].tx.secrets
    /\ To(a, "lkg")
    /\ UNCHANGED <<config, journal, lkg, lock, bounds, history>>

WriteLkg(a) ==
    /\ actor[a].pc = "lkg"
    /\ lkg' = actor[a].tx
    /\ To(a, "unlink")
    /\ UNCHANGED <<config, secrets, journal, lock, bounds, history>>

\* The journal is missing only if another has removed it.
Unlink(a) ==
    /\ actor[a].pc = "unlink"
    /\ journal' = None
    /\ CASE journal = None -> Refuse(a) /\ Release(faults) /\ UNCHANGED acked
         [] journal # None /\ actor[a].replay -> Recovered(a) /\ UNCHANGED acked
         [] OTHER -> Done(a) /\ acked' = acked \union {actor[a].id}
    /\ UNCHANGED <<config, secrets, lkg, begun, crashes, peeked, shared>>

\* A write that fails is reported, and the journal stays.
WriteFails(a) ==
    /\ actor[a].pc \in Writing /\ faults < MaxFaults
    /\ Refuse(a) /\ Release(faults + 1)
    /\ UNCHANGED <<files, begun, crashes, history>>

-----------------------------------------------------------------------------
Fresh == [revision |-> 0, edits |-> {}, has |-> FALSE]

Init ==
    /\ config = Fresh /\ secrets = None /\ journal = None /\ lkg = None /\ lock = None
    /\ actor = [a \in Actors |-> Down]
    /\ begun = 0 /\ crashes = 0 /\ faults = 0
    /\ acked = {} /\ peeked = FALSE /\ shared = FALSE

Reads(a) == CheckConsistency(a) \/ ReadAgain(a) \/ ReadCredentials(a)
Tests(a) == TestPasses(a) \/ TestFails(a)
Locks(a) == Acquire(a) \/ AcquireFails(a) \/ FindsStale(a) \/ UnlinkStale(a)
Commits(a) ==
    \/ Recover(a) \/ Compare(a)
    \/ WriteJournal(a) \/ WriteConfig(a) \/ WriteSecrets(a) \/ WriteLkg(a) \/ Unlink(a) \/ WriteFails(a)

Next == \E a \in Actors :
    \/ Start(a) \/ Crash(a) \/ GiveUp(a) \/ ListenersSettle(a)
    \/ \E kind \in Kinds : Begin(a, kind)
    \/ Reads(a) \/ Tests(a) \/ Locks(a) \/ Commits(a)

\* A lock file that was left behind by a process that lives, or not written.
LeftBehind == lock = "empty" \/ \E b \in Actors : lock = b /\ actor[b].pc \notin Locked \union {"down"}

\* A process that lives goes on, and its test has a timeout of ten seconds.
\* Nothing is assumed of the listeners, and nobody is assumed to lose patience
\* with a lock at work or with one of a process that is gone.
Fairness == \A a \in Actors : WF_vars(Reads(a) \/ Tests(a) \/ Locks(a) \/ Commits(a) \/ (LeftBehind /\ GiveUp(a)))

Spec == Init /\ [][Next]_vars /\ Fairness

-----------------------------------------------------------------------------
(* Properties *)

\* The types; and a process that lives has left the lock behind only where the
\* file system failed it.
TypeOK ==
    /\ config \in Configs /\ secrets \in Secrets
    /\ journal \in Policies \union {None} /\ lkg \in Policies \union {None}
    /\ lock \in Actors \union {None, "dead", "empty"}
    /\ actor \in [Actors -> Operations]
    /\ \A a \in Actors : lock = a => actor[a].pc \in Locked \union {"down"} \/ faults > 0
    /\ begun \in 0..MaxMutations /\ crashes \in 0..MaxCrashes /\ faults \in 0..MaxFaults
    /\ acked \subseteq Mutations /\ peeked \in BOOLEAN /\ shared \in BOOLEAN

\* The policy a new store would find.
Policy == IF journal # None THEN journal ELSE [config |-> config, secrets |-> secrets]

\* What was reported as saved stays part of the policy through any crash and
\* any failed write; the two files disagree only beside a journal that mends
\* them; and the last known good policy is the one before or after.  The code
\* can lose all of it once two that contend for a lock left by a third have
\* both got it (shared).
FilesAgree == ~shared =>
    /\ acked \subseteq Policy.config.edits
    /\ Consistent(Policy.config, Policy.secrets)
    /\ journal = None => Consistent(config, secrets)
    /\ journal = None /\ lkg # None => lkg = Policy

\* The files implement one value that is changed by whole transactions, each on
\* top of the one before, and its credentials by the mutations that concern
\* them: no crash between two of the writes, no failed write and no interleaving
\* of processes combines or loses any of it, as long as the lock excludes.
Register == INSTANCE PolicyRegister WITH
    revision <- Policy.config.revision, edits <- Policy.config.edits,
    password <- Policy.secrets, loose <- peeked, broken <- shared
PolicyIsKept == []FilesAgree /\ Register!Spec

\* Every start and every mutation that was begun is committed or refused, even
\* if nobody runs out of patience: no lock of a process that is gone, no lock
\* file left behind and no write that failed keeps anybody in the middle.  The
\* queue of the daemon goes on to its next mutation if the listeners settle,
\* which one that waits for a prewarmed agent need not do.
MutationsEnd ==
    /\ \A a \in Actors : []<>(actor[a].pc \in {"down", "idle", "notifying"})
    /\ (\A a \in Actors : WF_vars(ListenersSettle(a))) => \A a \in Actors : []<>(actor[a].pc \in {"down", "idle"})
=============================================================================
