-------------------------- MODULE ProxyStoreProofs --------------------------
(***************************************************************************)
(* For any actors and any bounds, the two files of ProxyStore implement    *)
(* PolicyRegister as long as no two actors have been under the lock at     *)
(* once.  What makes it work is that the files may lag behind the journal  *)
(* but never differ from it otherwise, so that a commit that finds the     *)
(* revision it has read has read the whole policy before it.               *)
(***************************************************************************)
EXTENDS ProxyStore, TLAPS

USE ProxyStoreAssumption, NoneIsNothing

Journaled == {"config", "secrets", "lkg", "unlink"}
Resters == {Idle, Down, Notifying}

\* A mutation whose transaction is not in the journal yet, and one of these
\* that has kept the credentials.
Pending(r) == r.id # None /\ (r.pc \in Journaled => r.replay)
KnowsPass(r) == r.pc \in Locked \union Waiting \/ (r.pc = "testing" /\ r.id.kind # "route")

(***************************************************************************)
(* The inductive invariant.                                                *)
(***************************************************************************)
\* What the steps of an operation leave in its record.
Shape(r) ==
  /\ r.id = None => /\ r.pc \in {"down", "idle", "notifying", "lock", "stale", "recover"} \union Journaled
                    /\ r.pc \in Journaled => r.replay
  /\ r.id # None => r.base \in Configs /\ r.id.nr \in 1..begun
  /\ r.pc \in Writing => r.tx \in Policies

\* What the holder of the lock knows of the files.
Holds(r) ==
  /\ r.pc = "compare" => journal = None
  /\ r.pc = "journal" => /\ journal = None /\ r.id # None /\ ~r.replay
                         /\ r.base = config /\ r.tx = Transaction(r)
  /\ r.pc \in Journaled => /\ r.tx \in Policies /\ journal = r.tx
                           /\ ~r.replay => r.id \in r.tx.config.edits
  /\ r.pc \in {"secrets", "lkg", "unlink"} => config = r.tx.config
  /\ r.pc \in {"lkg", "unlink"} => secrets = r.tx.secrets
  /\ r.pc = "unlink" => lkg = r.tx

\* A pending mutation has read the policy there is, or an older one.
Builds(r) ==
  Pending(r) =>
    /\ r.base.revision <= Policy.config.revision
    /\ r.base.revision = Policy.config.revision => r.base = Policy.config
    /\ r.id \notin Policy.config.edits
    /\ ~peeked /\ KnowsPass(r) /\ r.base.revision = Policy.config.revision => r.pass = Policy.secrets

Mutex ==
  \A a, b \in Actors : actor[a].pc \in Locked /\ actor[b].pc \in Locked => a = b

Distinct ==
  \A a, b \in Actors : Pending(actor[a]) /\ Pending(actor[b]) /\ actor[a].id = actor[b].id => a = b

\* The public settings are those of the policy, or older.
Lag ==
  /\ \A m \in Policy.config.edits : m.nr \in 1..begun
  /\ config.revision <= Policy.config.revision
  /\ config.revision = Policy.config.revision => config = Policy.config

Shapes == \A a \in Actors : Shape(actor[a])
Holders == \A a \in Actors : Holds(actor[a])
Builders == \A a \in Actors : Builds(actor[a])

\* What lasts as long as the lock excludes.
Good == Mutex /\ Holders /\ Builders /\ Distinct /\ Lag /\ FilesAgree

IInv == TypeOK /\ Shapes /\ (~shared => Good)

-----------------------------------------------------------------------------
(* Types *)

LEMMA Types ==
  ASSUME TypeOK
  PROVE  /\ actor \in [Actors -> Operations]
         /\ Policy \in Policies /\ [config |-> config, secrets |-> secrets] \in Policies
         /\ begun \in Nat /\ faults \in Nat
BY DEF TypeOK, Policy, Policies

LEMMA Alone ==
  ASSUME Mutex, NEW a \in Actors, actor[a].pc \in Locked
  PROVE  \A b \in Actors \ {a} : actor[b].pc \notin Locked
BY DEF Mutex

\* Who is down or idle, or tells the listeners, owes nothing.
LEMMA AtRest ==
  ASSUME NEW r \in Resters
  PROVE  /\ r \in Operations /\ Shape(r) /\ Holds(r) /\ ~Pending(r)
         /\ r.id = None /\ r.pc \in {"down", "idle", "notifying"} /\ r.pc \notin Locked
<1>1. r.pc \in {"down", "idle", "notifying"} /\ r.id = None
  BY DEF Resters, Idle, Down, Notifying
<1>2. Idle \in Operations
  BY DEF Idle, Operations, Secrets, Resting
<1>3. r \in Operations
  BY <1>2 DEF Resters, Down, Notifying, Operations, Resting
<1> QED BY <1>1, <1>3 DEF Shape, Holds, Pending, Journaled, Locked, Writing

LEMMA TransactionIsTyped ==
  ASSUME NEW r \in Operations, r.base \in Configs, r.id \in Mutations
  PROVE  /\ Transaction(r) \in Policies
         /\ Consistent(Transaction(r).config, Transaction(r).secrets)
         /\ Transaction(r).config.revision = r.base.revision + 1
         /\ Transaction(r).config.edits = r.base.edits \union {r.id}
<1>1. Pass(r) \in Secrets
  BY DEF Pass, Operations, Secrets
<1>2. r.base.revision + 1 \in Nat /\ r.base.edits \union {r.id} \in SUBSET Mutations
  BY DEF Configs
<1>3. (Pass(r) # None) \in BOOLEAN
  OBVIOUS
<1> DEFINE c == [revision |-> r.base.revision + 1, edits |-> r.base.edits \union {r.id}, has |-> Pass(r) # None]
<1>4. c \in Configs
  BY <1>2, <1>3 DEF Configs
<1>5. Transaction(r) = [config |-> c, secrets |-> Pass(r)]
  BY DEF Transaction
<1>6. Transaction(r) \in Policies
  BY <1>1, <1>4, <1>5 DEF Policies
<1>7. c.has = (Pass(r) # None)
  OBVIOUS
<1> QED BY <1>5, <1>6, <1>7 DEF Consistent

LEMMA Started == Init => IInv
<1> SUFFICES ASSUME Init PROVE IInv
  OBVIOUS
<1>1. \A a \in Actors : actor[a] = Down /\ actor[a] \in Resters
  BY DEF Init, Resters
<1>2. Fresh \in Configs /\ Policy = [config |-> Fresh, secrets |-> None]
  BY DEF Init, Fresh, Configs, Policy
<1>3. \A a \in Actors : actor[a] \in Operations /\ Shape(actor[a]) /\ Holds(actor[a]) /\ ~Pending(actor[a]) /\ actor[a].pc \notin Locked
  BY <1>1, AtRest
<1>4. actor \in [Actors -> Operations]
  BY <1>3 DEF Init
<1>5. TypeOK
  <2>1. \A a \in Actors : lock # a
    BY DEF Init
  <2>2. config \in Configs /\ secrets \in Secrets /\ journal \in Policies \union {None} /\ lkg \in Policies \union {None}
    BY <1>2 DEF Init, Secrets
  <2>3. begun \in 0..MaxMutations /\ crashes \in 0..MaxCrashes /\ faults \in 0..MaxFaults
    BY DEF Init
  <2>4. lock \in Actors \union {None, "dead", "empty"} /\ acked \subseteq Mutations /\ peeked \in BOOLEAN /\ shared \in BOOLEAN
    BY DEF Init
  <2> QED BY <1>4, <2>1, <2>2, <2>3, <2>4 DEF TypeOK
<1>6. Lag /\ FilesAgree
  <2>1. Fresh.has = FALSE /\ Fresh.edits = {} /\ Fresh.revision = 0
    BY DEF Fresh
  <2>2. Consistent(Fresh, None)
    BY <2>1 DEF Consistent
  <2> QED BY <1>2, <2>1, <2>2 DEF Lag, FilesAgree, Init
<1> QED BY <1>3, <1>5, <1>6 DEF IInv, Good, Mutex, Shapes, Holders, Builders, Builds, Distinct

-----------------------------------------------------------------------------
(* One step of one actor *)

\* A step of a may end the operations of others, and nothing else of them.
Moves(a) ==
  /\ actor' \in [Actors -> Operations]
  /\ \A b \in Actors \ {a} : actor'[b] = actor[b] \/ actor'[b] \in Resters

\* Whose lock file is there.
LockKnown ==
  /\ lock \in Actors \union {None, "dead", "empty"}
  /\ \A b \in Actors : lock = b => actor[b].pc \in Locked \union {"down"} \/ faults > 0

\* What another actor has to keep when nothing is committed.
LEMMA OthersKeep ==
  ASSUME TypeOK, Shapes, Good, NEW a \in Actors, Moves(a), Policy' = Policy,
         UNCHANGED files \/ actor[a].pc \in Locked,
         peeked => peeked',
         NEW b \in Actors \ {a}
  PROVE  (Holds(actor[b]) /\ Builds(actor[b]))'
<1>1. CASE actor'[b] \in Resters
  <2>1. Holds(actor[b])' /\ ~Pending(actor'[b])
    BY <1>1 DEF Resters, Idle, Down, Notifying, Holds, Pending, Journaled
  <2> QED BY <2>1 DEF Builds, Pending
<1>2. CASE actor'[b] = actor[b]
  <2>1. Holds(actor[b])'
    <3>1. CASE UNCHANGED files
      BY <1>2, <3>1 DEF Good, Holders, Holds, files, Transaction, Pass
    <3>2. CASE actor[a].pc \in Locked
      <4>1. actor[b].pc \notin Locked
        BY <3>2, Alone DEF Good
      <4> QED BY <1>2, <4>1 DEF Holds, Locked, Writing, Journaled
    <3> QED BY <3>1, <3>2
  <2>2. Builds(actor[b])'
    BY <1>2 DEF Good, Builders, Builds, Pending, KnowsPass
  <2> QED BY <2>1, <2>2
<1> QED BY <1>1, <1>2 DEF Moves

\* A step of a that commits nothing: only a has something to show.
LEMMA OneStep ==
  ASSUME TypeOK, Shapes, Good, NEW a \in Actors, Moves(a), Policy' = Policy,
         UNCHANGED files \/ actor[a].pc \in Locked,
         peeked => peeked',
         actor'[a].pc \in Locked => actor[a].pc \in Locked \/ \A b \in Actors \ {a} : actor[b].pc \notin Locked,
         (Holds(actor[a]) /\ Builds(actor[a]))',
         Pending(actor'[a]) => \A b \in Actors \ {a} : Pending(actor[b]) => actor[b].id # actor'[a].id,
         Lag', FilesAgree'
  PROVE  Good'
<1>1. \A b \in Actors : (Holds(actor[b]) /\ Builds(actor[b]))'
  BY OthersKeep
<1>2. Distinct'
  <2> SUFFICES ASSUME NEW b \in Actors, NEW c \in Actors,
                      Pending(actor'[b]), Pending(actor'[c]), actor'[b].id = actor'[c].id
               PROVE  b = c
    BY DEF Distinct, Pending
  <2>1. \A d \in Actors \ {a} : Pending(actor'[d]) => actor'[d] = actor[d]
    BY AtRest DEF Moves
  <2> QED BY <2>1 DEF Good, Distinct
<1>3. Mutex'
  <2>1. \A d \in Actors \ {a} : actor'[d].pc \in Locked => actor[d].pc \in Locked
    BY AtRest DEF Moves
  <2>2. actor'[a].pc \in Locked => \A d \in Actors \ {a} : actor[d].pc \notin Locked
    BY Alone DEF Good
  <2> QED BY <2>1, <2>2 DEF Good, Mutex
<1> QED BY <1>1, <1>2, <1>3 DEF Good, Holders, Builders

\* The shapes of the others last.
LEMMA ShapesLast ==
  ASSUME TypeOK, Shapes, NEW a \in Actors, Moves(a), Shape(actor[a])',
         begun' \in Nat, begun' >= begun
  PROVE  Shapes'
<1> SUFFICES ASSUME NEW b \in Actors \ {a} PROVE Shape(actor[b])'
  BY DEF Shapes
<1>1. CASE actor'[b] \in Resters
  BY <1>1 DEF Resters, Idle, Down, Notifying, Shape, Journaled, Writing
<1>2. CASE actor'[b] = actor[b]
  <2>1. actor[b].id = None \/ actor[b].id.nr \in Nat
    BY Types DEF Operations, Mutations
  <2> QED BY <1>2, <2>1, Types DEF Shapes, Shape
<1> QED BY <1>1, <1>2 DEF Moves

\* A step that touches no file.
LEMMA QuietStep ==
  ASSUME IInv, NEW a \in Actors, Moves(a), LockKnown',
         UNCHANGED <<files, acked>>, peeked' \in BOOLEAN, peeked => peeked',
         shared' \in BOOLEAN, shared => shared',
         begun' \in begun..MaxMutations, crashes' \in 0..MaxCrashes, faults' \in 0..MaxFaults,
         Shape(actor[a])',
         ~shared' => /\ actor'[a].pc \in Locked => actor[a].pc \in Locked \/ \A b \in Actors \ {a} : actor[b].pc \notin Locked
                     /\ Holds(actor[a])' /\ Builds(actor[a])'
                     /\ Pending(actor'[a]) => \A b \in Actors \ {a} : Pending(actor[b]) => actor[b].id # actor'[a].id
  PROVE  IInv' /\ Policy' = Policy
<1>1. TypeOK'
  BY DEF IInv, TypeOK, Moves, LockKnown, files
<1>2. Policy' = Policy
  BY DEF Policy, files
<1>3. begun \in Nat /\ begun' \in Nat /\ begun' >= begun
  BY DEF IInv, TypeOK
<1>4. Shapes'
  BY <1>3, ShapesLast DEF IInv
<1>5. ASSUME ~shared' PROVE Good'
  <2>1. Good /\ TypeOK /\ Shapes
    BY <1>5 DEF IInv
  <2>2. FilesAgree'
    BY <1>2, <1>5, <2>1 DEF Good, FilesAgree, files
  <2>3. Lag'
    BY <1>2, <1>3, <2>1, Types DEF Good, Lag, files, Policies, Configs, Mutations
  <2> QED BY <1>2, <1>5, <2>1, <2>2, <2>3, OneStep
<1> QED BY <1>1, <1>2, <1>4, <1>5 DEF IInv

\* How the steps change an operation and the lock: an actor goes on with its
\* own and leaves the lock as it is, or its operation ends.
LEMMA Advances ==
  ASSUME TypeOK, NEW a \in Actors, NEW r \in Operations, actor' = [actor EXCEPT ![a] = r],
         lock' = lock, faults' = faults, r.pc \in Locked \/ actor[a].pc \notin Locked \union {"down"}
  PROVE  Moves(a) /\ LockKnown' /\ actor'[a] = r
BY Types DEF TypeOK, Moves, LockKnown

LEMMA Refuses ==
  ASSUME TypeOK, NEW a \in Actors, Refuse(a)
  PROVE  Moves(a) /\ actor'[a] \in Resters /\ actor' = [actor EXCEPT ![a] = actor'[a]]
<1> DEFINE r == IF Opens(actor[a]) THEN Down ELSE Idle
<1>1. r \in Resters /\ actor' = [actor EXCEPT ![a] = r]
  BY DEF Refuse, Resters
<1>2. r \in Operations
  BY <1>1, AtRest
<1> QED BY <1>1, <1>2, Types DEF Moves

LEMMA Releases ==
  ASSUME TypeOK, NEW n \in faults..MaxFaults, Release(n)
  PROVE  LockKnown' /\ faults' \in 0..MaxFaults
<1>1. faults \in Nat /\ n \in Nat
  BY DEF TypeOK
<1> QED BY <1>1 DEF TypeOK, Release, LockKnown

LEMMA Finishes ==
  ASSUME TypeOK, NEW a \in Actors, Done(a)
  PROVE  Moves(a) /\ LockKnown' /\ faults' \in 0..MaxFaults /\ actor'[a] \in Resters
<1>1. faults \in faults..MaxFaults
  BY DEF TypeOK
<1>2. LockKnown' /\ faults' \in 0..MaxFaults
  BY <1>1, Releases DEF Done
<1>3. PICK r \in Afterwards(a) : actor' = [b \in Actors |->
           IF b = a THEN r ELSE IF b \in Mates(a) /\ actor[b].pc = "down" THEN Idle ELSE actor[b]]
  BY DEF Done
<1>4. r \in Resters
  <2>1. Afterwards(a) \subseteq Resters
    BY DEF Afterwards, Resters
  <2> QED BY <2>1
<1>5. r \in Operations /\ Idle \in Operations /\ Idle \in Resters
  BY <1>4, AtRest DEF Resters
<1> QED BY <1>2, <1>3, <1>4, <1>5, Types DEF Moves

\* What a mutation that goes on keeps, if it learns nothing of the credentials.
LEMMA GoesOn ==
  ASSUME Good, NEW a \in Actors, Policy' = Policy, peeked => peeked',
         Pending(actor'[a]) => /\ Pending(actor[a])
                               /\ KnowsPass(actor'[a]) => KnowsPass(actor[a])
                               /\ actor'[a].id = actor[a].id /\ actor'[a].base = actor[a].base
                               /\ actor'[a].pass = actor[a].pass
  PROVE  /\ Builds(actor[a])'
         /\ Pending(actor'[a]) => \A b \in Actors \ {a} : Pending(actor[b]) => actor[b].id # actor'[a].id
<1>1. Builds(actor[a])'
  BY DEF Good, Builders, Builds, Pending, KnowsPass
<1> QED BY <1>1 DEF Good, Distinct

-----------------------------------------------------------------------------
(* Processes, reads and tests *)

\* A step that ends the operation of its actor and touches no file.
LEMMA Ends ==
  ASSUME IInv, NEW a \in Actors, Moves(a), LockKnown',
         actor'[a] \in Resters,
         UNCHANGED <<files, acked, begun, shared>>, peeked' \in BOOLEAN, peeked => peeked',
         crashes' \in 0..MaxCrashes, faults' \in 0..MaxFaults
  PROVE  IInv' /\ Policy' = Policy
<1>1. Shape(actor[a])' /\ Holds(actor[a])' /\ ~Pending(actor'[a])
  BY DEF Resters, Idle, Down, Notifying, Shape, Holds, Pending, Journaled, Writing
<1>2. Builds(actor[a])'
  BY <1>1 DEF Builds, Pending
<1>3. begun' \in begun..MaxMutations /\ shared' \in BOOLEAN
  BY DEF IInv, TypeOK
<1>4. actor'[a].pc \notin Locked
  BY AtRest
<1> QED BY <1>1, <1>2, <1>3, <1>4, QuietStep

LEMMA StartStep == ASSUME IInv, NEW a \in Actors, Start(a) PROVE IInv' /\ Policy' = Policy
<1> DEFINE r == [Idle EXCEPT !.pc = "lock"]
<1>1. r \in Operations /\ r.id = None /\ r.pc = "lock"
  <2>1. Idle \in Operations
    BY AtRest DEF Resters
  <2> QED BY <2>1 DEF Idle, Operations, Waiting
<1>2. actor' = [actor EXCEPT ![a] = r]
  BY DEF Start
<1> HIDE DEF r
<1>3. Moves(a) /\ actor'[a] = r
  BY <1>1, <1>2, Types DEF IInv, Moves
<1>4. LockKnown'
  <2>1. LockKnown /\ a \in Mates(a)
    BY DEF IInv, TypeOK, LockKnown, Mates
  <2>2. UNCHANGED faults /\ lock' = IF lock \in Mates(a) THEN "dead" ELSE lock
    BY DEF Start, bounds
  <2> QED BY <1>2, <2>1, <2>2 DEF LockKnown
<1>5. Shape(actor[a])' /\ Holds(actor[a])' /\ Builds(actor[a])' /\ ~Pending(actor'[a]) /\ actor'[a].pc \notin Locked
  BY <1>1, <1>3 DEF Shape, Holds, Builds, Pending, Journaled, Locked, Writing
<1> QED BY <1>3, <1>4, <1>5, QuietStep DEF Start, bounds, history, IInv, TypeOK

LEMMA CrashStep == ASSUME IInv, NEW a \in Actors, Crash(a) PROVE IInv' /\ Policy' = Policy
<1>1. \A b \in Actors : actor'[b] \in Operations /\ (actor'[b] = actor[b] \/ actor'[b] = Down)
  BY AtRest, Types DEF Crash, IInv, Resters
<1>2. actor'[a] = Down /\ actor' \in [Actors -> Operations]
  BY <1>1 DEF Crash, Mates
<1>3. LockKnown'
  <2>1. LockKnown /\ Down.pc = "down"
    BY DEF IInv, TypeOK, LockKnown, Idle, Down
  <2>2. lock' \in {lock, "empty"} /\ faults' = faults
    BY DEF Crash
  <2> QED BY <1>1, <2>1, <2>2 DEF LockKnown
<1>4. Moves(a) /\ Down \in Resters
  BY <1>1, <1>2 DEF Moves, Resters
<1> QED BY <1>2, <1>3, <1>4, Ends DEF Crash, history, IInv, TypeOK

LEMMA ListenersStep == ASSUME IInv, NEW a \in Actors, ListenersSettle(a) PROVE IInv' /\ Policy' = Policy
<1>1. Idle \in Resters /\ Idle \in Operations /\ actor[a].pc = "notifying"
  BY AtRest DEF Resters, ListenersSettle
<1>2. actor[a].pc \notin Locked \union {"down"}
  BY <1>1 DEF Locked, Writing
<1>3. Moves(a) /\ LockKnown' /\ actor'[a] = Idle
  BY <1>1, <1>2, Advances DEF ListenersSettle, IInv, bounds
<1> QED BY <1>1, <1>3, Ends DEF ListenersSettle, bounds, history, IInv, TypeOK

LEMMA BeginStep == ASSUME IInv, NEW a \in Actors, NEW kind \in Kinds, Begin(a, kind) PROVE IInv' /\ Policy' = Policy
<1> DEFINE m == [nr |-> begun', kind |-> kind]
           r == [Idle EXCEPT !.pc = "consistency", !.base = config, !.id = m]
<1>1. begun' = begun + 1 /\ begun \in Nat /\ begun' \in 1..MaxMutations /\ begun' \in begun..MaxMutations /\ begun' \in 0..MaxMutations
  BY DEF Begin, IInv, TypeOK
<1>2. m \in Mutations /\ m # None /\ m.nr = begun + 1
  BY <1>1 DEF Mutations
<1>3. r.pc = "consistency" /\ r.id = m /\ r.base = config /\ r.pc \notin Locked /\ r.pc \notin Journaled /\ r.pc \notin Writing
  BY DEF Idle, Locked, Writing, Journaled
<1>4. r \in Operations
  <2>1. Idle \in Operations /\ config \in Configs
    BY AtRest DEF Resters, IInv, TypeOK
  <2> QED BY <1>2, <2>1 DEF Operations, Reading
<1>5. actor' = [actor EXCEPT ![a] = r] /\ lock' = lock /\ faults' = faults /\ actor[a].pc = "idle" /\ UNCHANGED files
  BY DEF Begin
<1> HIDE DEF r, m
<1>6. Moves(a) /\ LockKnown' /\ actor'[a] = r
  <2>1. actor[a].pc \notin Locked \union {"down"}
    BY <1>5 DEF Locked, Writing
  <2> QED BY <1>4, <1>5, <2>1, Advances DEF IInv
<1>7. Shape(actor[a])' /\ Holds(actor[a])'
  <2>1. m.nr \in 1..begun' /\ config \in Configs
    BY <1>1, <1>2 DEF IInv, TypeOK
  <2>2. Shape(actor[a])'
    BY <1>2, <1>3, <1>6, <2>1 DEF Shape
  <2>3. Holds(actor[a])'
    BY <1>3, <1>6 DEF Holds, Locked, Writing
  <2> QED BY <2>2, <2>3
<1>8. Policy' = Policy
  BY <1>5 DEF Policy, files
<1>9. ASSUME ~shared' PROVE Builds(actor[a])' /\ \A b \in Actors \ {a} : Pending(actor[b]) => actor[b].id # actor'[a].id
  <2>1. Good
    BY <1>9 DEF Begin, IInv
  <2>2. m \notin Policy.config.edits
    BY <1>1, <1>2, <2>1 DEF Good, Lag
  <2>3. ~KnowsPass(r)
    BY <1>3 DEF KnowsPass, Locked, Writing, Waiting
  <2>4. Builds(actor[a])'
    BY <1>3, <1>6, <1>8, <2>1, <2>2, <2>3 DEF Builds, Good, Lag, KnowsPass
  <2>5. \A b \in Actors \ {a} : Pending(actor[b]) => actor[b].id.nr \in 1..begun
    BY DEF IInv, Shapes, Shape, Pending
  <2> QED BY <1>1, <1>2, <1>3, <1>6, <2>4, <2>5
<1>10. peeked' \in BOOLEAN /\ (peeked => peeked')
  BY DEF Begin, Peeks
<1>11. crashes' \in 0..MaxCrashes /\ faults' \in 0..MaxFaults /\ UNCHANGED <<acked, shared>> /\ shared' \in BOOLEAN
  BY DEF Begin, IInv, TypeOK
<1>12. actor'[a].pc \notin Locked
  BY <1>3, <1>6
<1> QED BY <1>1, <1>5, <1>6, <1>7, <1>9, <1>10, <1>11, <1>12, QuietStep

\* An actor outside the lock that goes on: what it must still have read.
LEMMA ReadsOn ==
  ASSUME IInv, NEW a \in Actors, NEW pc \in {"testing"} \union Waiting \union Reading, NEW r \in Operations,
         actor' = [actor EXCEPT ![a] = r], r.pc = pc,
         actor[a].pc \in {"testing"} \union Waiting \union Reading,
         r.id = actor[a].id, r.base = actor[a].base, Shape(r),
         UNCHANGED <<files, bounds, acked, shared>>, peeked' \in BOOLEAN, peeked => peeked',
         lock' \in {lock, None},
         r.id # None /\ ~peeked' /\ KnowsPass(r) => r.pass = Policy.secrets \/ (KnowsPass(actor[a]) /\ r.pass = actor[a].pass)
  PROVE  IInv' /\ Policy' = Policy
<1>1. /\ r.pc \notin Locked /\ r.pc \notin Journaled
      /\ actor[a].pc \notin Locked \union {"down"} /\ actor[a].pc \notin Journaled
  BY DEF Locked, Writing, Journaled, Reading, Waiting
<1>2. Moves(a) /\ LockKnown' /\ actor'[a] = r
  <2>1. Moves(a) /\ actor'[a] = r
    BY Types DEF IInv, Moves
  <2>2. LockKnown /\ UNCHANGED faults
    BY DEF IInv, TypeOK, LockKnown, bounds
  <2> QED BY <1>1, <2>1, <2>2 DEF LockKnown
<1>3. Policy' = Policy
  BY DEF Policy, files
<1>4. Pending(actor[a]) <=> Pending(r)
  BY <1>1 DEF Pending
<1>5. Shape(actor[a])' /\ Holds(actor[a])'
  <2>1. Shape(actor[a])'
    BY <1>2 DEF Shape, bounds
  <2> QED BY <1>1, <1>2, <2>1 DEF Holds, Locked, Writing, Journaled
<1>6. ASSUME ~shared' PROVE Builds(actor[a])' /\ (Pending(actor'[a]) => \A b \in Actors \ {a} : Pending(actor[b]) => actor[b].id # actor'[a].id)
  <2>1. Good
    BY <1>6 DEF IInv
  <2>2. Pending(r) => r.id # None
    BY DEF Pending
  <2> QED BY <1>2, <1>3, <1>4, <2>1, <2>2 DEF Builds, KnowsPass, Good, Builders, Distinct
<1>7. begun' \in begun..MaxMutations /\ crashes' \in 0..MaxCrashes /\ faults' \in 0..MaxFaults /\ shared' \in BOOLEAN
  BY DEF IInv, TypeOK, bounds
<1> QED BY <1>1, <1>2, <1>5, <1>6, <1>7, QuietStep

\* An actor outside the lock whose mutation is refused.
LEMMA RefusedOutside ==
  ASSUME IInv, NEW a \in Actors, Refuse(a), actor[a].pc \in {"testing", "lock"} \union Reading,
         UNCHANGED <<files, lock, bounds, acked, shared>>, peeked' \in BOOLEAN, peeked => peeked'
  PROVE  IInv' /\ Policy' = Policy
<1>1. actor[a].pc \notin Locked \union {"down"}
  BY DEF Locked, Writing, Reading
<1>2. Moves(a) /\ actor'[a] \in Resters /\ actor' = [actor EXCEPT ![a] = actor'[a]]
  BY Refuses DEF IInv
<1>3. LockKnown'
  <2>1. actor'[a] \in Operations
    BY <1>2, AtRest
  <2> QED BY <1>1, <1>2, <2>1, Advances DEF IInv, bounds
<1>4. UNCHANGED begun /\ crashes' \in 0..MaxCrashes /\ faults' \in 0..MaxFaults
  BY DEF IInv, TypeOK, bounds
<1> QED BY <1>2, <1>3, <1>4, Ends

LEMMA CheckConsistencyStep == ASSUME IInv, NEW a \in Actors, CheckConsistency(a) PROVE IInv' /\ Policy' = Policy
<1>1. peeked' \in BOOLEAN /\ (peeked => peeked')
  BY DEF CheckConsistency, Peeks, IInv, TypeOK
<1>2. CASE Consistent(actor[a].base, secrets)
  <2> DEFINE pc == IF a \in Tested /\ actor[a].id.kind = "route" THEN "testing" ELSE "again"
             r == [actor[a] EXCEPT !.pc = pc]
  <2>1. actor' = [actor EXCEPT ![a] = r] /\ pc \in {"testing", "again"}
    BY <1>2 DEF CheckConsistency, To
  <2>2. actor[a].pc = "consistency" /\ actor[a].id # None /\ pc \in {"testing"} \union Waiting \union Reading
    BY DEF CheckConsistency, IInv, Shapes, Shape, Journaled, Reading
  <2>3. actor[a] \in Operations
    BY Types DEF IInv
  <2>4. /\ r \in Operations /\ r.pc = pc /\ r.id = actor[a].id /\ r.base = actor[a].base
    BY <2>2, <2>3 DEF Operations, Resting
  <2>5. r.pc \in {"testing", "again"}
    BY <2>1, <2>4
  <2>6. Shape(r) /\ (KnowsPass(r) => r.pc = "testing" /\ r.id.kind # "route")
    BY <2>2, <2>4, <2>5 DEF KnowsPass, Locked, Writing, Waiting, Shape, IInv, Shapes
  <2>7. ~KnowsPass(r)
    BY <2>4, <2>6
  <2> HIDE DEF pc, r
  <2> QED BY <1>1, <2>1, <2>2, <2>4, <2>6, <2>7, ReadsOn DEF CheckConsistency, Reading
<1>3. CASE ~Consistent(actor[a].base, secrets)
  BY <1>1, <1>3, RefusedOutside DEF CheckConsistency, Reading
<1> QED BY <1>2, <1>3

LEMMA ReadAgainStep == ASSUME IInv, NEW a \in Actors, ReadAgain(a) PROVE IInv' /\ Policy' = Policy
<1> DEFINE r == [actor[a] EXCEPT !.pc = "credentials", !.has = config.has]
<1>1. peeked' \in BOOLEAN /\ (peeked => peeked')
  BY DEF ReadAgain, Peeks, IInv, TypeOK
<1>2. actor[a].pc = "again" /\ actor[a].id # None /\ actor[a] \in Operations
  BY Types DEF ReadAgain, IInv, Shapes, Shape, Journaled
<1>3. /\ r \in Operations /\ r.pc = "credentials" /\ r.id = actor[a].id /\ r.base = actor[a].base
  <2>1. config.has \in BOOLEAN
    BY DEF IInv, TypeOK, Configs
  <2> QED BY <1>2, <2>1 DEF Operations, Reading
<1>4. ~KnowsPass(r) /\ Shape(r)
  BY <1>2, <1>3 DEF KnowsPass, Locked, Writing, Waiting, Shape, IInv, Shapes
<1>5. actor' = [actor EXCEPT ![a] = r]
  BY DEF ReadAgain
<1> HIDE DEF r
<1> QED BY <1>1, <1>2, <1>3, <1>4, <1>5, ReadsOn DEF ReadAgain, Reading

\* Whoever keeps the credentials has kept those of the policy, or has peeked.
LEMMA ReadCredentialsStep == ASSUME IInv, NEW a \in Actors, ReadCredentials(a) PROVE IInv' /\ Policy' = Policy
<1>1. peeked' \in BOOLEAN /\ (peeked => peeked')
  BY DEF ReadCredentials, Peeks, IInv, TypeOK
<1>2. CASE actor[a].has = (secrets # None)
  <2> DEFINE pc == IF a \in Tested /\ actor[a].id.kind # "route" THEN "testing" ELSE "lock"
             r == [actor[a] EXCEPT !.pass = secrets, !.pc = pc]
  <2>1. actor' = [actor EXCEPT ![a] = r] /\ pc \in {"testing", "lock"}
    BY <1>2 DEF ReadCredentials
  <2>2. actor[a].pc = "credentials" /\ actor[a].id # None /\ actor[a] \in Operations
    BY Types DEF ReadCredentials, IInv, Shapes, Shape, Journaled
  <2>3. /\ r \in Operations /\ r.pc = pc /\ r.id = actor[a].id /\ r.base = actor[a].base /\ r.pass = secrets
    BY <2>1, <2>2 DEF Operations, IInv, TypeOK, Resting, Waiting
  <2>4. ~peeked' => Policy.secrets = secrets
    BY DEF ReadCredentials, Peeks, Policy
  <2>5. Shape(r)
    BY <2>1, <2>2, <2>3 DEF Shape, IInv, Shapes, Writing
  <2> HIDE DEF pc, r
  <2> QED BY <1>1, <2>1, <2>2, <2>3, <2>4, <2>5, ReadsOn DEF ReadCredentials, Reading, Waiting
<1>3. CASE actor[a].has # (secrets # None)
  BY <1>1, <1>3, RefusedOutside DEF ReadCredentials, Reading
<1> QED BY <1>2, <1>3

LEMMA TestsStep == ASSUME IInv, NEW a \in Actors, Tests(a) PROVE IInv' /\ Policy' = Policy
<1>1. peeked' \in BOOLEAN /\ (peeked => peeked')
  BY DEF Tests, TestPasses, TestFails, history, IInv, TypeOK
<1>2. CASE TestPasses(a)
  <2> DEFINE pc == IF actor[a].id.kind = "route" THEN "again" ELSE "lock"
             r == [actor[a] EXCEPT !.pc = pc]
  <2>1. actor' = [actor EXCEPT ![a] = r] /\ pc \in {"testing"} \union Waiting \union Reading /\ pc \in {"again", "lock"}
    BY <1>2 DEF TestPasses, To, Reading, Waiting
  <2>2. actor[a].pc = "testing" /\ actor[a].id # None /\ actor[a] \in Operations
    BY <1>2, Types DEF TestPasses, IInv, Shapes, Shape, Journaled
  <2>3. /\ r \in Operations /\ r.pc = pc /\ r.id = actor[a].id
        /\ r.base = actor[a].base /\ r.pass = actor[a].pass
    BY <2>1, <2>2 DEF Operations
  <2>4. (KnowsPass(r) => KnowsPass(actor[a])) /\ Shape(r)
    BY <2>1, <2>2, <2>3 DEF KnowsPass, Locked, Writing, Waiting, Shape, IInv, Shapes
  <2> HIDE DEF pc, r
  <2> QED BY <1>1, <1>2, <2>1, <2>2, <2>3, <2>4, ReadsOn DEF TestPasses, history
<1>3. CASE TestFails(a)
  BY <1>1, <1>3, RefusedOutside DEF TestFails, history
<1> QED BY <1>2, <1>3 DEF Tests

-----------------------------------------------------------------------------
(* The lock *)

LEMMA GiveUpStep == ASSUME IInv, NEW a \in Actors, GiveUp(a) PROVE IInv' /\ Policy' = Policy
BY RefusedOutside DEF GiveUp, history, IInv, TypeOK

LEMMA AcquireFailsStep == ASSUME IInv, NEW a \in Actors, AcquireFails(a) PROVE IInv' /\ Policy' = Policy
<1>1. Moves(a) /\ actor'[a] \in Resters
  BY Refuses DEF AcquireFails, IInv
<1>2. LockKnown' /\ faults' \in 0..MaxFaults
  <2>1. faults \in Nat /\ faults' = faults + 1 /\ faults' \in 0..MaxFaults /\ lock' \in {a, "empty"}
    BY DEF AcquireFails, IInv, TypeOK
  <2> QED BY <2>1 DEF LockKnown
<1> QED BY <1>1, <1>2, Ends DEF AcquireFails, history, IInv, TypeOK

\* Who finds a stale lock, and removes what is there by then.
LEMMA StaleStep == ASSUME IInv, NEW a \in Actors, FindsStale(a) \/ UnlinkStale(a) PROVE IInv' /\ Policy' = Policy
<1> PICK pc \in Waiting : To(a, pc) /\ actor[a].pc \in Waiting /\ lock' \in {lock, None}
  BY DEF FindsStale, UnlinkStale, Waiting
<1> DEFINE r == [actor[a] EXCEPT !.pc = pc]
<1>1. actor' = [actor EXCEPT ![a] = r] /\ actor[a] \in Operations
  BY Types DEF To, IInv
<1>2. /\ r \in Operations /\ r.pc = pc /\ r.id = actor[a].id /\ r.base = actor[a].base /\ r.pass = actor[a].pass
  BY <1>1 DEF Operations
<1>3. KnowsPass(actor[a]) /\ Shape(r)
  BY <1>2 DEF KnowsPass, Shape, IInv, Shapes, Waiting, Writing, Journaled
<1> HIDE DEF r
<1>4. UNCHANGED <<files, bounds, history>>
  BY DEF FindsStale, UnlinkStale
<1> QED BY <1>1, <1>2, <1>3, <1>4, ReadsOn DEF history, IInv, TypeOK

LEMMA AcquireStep == ASSUME IInv, NEW a \in Actors, Acquire(a) PROVE IInv' /\ Policy' = Policy
<1> DEFINE r == [actor[a] EXCEPT !.pc = "recover"]
<1>1. actor[a] \in Operations /\ actor[a].pc = "lock" /\ actor' = [actor EXCEPT ![a] = r]
  BY Types DEF Acquire, To, IInv
<1>2. /\ r \in Operations /\ r.pc = "recover" /\ r.id = actor[a].id
      /\ r.base = actor[a].base /\ r.pass = actor[a].pass
  BY <1>1 DEF Operations, Locked
<1> HIDE DEF r
<1>3. Moves(a) /\ actor'[a] = r /\ r.pc \in Locked
  BY <1>1, <1>2, Types DEF IInv, Moves, Locked
<1>4. LockKnown'
  BY <1>3 DEF Acquire, LockKnown
<1>5. Policy' = Policy /\ (Pending(r) => Pending(actor[a])) /\ KnowsPass(actor[a])
  BY <1>1, <1>2 DEF Acquire, Policy, files, Pending, KnowsPass, Waiting, Journaled
<1>6. Shape(actor[a])' /\ Holds(actor[a])'
  <2>1. Shape(actor[a])'
    BY <1>1, <1>2, <1>3 DEF Shape, IInv, Shapes, Acquire, bounds, Journaled, Writing
  <2> QED BY <1>2, <1>3, <2>1 DEF Holds, Journaled
<1>7. begun' \in begun..MaxMutations /\ crashes' \in 0..MaxCrashes /\ faults' \in 0..MaxFaults /\ peeked' \in BOOLEAN
  BY DEF Acquire, bounds, IInv, TypeOK
<1>8. shared' \in BOOLEAN /\ (shared => shared')
  BY DEF Acquire, IInv, TypeOK
<1>9. ASSUME ~shared'
      PROVE  /\ \A b \in Actors : actor[b].pc \notin Locked
             /\ Builds(actor[a])'
             /\ Pending(actor'[a]) => \A b \in Actors \ {a} : Pending(actor[b]) => actor[b].id # actor'[a].id
  <2>1. Good /\ peeked' = peeked
    BY <1>8, <1>9 DEF IInv, Acquire
  <2>2. \A b \in Actors : actor[b].pc \notin Locked
    BY <1>9 DEF Acquire
  <2> QED BY <1>2, <1>3, <1>5, <2>1, <2>2, GoesOn
<1> QED BY <1>3, <1>4, <1>6, <1>7, <1>8, <1>9, QuietStep DEF Acquire, bounds

-----------------------------------------------------------------------------
(* Under the lock *)

\* A commit or a constructor that has come through the recovery: what its
\* record is like, whether or not the lock still excludes.
LEMMA RecoveredShape ==
  ASSUME IInv, NEW a \in Actors, actor[a].pc \in {"recover", "unlink"}, Recovered(a), begun' = begun
  PROVE  /\ Moves(a) /\ LockKnown' /\ faults' \in 0..MaxFaults
         /\ Shape(actor[a])'
         /\ journal' = None => Holds(actor[a])'
         /\ Pending(actor'[a]) => /\ actor[a].pc = "unlink" => ~actor[a].replay \/ Pending(actor[a])
                                  /\ actor[a].id # None /\ KnowsPass(actor[a])
                                  /\ actor'[a].id = actor[a].id /\ actor'[a].base = actor[a].base
                                  /\ actor'[a].pass = actor[a].pass
<1>1. actor[a].pc \in Locked /\ actor[a] \in Operations
  BY Types DEF IInv, Locked, Writing
<1>2. CASE actor[a].id = None
  <2>1. Moves(a) /\ LockKnown' /\ faults' \in 0..MaxFaults /\ actor'[a] \in Resters
    BY <1>2, Finishes DEF Recovered, Opens, IInv
  <2>2. Shape(actor[a])' /\ Holds(actor[a])' /\ ~Pending(actor'[a])
    BY <2>1 DEF Resters, Idle, Down, Notifying, Shape, Holds, Pending, Journaled, Writing
  <2> QED BY <2>1, <2>2
<1>3. CASE actor[a].id # None
  <2> DEFINE r == [actor[a] EXCEPT !.pc = "compare"]
  <2>1. actor' = [actor EXCEPT ![a] = r] /\ lock' = lock /\ faults' = faults
    BY <1>3 DEF Recovered, To, Opens
  <2>2. /\ r \in Operations /\ r.pc = "compare" /\ r.id = actor[a].id
        /\ r.base = actor[a].base /\ r.pass = actor[a].pass
    BY <1>1 DEF Operations, Locked
  <2> HIDE DEF r
  <2>3. r.pc \in Locked
    BY <2>2 DEF Locked
  <2>4. Moves(a) /\ LockKnown' /\ actor'[a] = r
    BY <1>1, <2>1, <2>2, <2>3, Advances DEF IInv
  <2>5. KnowsPass(actor[a]) /\ (actor[a].pc = "unlink" => ~actor[a].replay \/ Pending(actor[a]))
    BY <1>1, <1>3 DEF Pending, KnowsPass, Journaled
  <2>6. Shape(actor[a])'
    BY <1>3, <2>2, <2>4 DEF Shape, IInv, Shapes, Writing
  <2>7. journal' = None => Holds(actor[a])'
    BY <2>2, <2>4 DEF Holds, Journaled
  <2>8. faults' \in 0..MaxFaults
    BY <2>1 DEF IInv, TypeOK
  <2> QED BY <1>3, <2>2, <2>4, <2>5, <2>6, <2>7, <2>8
<1> QED BY <1>2, <1>3

LEMMA RecoverStep == ASSUME IInv, NEW a \in Actors, Recover(a) PROVE IInv' /\ Policy' = Policy
<1>1. /\ actor[a].pc = "recover" /\ actor[a].pc \in Locked /\ actor[a] \in Operations
      /\ UNCHANGED <<files, acked, peeked, shared, begun, crashes>> /\ Policy' = Policy
  BY Types DEF Recover, Locked, IInv, history, Policy, files
<1>2. begun' \in begun..MaxMutations /\ crashes' \in 0..MaxCrashes /\ peeked' \in BOOLEAN /\ shared' \in BOOLEAN
  BY <1>1 DEF IInv, TypeOK
<1>3. CASE journal = None
  <2>1. Recovered(a) /\ journal' = None
    BY <1>3 DEF Recover, files
  <2>2. /\ Moves(a) /\ LockKnown' /\ faults' \in 0..MaxFaults /\ Shape(actor[a])' /\ Holds(actor[a])'
        /\ Pending(actor'[a]) => /\ actor[a].id # None /\ KnowsPass(actor[a])
                                 /\ actor'[a].id = actor[a].id /\ actor'[a].base = actor[a].base
                                 /\ actor'[a].pass = actor[a].pass
    BY <1>1, <2>1, RecoveredShape
  <2>3. actor[a].id # None => Pending(actor[a])
    BY <1>1 DEF Pending, Journaled
  <2>4. ASSUME ~shared'
        PROVE  Builds(actor[a])' /\ (Pending(actor'[a]) => \A b \in Actors \ {a} : Pending(actor[b]) => actor[b].id # actor'[a].id)
    <3>1. Good
      BY <1>1, <2>4 DEF IInv
    <3> QED BY <1>1, <2>2, <2>3, <3>1, GoesOn
  <2> QED BY <1>1, <1>2, <2>2, <2>4, QuietStep
<1>4. CASE journal # None
  <2> DEFINE r == [actor[a] EXCEPT !.pc = "config", !.tx = journal, !.replay = TRUE]
  <2>1. actor' = [actor EXCEPT ![a] = r] /\ lock' = lock /\ faults' = faults
    BY <1>4 DEF Recover
  <2>2. journal \in Policies
    BY <1>4 DEF IInv, TypeOK
  <2>3. /\ r \in Operations /\ r.pc = "config" /\ r.id = actor[a].id
        /\ r.base = actor[a].base /\ r.pass = actor[a].pass /\ r.tx = journal /\ r.replay = TRUE
    BY <1>1, <2>2 DEF Operations, Locked, Writing
  <2> HIDE DEF r
  <2>4. r.pc \in Locked
    BY <2>3 DEF Locked, Writing
  <2>5. Moves(a) /\ LockKnown' /\ actor'[a] = r
    BY <1>1, <2>1, <2>3, <2>4, Advances DEF IInv
  <2>6. (Pending(r) => Pending(actor[a])) /\ KnowsPass(actor[a])
    BY <1>1, <2>3, <2>4 DEF Pending, KnowsPass, Journaled
  <2>7. Holds(actor[a])'
    BY <1>1, <2>2, <2>3, <2>5 DEF Holds, Journaled, files
  <2>8. Shape(actor[a])'
    BY <1>1, <2>2, <2>3, <2>5 DEF Shape, IInv, Shapes, Journaled, Writing
  <2>9. ASSUME ~shared'
        PROVE  Builds(actor[a])' /\ (Pending(actor'[a]) => \A b \in Actors \ {a} : Pending(actor[b]) => actor[b].id # actor'[a].id)
    <3>1. Good
      BY <1>1, <2>9 DEF IInv
    <3> QED BY <1>1, <2>3, <2>5, <2>6, <3>1, GoesOn
  <2>10. faults' \in 0..MaxFaults
    BY <2>1 DEF IInv, TypeOK
  <2> QED BY <1>1, <1>2, <2>5, <2>7, <2>8, <2>9, <2>10, QuietStep
<1> QED BY <1>3, <1>4

\* An operation that fails under the lock.
LEMMA RefusedInside ==
  ASSUME IInv, NEW a \in Actors, NEW n \in faults..MaxFaults, Refuse(a), Release(n),
         UNCHANGED <<files, acked, begun, crashes, peeked, shared>>
  PROVE  IInv' /\ Policy' = Policy
<1>1. Moves(a) /\ actor'[a] \in Resters
  BY Refuses DEF IInv
<1>2. LockKnown' /\ faults' \in 0..MaxFaults
  BY Releases DEF IInv
<1> QED BY <1>1, <1>2, Ends DEF IInv, TypeOK

\* Who finds the revision it has read has read the policy that lies there.
LEMMA CompareStep == ASSUME IInv, NEW a \in Actors, Compare(a) PROVE IInv' /\ Policy' = Policy
<1>1. /\ actor[a].pc = "compare" /\ actor[a].pc \in Locked /\ actor[a] \in Operations
      /\ UNCHANGED <<files, acked, peeked, shared, begun, crashes>> /\ Policy' = Policy
  BY Types DEF Compare, IInv, Locked, history, Policy, files
<1>2. begun' \in begun..MaxMutations /\ crashes' \in 0..MaxCrashes /\ peeked' \in BOOLEAN /\ shared' \in BOOLEAN
  BY <1>1 DEF IInv, TypeOK
<1>3. CASE Consistent(config, secrets) /\ Unchanged(a)
  <2> DEFINE r == [actor[a] EXCEPT !.pc = "journal", !.tx = Transaction(actor[a]), !.replay = FALSE]
  <2>1. actor' = [actor EXCEPT ![a] = r] /\ lock' = lock /\ faults' = faults
    BY <1>3 DEF Compare
  <2>2. actor[a].id # None /\ actor[a].base \in Configs /\ actor[a].id.nr \in 1..begun
    BY <1>1 DEF IInv, Shapes, Shape, Journaled
  <2>3. actor[a].id \in Mutations
    BY <1>1, <2>2 DEF Operations
  <2>4. Transaction(actor[a]) \in Policies
    BY <1>1, <2>2, <2>3, TransactionIsTyped
  <2>5. /\ r \in Operations /\ r.pc = "journal" /\ r.id = actor[a].id
        /\ r.base = actor[a].base /\ r.pass = actor[a].pass /\ r.tx = Transaction(actor[a]) /\ r.replay = FALSE
    BY <1>1, <2>4 DEF Operations, Locked, Writing
  <2> HIDE DEF r
  <2>6. r.pc \in Locked /\ Transaction(r) = Transaction(actor[a])
    BY <2>5 DEF Locked, Writing, Transaction, Pass
  <2>7. Moves(a) /\ LockKnown' /\ actor'[a] = r
    BY <1>1, <2>1, <2>5, <2>6, Advances DEF IInv
  <2>8. Pending(actor[a]) /\ KnowsPass(actor[a])
    BY <1>1, <2>2 DEF Pending, KnowsPass, Journaled
  <2>9. Shape(actor[a])'
    BY <1>1, <2>2, <2>4, <2>5, <2>7 DEF Shape, Journaled
  <2>10. ASSUME ~shared'
         PROVE  /\ Holds(actor[a])' /\ Builds(actor[a])'
                /\ Pending(actor'[a]) => \A b \in Actors \ {a} : Pending(actor[b]) => actor[b].id # actor'[a].id
    <3>1. Good
      BY <1>1, <2>10 DEF IInv
    <3>2. journal = None
      BY <1>1, <3>1 DEF Good, Holders, Holds
    <3>3. r.base = config
      <4>1. config = Policy.config
        BY <3>2 DEF Policy
      <4> QED BY <1>3, <2>5, <2>8, <3>1, <4>1 DEF Unchanged, Good, Builders, Builds
    <3>4. Holds(actor[a])'
      <4>1. Transaction(actor'[a]) = actor'[a].tx
        BY <2>5, <2>6, <2>7
      <4> QED BY <1>1, <2>2, <2>5, <2>7, <3>2, <3>3, <4>1 DEF Holds, Journaled, files
    <3> QED BY <1>1, <2>5, <2>7, <2>8, <3>1, <3>4, GoesOn
  <2>11. faults' \in 0..MaxFaults
    BY <2>1 DEF IInv, TypeOK
  <2> QED BY <1>1, <1>2, <2>7, <2>9, <2>10, <2>11, QuietStep
<1>4. CASE ~(Consistent(config, secrets) /\ Unchanged(a))
  <2>1. faults \in faults..MaxFaults
    BY DEF IInv, TypeOK
  <2> QED BY <1>1, <1>4, <2>1, RefusedInside DEF Compare
<1> QED BY <1>3, <1>4

LEMMA WriteFailsStep == ASSUME IInv, NEW a \in Actors, WriteFails(a) PROVE IInv' /\ Policy' = Policy
<1>1. faults + 1 \in faults..MaxFaults
  BY DEF WriteFails, IInv, TypeOK
<1> QED BY <1>1, RefusedInside DEF WriteFails, history

-----------------------------------------------------------------------------
(* The writes *)

\* An operation that goes on from one write to the next.
LEMMA WritesOn ==
  ASSUME IInv, NEW a \in Actors, NEW pc \in Journaled, To(a, pc), actor[a].pc \in Writing,
         UNCHANGED <<lock, bounds, history>>
  PROVE  /\ Moves(a) /\ LockKnown' /\ actor[a].tx \in Policies /\ actor'[a].pc = pc
         /\ actor'[a].id = actor[a].id /\ actor'[a].base = actor[a].base /\ actor'[a].pass = actor[a].pass
         /\ actor'[a].tx = actor[a].tx /\ actor'[a].replay = actor[a].replay
         /\ actor[a].id = None => actor[a].pc # "journal"
         /\ (actor[a].id = None => actor[a].replay) => Shapes'
<1> DEFINE r == [actor[a] EXCEPT !.pc = pc]
<1>1. actor' = [actor EXCEPT ![a] = r] /\ actor[a] \in Operations
  BY Types DEF To, IInv
<1>2. /\ r \in Operations /\ r.pc = pc /\ r.id = actor[a].id
      /\ r.base = actor[a].base /\ r.pass = actor[a].pass /\ r.tx = actor[a].tx /\ r.replay = actor[a].replay
  BY <1>1 DEF Operations, Locked, Writing, Journaled
<1> HIDE DEF r
<1>3. r.pc \in Locked /\ r.pc \in Writing
  BY <1>2 DEF Locked, Writing, Journaled
<1>4. Moves(a) /\ LockKnown' /\ actor'[a] = r
  BY <1>1, <1>2, <1>3, Advances DEF IInv, bounds
<1>5. actor[a].tx \in Policies /\ (actor[a].id = None => actor[a].pc # "journal")
  BY DEF IInv, Shapes, Shape, Journaled
<1>6. ASSUME actor[a].id = None => actor[a].replay PROVE Shapes'
  <2>1. Shape(actor[a])'
    BY <1>2, <1>4, <1>5, <1>6 DEF Shape, IInv, Shapes, bounds
  <2>2. begun' = begun /\ begun \in Nat
    BY DEF bounds, IInv, TypeOK
  <2> QED BY <1>4, <2>1, <2>2, ShapesLast DEF IInv
<1> QED BY <1>2, <1>4, <1>5, <1>6

\* A write beside the journal: only the transaction of the journal is written.
LEMMA WriteStep ==
  ASSUME IInv, NEW a \in Actors, NEW pc \in {"secrets", "lkg", "unlink"}, To(a, pc),
         actor[a].pc \in Journaled,
         UNCHANGED <<journal, lock, bounds, history>>,
         config' \in {config, actor[a].tx.config}, secrets' \in {secrets, actor[a].tx.secrets}, lkg' \in {lkg, actor[a].tx},
         ~shared => /\ config' = actor[a].tx.config
                    /\ pc \in {"lkg", "unlink"} => secrets' = actor[a].tx.secrets
                    /\ pc = "unlink" => lkg' = actor[a].tx
  PROVE  IInv' /\ (~shared => Policy' = Policy)
<1>1. pc \in Journaled /\ actor[a].pc \in Writing /\ actor[a].pc \in Locked
  BY DEF Journaled, Locked, Writing
<1>2. /\ Moves(a) /\ LockKnown' /\ actor[a].tx \in Policies /\ actor'[a].pc = pc
      /\ actor'[a].id = actor[a].id /\ actor'[a].base = actor[a].base /\ actor'[a].pass = actor[a].pass
      /\ actor'[a].tx = actor[a].tx /\ actor'[a].replay = actor[a].replay
      /\ (actor[a].id = None => actor[a].replay) => Shapes'
  BY <1>1, WritesOn
<1>3. Shapes'
  BY <1>2 DEF IInv, Shapes, Shape
<1>4. TypeOK'
  <2>1. actor[a].tx.config \in Configs /\ actor[a].tx.secrets \in Secrets
    BY <1>2 DEF Policies
  <2> QED BY <1>2, <2>1 DEF IInv, TypeOK, Moves, LockKnown, bounds, history
<1>5. ASSUME ~shared PROVE Policy' = Policy /\ Good'
  <2>1. Good /\ TypeOK /\ Shapes
    BY <1>5 DEF IInv
  <2>2. journal = actor[a].tx /\ journal # None /\ journal' # None
    BY <1>2, <2>1 DEF Good, Holders, Holds
  <2>3. Policy' = Policy /\ Policy = actor[a].tx
    BY <2>2 DEF Policy
  <2>4. (Pending(actor'[a]) => Pending(actor[a])) /\ KnowsPass(actor[a])
    BY <1>1, <1>2 DEF Pending, KnowsPass
  <2>5. Holds(actor[a])'
    <3>1. ~actor[a].replay => actor[a].id \in actor[a].tx.config.edits
      BY <2>1 DEF Good, Holders, Holds
    <3> QED BY <1>1, <1>2, <1>5, <2>2, <3>1 DEF Holds, Journaled
  <2>6. Lag'
    <3>1. actor[a].tx.config.revision \in Nat
      BY <1>2 DEF Policies, Configs
    <3>2. config' = Policy.config
      BY <1>5, <2>3
    <3> QED BY <2>1, <2>3, <3>1, <3>2 DEF Good, Lag, bounds
  <2>7. FilesAgree'
    BY <1>5, <2>1, <2>2, <2>3 DEF Good, FilesAgree, history
  <2>8. peeked' = peeked
    BY DEF history
  <2>9. /\ Builds(actor[a])'
        /\ Pending(actor'[a]) => \A b \in Actors \ {a} : Pending(actor[b]) => actor[b].id # actor'[a].id
    BY <1>2, <2>1, <2>3, <2>4, <2>8, GoesOn
  <2> QED BY <1>1, <1>2, <2>1, <2>3, <2>5, <2>6, <2>7, <2>8, <2>9, OneStep
<1> QED BY <1>3, <1>4, <1>5 DEF IInv, history

LEMMA FilesStep ==
  ASSUME IInv, NEW a \in Actors, WriteConfig(a) \/ WriteSecrets(a) \/ WriteLkg(a)
  PROVE  IInv' /\ (~shared => Policy' = Policy)
<1>1. ~shared => Holds(actor[a])
  BY DEF IInv, Good, Holders
<1>2. CASE WriteConfig(a)
  <2>1. actor[a].pc \in Journaled
    BY <1>2 DEF WriteConfig, Journaled
  <2> QED BY <1>2, <2>1, WriteStep DEF WriteConfig
<1>3. CASE WriteSecrets(a)
  <2>1. actor[a].pc \in Journaled /\ (~shared => config' = actor[a].tx.config)
    BY <1>1, <1>3 DEF WriteSecrets, Journaled, Holds
  <2> QED BY <1>3, <2>1, WriteStep DEF WriteSecrets
<1>4. CASE WriteLkg(a)
  <2>1. actor[a].pc \in Journaled /\ (~shared => config' = actor[a].tx.config /\ secrets' = actor[a].tx.secrets)
    BY <1>1, <1>4 DEF WriteLkg, Journaled, Holds
  <2> QED BY <1>4, <2>1, WriteStep DEF WriteLkg
<1> QED BY <1>2, <1>3, <1>4

\* The journal is removed once the files are what it says; what then becomes of
\* the operation does not matter to them.
LEMMA UnlinkStep == ASSUME IInv, NEW a \in Actors, Unlink(a) PROVE IInv' /\ (~shared => Policy' = Policy)
<1>1. /\ actor[a].pc = "unlink" /\ actor[a].pc \in Locked /\ actor[a].pc \in Journaled /\ actor[a] \in Operations
      /\ journal' = None /\ UNCHANGED <<config, secrets, lkg, begun, crashes, peeked, shared>>
      /\ actor[a].id = None => actor[a].replay
  BY Types DEF Unlink, Locked, Writing, Journaled, IInv, Shapes, Shape
<1>2. /\ Moves(a) /\ LockKnown' /\ faults' \in 0..MaxFaults /\ Shape(actor[a])' /\ Holds(actor[a])'
      /\ acked' \subseteq Mutations
      /\ Pending(actor'[a]) => /\ Pending(actor[a]) /\ KnowsPass(actor[a])
                               /\ actor'[a].id = actor[a].id /\ actor'[a].base = actor[a].base
                               /\ actor'[a].pass = actor[a].pass
  <2>1. faults \in faults..MaxFaults /\ acked \subseteq Mutations
    BY DEF IInv, TypeOK
  <2>2. CASE journal = None
    <3>1. Refuse(a) /\ Release(faults) /\ acked' = acked
      BY <2>2 DEF Unlink
    <3>2. Moves(a) /\ LockKnown' /\ faults' \in 0..MaxFaults /\ actor'[a] \in Resters
      BY <2>1, <3>1, Refuses, Releases DEF IInv
    <3>3. Shape(actor[a])' /\ Holds(actor[a])' /\ ~Pending(actor'[a])
      BY <3>2 DEF Resters, Idle, Down, Notifying, Shape, Holds, Pending, Journaled, Writing
    <3> QED BY <2>1, <3>1, <3>2, <3>3
  <2>3. CASE journal # None /\ actor[a].replay
    <3>1. Recovered(a) /\ acked' = acked
      BY <2>3 DEF Unlink
    <3>2. actor[a].id # None => Pending(actor[a])
      BY <2>3 DEF Pending
    <3> QED BY <1>1, <2>1, <2>3, <3>1, <3>2, RecoveredShape
  <2>4. CASE journal # None /\ ~actor[a].replay
    <3>1. Done(a) /\ acked' = acked \union {actor[a].id}
      BY <2>4 DEF Unlink
    <3>2. actor[a].id \in Mutations
      BY <1>1, <2>4 DEF Operations
    <3>3. Moves(a) /\ LockKnown' /\ faults' \in 0..MaxFaults /\ actor'[a] \in Resters
      BY <3>1, Finishes DEF IInv
    <3>4. Shape(actor[a])' /\ Holds(actor[a])' /\ ~Pending(actor'[a])
      BY <3>3 DEF Resters, Idle, Down, Notifying, Shape, Holds, Pending, Journaled, Writing
    <3> QED BY <2>1, <3>1, <3>2, <3>3, <3>4
  <2> QED BY <2>2, <2>3, <2>4
<1>3. TypeOK'
  BY <1>1, <1>2 DEF IInv, TypeOK, Moves, LockKnown
<1>4. Shapes'
  <2>1. begun' = begun /\ begun \in Nat
    BY <1>1 DEF IInv, TypeOK
  <2> QED BY <1>2, <2>1, ShapesLast DEF IInv
<1>5. ASSUME ~shared PROVE Policy' = Policy /\ Good'
  <2>1. Good /\ TypeOK /\ Shapes
    BY <1>5 DEF IInv
  <2>2. /\ actor[a].tx \in Policies /\ journal = actor[a].tx /\ journal # None
        /\ config = actor[a].tx.config /\ secrets = actor[a].tx.secrets /\ lkg = actor[a].tx
        /\ (~actor[a].replay => actor[a].id \in actor[a].tx.config.edits)
    BY <1>1, <2>1 DEF Good, Holders, Holds
  <2>3. Policy = actor[a].tx /\ Policy' = Policy /\ Policy = [config |-> config, secrets |-> secrets]
    <3>1. actor[a].tx = [config |-> actor[a].tx.config, secrets |-> actor[a].tx.secrets]
      BY <2>2 DEF Policies
    <3> QED BY <1>1, <2>2, <3>1 DEF Policy
  <2>4. acked' \subseteq Policy.config.edits
    <3>1. acked \subseteq Policy.config.edits
      BY <1>5, <2>1 DEF Good, FilesAgree
    <3>2. acked' = acked \/ (~actor[a].replay /\ acked' = acked \union {actor[a].id})
      BY <2>2 DEF Unlink
    <3> QED BY <2>2, <2>3, <3>1, <3>2
  <2>5. FilesAgree'
    BY <1>1, <1>5, <2>1, <2>2, <2>3, <2>4 DEF Good, FilesAgree
  <2>6. Lag'
    BY <1>1, <2>1, <2>3 DEF Good, Lag
  <2>7. /\ Builds(actor[a])'
        /\ Pending(actor'[a]) => \A b \in Actors \ {a} : Pending(actor[b]) => actor[b].id # actor'[a].id
    BY <1>1, <1>2, <2>1, <2>3, GoesOn
  <2> QED BY <1>1, <1>2, <2>1, <2>3, <2>5, <2>6, <2>7, OneStep
<1> QED BY <1>1, <1>3, <1>4, <1>5 DEF IInv

\* The commit: a transaction on top of all there is, which leaves every other
\* mutation behind.
LEMMA WriteJournalStep ==
  ASSUME IInv, NEW a \in Actors, WriteJournal(a)
  PROVE  IInv' /\ (~shared => actor[a].id \in Mutations /\ Register!Commit(actor[a].id))
<1>1. /\ actor[a].pc = "journal" /\ actor[a] \in Operations /\ journal' = actor[a].tx
      /\ UNCHANGED <<config, secrets, lkg, lock, bounds, history>>
  BY Types DEF WriteJournal, IInv
<1>2. /\ Moves(a) /\ LockKnown' /\ actor[a].tx \in Policies /\ actor'[a].pc = "config"
      /\ actor'[a].id = actor[a].id /\ actor'[a].base = actor[a].base /\ actor'[a].pass = actor[a].pass
      /\ actor'[a].tx = actor[a].tx /\ actor'[a].replay = actor[a].replay
      /\ actor[a].id # None /\ Shapes'
  BY <1>1, WritesOn DEF WriteJournal, Journaled, Writing
<1>3. TypeOK'
  BY <1>1, <1>2 DEF IInv, TypeOK, Moves, LockKnown, bounds, history
<1>4. ASSUME ~shared PROVE actor[a].id \in Mutations /\ Register!Commit(actor[a].id) /\ Good'
  <2>1. Good /\ TypeOK /\ Shapes
    BY <1>4 DEF IInv
  <2>2. /\ journal = None /\ ~actor[a].replay
        /\ actor[a].base = config /\ actor[a].tx = Transaction(actor[a]) /\ actor[a].base \in Configs
    BY <1>1, <1>2, <2>1 DEF Good, Holders, Holds, Shapes, Shape
  <2>3. actor[a].id \in Mutations /\ actor[a].id.nr \in 1..begun
    BY <1>1, <1>2, <2>1 DEF Operations, Shapes, Shape
  <2> DEFINE tx == actor[a].tx
  <2>4. /\ Consistent(tx.config, tx.secrets) /\ tx # None
        /\ tx.config.revision = config.revision + 1
        /\ tx.config.edits = config.edits \union {actor[a].id}
        /\ tx.config.revision \in Nat /\ config.revision \in Nat
        /\ tx.secrets = Pass(actor[a])
    <3>1. Transaction(actor[a]).secrets = Pass(actor[a])
      BY DEF Transaction
    <3> QED BY <1>1, <1>2, <2>2, <2>3, <3>1, TransactionIsTyped DEF Configs, Policies
  <2>5. Policy' = tx /\ Policy.config = config /\ Policy.secrets = secrets
    BY <1>1, <2>2, <2>4 DEF Policy
  <2>6. Pending(actor[a]) /\ KnowsPass(actor[a]) /\ ~Pending(actor'[a])
    BY <1>1, <1>2, <2>2 DEF Pending, KnowsPass, Journaled, Locked, Writing
  <2>7. actor[a].id \notin config.edits /\ (~peeked => actor[a].pass = secrets)
    BY <2>2, <2>5, <2>6, <2>1 DEF Good, Builders, Builds
  <2>8. Register!Commit(actor[a].id)
    <3>1. ~peeked => Pass(actor[a]) = Register!Password(actor[a].id)
      BY <2>5, <2>7 DEF Pass, Register!Password
    <3>2. Pass(actor[a]) \in Mutations \union {None}
      BY <1>2, <2>4 DEF Policies, Secrets
    <3> QED BY <1>1, <2>4, <2>5, <2>7, <3>1, <3>2 DEF Register!Commit, history
  <2>9. \A b \in Actors \ {a} : actor'[b] = actor[b] /\ actor[b].pc \notin Locked
    <3>1. actor[a].pc \in Locked
      BY <1>1 DEF Locked, Writing
    <3> QED BY <2>1, <3>1, Alone DEF WriteJournal, To, Good, TypeOK
  <2>10. Holders'
    <3>1. Holds(actor[a])'
      BY <1>1, <1>2, <2>4 DEF Holds, Journaled
    <3>2. \A b \in Actors \ {a} : Holds(actor[b])'
      BY <2>9 DEF Holds, Locked, Writing, Journaled
    <3> QED BY <3>1, <3>2 DEF Holders
  <2>11. Builders'
    <3> SUFFICES ASSUME NEW b \in Actors, Pending(actor'[b]) PROVE Builds(actor[b])'
      BY DEF Builders, Builds, Pending
    <3>1. b # a /\ actor'[b] = actor[b]
      BY <2>6, <2>9
    <3>2. /\ actor[b].base.revision <= config.revision /\ actor[b].id \notin config.edits
          /\ actor[b].id # actor[a].id /\ actor[b].base \in Configs
      BY <2>1, <2>5, <2>6, <3>1 DEF Good, Builders, Builds, Distinct, Shapes, Shape, Pending
    <3>3. actor[b].base.revision < tx.config.revision /\ actor[b].base.revision \in Nat
      BY <2>4, <3>2 DEF Configs
    <3> QED BY <2>4, <2>5, <3>1, <3>2, <3>3 DEF Builds
  <2>12. Distinct' /\ Mutex'
    BY <2>1, <2>6, <2>9 DEF Good, Distinct, Mutex, Pending
  <2>13. FilesAgree'
    <3>1. acked' \subseteq tx.config.edits
      BY <1>1, <1>4, <2>1, <2>4, <2>5 DEF Good, FilesAgree, history
    <3> QED BY <1>1, <2>4, <2>5, <3>1 DEF FilesAgree
  <2>14. Lag'
    <3>1. \A m \in tx.config.edits : m.nr \in 1..begun
      BY <2>1, <2>3, <2>4, <2>5 DEF Good, Lag
    <3> QED BY <1>1, <2>4, <2>5, <3>1 DEF Lag, bounds
  <2> QED BY <2>3, <2>8, <2>10, <2>11, <2>12, <2>13, <2>14 DEF Good
<1> QED BY <1>1, <1>2, <1>3, <1>4 DEF IInv, history

-----------------------------------------------------------------------------
(* The theorems *)

\* A step that writes no journal changes nothing of the policy while the lock
\* excludes.
LEMMA OtherSteps ==
  ASSUME IInv, NEW a \in Actors,
         \/ Start(a) \/ Crash(a) \/ GiveUp(a) \/ ListenersSettle(a) \/ \E kind \in Kinds : Begin(a, kind)
         \/ Reads(a) \/ Tests(a) \/ Locks(a)
         \/ Recover(a) \/ Compare(a) \/ WriteFails(a)
         \/ WriteConfig(a) \/ WriteSecrets(a) \/ WriteLkg(a) \/ Unlink(a)
  PROVE  IInv' /\ (~shared => Policy' = Policy)
BY StartStep, CrashStep, GiveUpStep, ListenersStep, BeginStep, CheckConsistencyStep, ReadAgainStep, ReadCredentialsStep,
   TestsStep, AcquireStep, AcquireFailsStep, StaleStep, RecoverStep, CompareStep, WriteFailsStep, FilesStep, UnlinkStep
   DEF Reads, Locks

\* How a step changes the two histories that loosen the register: never both,
\* and never along with the files.
LEMMA HistoriesGrow ==
  ASSUME IInv, [Next]_vars
  PROVE  /\ shared => shared'
         /\ peeked' \in {peeked, TRUE} /\ shared' \in {shared, TRUE}
         /\ peeked' = peeked \/ shared' = shared
<1>1. CASE UNCHANGED vars
  BY <1>1 DEF vars, history
<1>2. ASSUME NEW a \in Actors, Acquire(a)
      PROVE  peeked' = peeked /\ shared' \in {shared, TRUE} /\ (shared => shared')
  BY <1>2 DEF Acquire, IInv, TypeOK
<1>3. ASSUME NEW a \in Actors,
             \/ Start(a) \/ Crash(a) \/ GiveUp(a) \/ ListenersSettle(a) \/ \E kind \in Kinds : Begin(a, kind)
             \/ Reads(a) \/ Tests(a) \/ AcquireFails(a) \/ FindsStale(a) \/ UnlinkStale(a) \/ Commits(a)
      PROVE  shared' = shared /\ peeked' \in {peeked, TRUE}
  BY <1>3 DEF Start, Crash, GiveUp, ListenersSettle, Begin, Reads, CheckConsistency, ReadAgain, ReadCredentials, Peeks,
     Tests, TestPasses, TestFails, AcquireFails, FindsStale, UnlinkStale, Commits, Recover, Compare, WriteFails,
     WriteJournal, WriteConfig, WriteSecrets, WriteLkg, Unlink, history, IInv, TypeOK
<1> QED BY <1>1, <1>2, <1>3 DEF Next, Locks

\* A step either commits one mutation to the register or leaves its value.
LEMMA OneStepOfNext ==
  ASSUME IInv, [Next]_vars
  PROVE  IInv' /\ [Register!Next]_Register!vars
<1>1. CASE UNCHANGED vars
  <2>1. IInv'
    BY <1>1 DEF IInv, Good, Mutex, TypeOK, Shapes, Shape, Holders, Holds, Builders, Builds, Pending, KnowsPass, Distinct,
                Lag, FilesAgree, Policy, Transaction, Pass, vars, files, bounds, history
  <2>2. UNCHANGED Register!vars
    BY <1>1 DEF Register!vars, Policy, vars, files, history
  <2> QED BY <2>1, <2>2
<1>2. ASSUME NEW a \in Actors, WriteJournal(a) PROVE IInv' /\ [Register!Next]_Register!vars
  <2>1. CASE shared
    BY <1>2, <2>1, HistoriesGrow, WriteJournalStep DEF Register!Next, Register!Broken
  <2>2. CASE ~shared
    BY <1>2, <2>2, WriteJournalStep DEF Register!Next
  <2> QED BY <2>1, <2>2
<1>3. ASSUME NEW a \in Actors,
             \/ Start(a) \/ Crash(a) \/ GiveUp(a) \/ ListenersSettle(a) \/ \E kind \in Kinds : Begin(a, kind)
             \/ Reads(a) \/ Tests(a) \/ Locks(a)
             \/ Recover(a) \/ Compare(a) \/ WriteFails(a)
             \/ WriteConfig(a) \/ WriteSecrets(a) \/ WriteLkg(a) \/ Unlink(a)
      PROVE  IInv' /\ [Register!Next]_Register!vars
  <2>1. IInv' /\ (~shared => Policy' = Policy)
    BY <1>3, OtherSteps
  <2>2. CASE shared
    BY <2>1, <2>2, HistoriesGrow DEF Register!Next, Register!Broken
  <2>3. CASE ~shared
    BY <2>1, <2>3, HistoriesGrow DEF Register!Next, Register!Loosen, Register!Break, Register!vars
  <2> QED BY <2>1, <2>2, <2>3
<1> QED BY <1>1, <1>2, <1>3 DEF Next, Commits

\* Every state of the store is as IInv describes it.
THEOREM InductiveInvariant == Spec => []IInv
BY Started, OneStepOfNext, PTL DEF Spec

\* The state of the store, its lock and its operations keep their shape; only a
\* failure of the file system leaves the lock of a living process behind.
THEOREM TypesAreKept == Spec => []TypeOK
<1>1. IInv => TypeOK
  BY DEF IInv
<1> QED BY <1>1, InductiveInvariant, PTL

\* For any actors and any number of mutations, crashes and failed writes, the
\* two files implement one value changed by whole transactions (commit(),
\* recoverJournal()), and nothing that was reported as saved is lost, as long as
\* no two have been under the lock at once.
THEOREM PolicyIsKeptByTheFiles == Spec => PolicyIsKept
<1>1. Init => Register!Init
  BY DEF Init, Register!Init, Policy, Fresh
<1>2. IInv /\ [Next]_vars => [Register!Next]_Register!vars
  BY OneStepOfNext
<1>3. IInv => FilesAgree
  BY DEF IInv, Good, FilesAgree
<1> QED BY <1>1, <1>2, <1>3, InductiveInvariant, PTL DEF Spec, Register!Spec, PolicyIsKept
=============================================================================
