------------------------- MODULE SessionRecordsProofs -------------------------
(***************************************************************************)
(* For any number of attempts to create or resume the session, and of      *)
(* mutations in its queue: agent, session, working record and disk tell    *)
(* the same story, an acknowledged cancellation is final, and a record     *)
(* that has ended on disk is reopened by a resumed session only.           *)
(***************************************************************************)
EXTENDS SessionRecords, Integers, TLAPS

USE AttemptsAssumption

(***************************************************************************)
(* The inductive invariant.                                                *)
(***************************************************************************)
\* What can be queued, and where it waits.
Mutations == [kind : {"init", "status", "finish", "cancel", "remove", "shutdown"},
              by : Attempts \cup {NoOne}, to : Statuses \cup {NoRecord}]

Entries == 1 .. Len(queue)
Pending(m) == \E i \in Entries : queue[i] = m

\* The attempt has got as far as registering a Session, or was refused there.
Past(a) == pc[a] \notin {"idle", "spawning"}

\* Who is registered, destroyed or cancelled was registered before; a session has
\* its bridge when its attempt is over, and finishes behind it only.
Placed ==
  \A a \in Attempts : /\ live = a \/ teardown.of = a \/ cancel.of = a => Past(a)
                      /\ a \in published => pc[a] \in Over
                      /\ status[a] = "finished" => a \in published

\* What a teardown is about is not a working agent.
TornDown == teardown.of # NoOne => agent[teardown.of] # "live"

\* Behind a cancellation or a shutdown nobody is registered who is not on the
\* way out, and a cancellation leaves no lease to register with.
Bounded ==
  /\ closing # "no" \/ cancel.stage # "idle" => live = NoOne \/ live \in term
  /\ closing = "complete" => live = NoOne
  /\ cancel.stage # "idle" \/ acked => \A a \in Attempts : lease[a] # "current"
  /\ cancel.found => cancel.stage # "idle"

\* Nothing is left of a session, and nothing acknowledged for it.
Nothing == rec = NoRecord /\ disk = NoRecord /\ ~acked /\ ~cancel.found

\* The one attempt without a lease is the first, and before its record is written
\* there is none.
Firsts ==
  /\ ~created => Nothing /\ \A a \in Attempts : pc[a] = "idle"
  /\ \A a \in Attempts :
       pc[a] \in {"spawning", "restoring", "recording"} /\ lease[a] = "none" =>
         Nothing /\ \A b \in Attempts \ {a} : pc[b] = "idle"

\* What is queued was queued by somebody who still stands where it was queued, or
\* has gone on in the same direction.
Founded(m) ==
  /\ m.kind = "init" => /\ m.by \in Attempts /\ pc[m.by] = "recording"
                        /\ Terminal(m.to) => status[m.by] = m.to
  /\ m.kind = "status" => m.by \in published /\ (Terminal(m.to) => status[m.by] = m.to)
  /\ m.kind = "finish" => m.by \in published /\ status[m.by] = "finished"
  /\ m.kind = "cancel" => m.by = NoOne /\ cancel.stage = "queued"
  /\ m.kind = "shutdown" => closing # "no"

\* Two mutations of which only one can be pending.
Rivals(m, n) == m.kind = n.kind /\ m.by = n.by /\ m.kind \in {"init", "cancel"}

\* Nobody queues two initial patches, and there is one cancellation at a time.
Queued ==
  /\ \A i \in Entries : Founded(queue[i])
  /\ \A i, j \in Entries : Rivals(queue[i], queue[j]) => i = j

\* The cancelled record, from the write of the cancellation on.
Sealed ==
  acked \/ (cancel.found /\ cancel.final = "cancelled") =>
    /\ rec \in {"cancelled", NoRecord} /\ disk \in {"cancelled", NoRecord}
    /\ live = NoOne \/ live \in term

\* From the write of its initial record on, the record of a session that runs has
\* not ended, neither here nor on disk; that of a finished one has, or will have
\* when what is queued has run.
Told(a) ==
  CurrentLive(a) /\ (a \in published \/ pc[a] = "recorded") =>
    /\ ~Terminal(status[a]) => ~Terminal(rec) /\ ~Terminal(disk)
    /\ status[a] = "finished" /\ rec # NoRecord =>
         Terminal(rec) \/ Pending(Mutation("status", a, "finished"))

Tells ==
  /\ \A a \in Attempts : Told(a)
  /\ disk = NoRecord => rec = NoRecord

IInv ==
  /\ TypeOK /\ Placed /\ TornDown /\ AgentsAreRegistered /\ Bounded
  /\ Firsts /\ Queued /\ Sealed /\ Tells

-----------------------------------------------------------------------------
(* The queue *)

\* The queue is a sequence of mutations.
LEMMA Items ==
  ASSUME TypeOK
  PROVE  /\ queue \in Seq(Mutations) /\ Len(queue) \in Nat
         /\ \A i \in Entries : queue[i] \in Mutations
<1>1. queue \in Seq(Mutations)
  BY Zenon DEF TypeOK, Mutations
<1>2. Len(queue) \in Nat /\ \A i \in 1 .. Len(queue) : queue[i] \in Mutations
  BY <1>1
<1> QED BY <1>1, <1>2 DEF Entries

\* An item behind the others.
LEMMA Appended ==
  ASSUME TypeOK, NEW m \in Mutations, queue' = Append(queue, m)
  PROVE  /\ queue' \in Seq(Mutations) /\ Entries' = Entries \cup {Len(queue) + 1}
         /\ queue'[Len(queue) + 1] = m /\ Len(queue) + 1 \notin Entries
         /\ \A i \in Entries : queue'[i] = queue[i]
<1>1. queue \in Seq(Mutations) /\ Len(queue) \in Nat
  BY Items
<1>2. /\ queue' \in Seq(Mutations) /\ Len(queue') = Len(queue) + 1 /\ queue'[Len(queue) + 1] = m
      /\ \A i \in 1 .. Len(queue) : queue'[i] = queue[i]
  BY <1>1
<1>3. 1 .. Len(queue) + 1 = (1 .. Len(queue)) \cup {Len(queue) + 1}
  BY <1>1
<1> QED BY <1>1, <1>2, <1>3 DEF Entries

\* The first item is taken off.
LEMMA Dequeued ==
  ASSUME TypeOK, NEW k, Dequeue(k)
  PROVE  /\ 1 \in Entries /\ queue[1] \in Mutations /\ Head(queue) = queue[1] /\ queue[1].kind = k
         /\ queue' \in Seq(Mutations)
         /\ \A i \in Entries' : i + 1 \in Entries /\ i + 1 # 1 /\ queue'[i] = queue[i + 1]
         /\ \A i \in Entries \ {1} : i - 1 \in Entries' /\ queue'[i - 1] = queue[i]
         /\ \A i, j \in Entries' : i + 1 = j + 1 => i = j
<1>1. queue \in Seq(Mutations) /\ Len(queue) \in Nat /\ queue # <<>> /\ Len(queue) > 0
  BY Items DEF Dequeue
<1>2. /\ queue' = Tail(queue) /\ Head(queue).kind = k /\ Head(queue) = queue[1]
      /\ Len(queue') = Len(queue) - 1 /\ queue' \in Seq(Mutations)
      /\ \A i \in 1 .. Len(queue) - 1 : queue'[i] = queue[i + 1]
  BY <1>1 DEF Dequeue
<1>3. 1 \in Entries /\ queue[1] \in Mutations
  BY <1>1, Items DEF Entries
<1>4. \A i \in 1 .. Len(queue) - 1 : i \in Int /\ i + 1 \in 1 .. Len(queue) /\ i + 1 # 1
  BY <1>1
<1>5. \A i \in (1 .. Len(queue)) \ {1} : i - 1 \in 1 .. Len(queue) - 1 /\ (i - 1) + 1 = i
  BY <1>1
<1>6. \A i \in (1 .. Len(queue)) \ {1} : queue'[i - 1] = queue[i]
  BY <1>2, <1>5
<1>7. \A i, j \in 1 .. Len(queue) - 1 : i + 1 = j + 1 => i = j
  BY <1>1
<1> QED BY <1>2, <1>3, <1>4, <1>5, <1>6, <1>7 DEF Entries

\* What the other mutations rest on survives a change, and so does the queue.
LEMMA QueueKept ==
  ASSUME TypeOK, Queued, queue' = queue, \A m \in Mutations : Founded(m) => Founded(m)'
  PROVE  /\ queue' \in Seq(Mutations) /\ Queued'
         /\ \A m : Pending(m)' <=> Pending(m)
<1>1. \A i \in Entries : Founded(queue[i]) /\ queue[i] \in Mutations
  BY Items DEF Queued
<1>2. \A i \in Entries : Founded(queue[i])'
  BY <1>1
<1>3. Entries' = Entries /\ queue' = queue
  BY DEF Entries
<1>4. \A i \in Entries' : Founded(queue[i])'
  BY <1>2, <1>3
<1>5. \A i, j \in Entries' : Rivals(queue[i], queue[j])' => i = j
  BY <1>3 DEF Queued, Rivals
<1> QED BY <1>3, <1>4, <1>5, Items DEF Queued, Pending

\* A mutation is queued that has no rival there.
LEMMA QueueGrows ==
  ASSUME TypeOK, Queued, NEW m \in Mutations, queue' = Append(queue, m),
         Founded(m)', \A n \in Mutations : Founded(n) => Founded(n)',
         \A n \in Mutations : Founded(n) => ~Rivals(m, n)
  PROVE  /\ queue' \in Seq(Mutations) /\ Queued'
         /\ Pending(m)' /\ \A n : Pending(n) => Pending(n)'
<1>1. PICK k \in Nat :
         /\ queue' \in Seq(Mutations) /\ Entries' = Entries \cup {k} /\ queue'[k] = m
         /\ k \notin Entries /\ \A i \in Entries : queue'[i] = queue[i]
  <2>1. Len(queue) + 1 \in Nat
    BY Items
  <2>2. /\ queue' \in Seq(Mutations) /\ Entries' = Entries \cup {Len(queue) + 1}
        /\ queue'[Len(queue) + 1] = m /\ Len(queue) + 1 \notin Entries
        /\ \A i \in Entries : queue'[i] = queue[i]
    BY Appended
  <2> QED BY Zenon, <2>1, <2>2
<1>2. \A i \in Entries : Founded(queue[i]) /\ queue[i] \in Mutations
  BY Items DEF Queued
<1>3. \A i \in Entries : Founded(queue[i])' /\ ~Rivals(m, queue[i])
  <2> SUFFICES ASSUME NEW i \in Entries PROVE Founded(queue[i])' /\ ~Rivals(m, queue[i])
    OBVIOUS
  <2> DEFINE n == queue[i]
  <2>1. n \in Mutations /\ Founded(n) /\ queue'[i] = n
    BY <1>1, <1>2
  <2> QED BY <2>1 DEF Founded
<1>4. Founded(m)'
  OBVIOUS
<1>5. \A i \in Entries' : Founded(queue[i])'
  <2> SUFFICES ASSUME NEW i \in Entries' PROVE Founded(queue[i])'
    OBVIOUS
  <2>1. CASE i \in Entries
    BY <1>3, <2>1
  <2>2. CASE i = k
    BY <1>1, <1>4, <2>2 DEF Founded
  <2> QED BY <1>1, <2>1, <2>2
<1>6. \A i, j \in Entries' : Rivals(queue[i], queue[j])' => i = j
  <2> SUFFICES ASSUME NEW i \in Entries', NEW j \in Entries', Rivals(queue'[i], queue'[j])
               PROVE  i = j
    BY DEF Rivals
  <2>1. CASE i \in Entries /\ j \in Entries
    BY <1>1, <2>1 DEF Queued
  <2>2. CASE i = k \/ j = k
    BY <1>1, <1>3, <2>2 DEF Rivals
  <2> QED BY <1>1, <2>1, <2>2
<1> QED BY <1>1, <1>5, <1>6 DEF Queued, Pending

\* A mutation has run, and what it changes does not matter to those that wait
\* unless they are its rivals.
LEMMA QueueShrinks ==
  ASSUME TypeOK, Queued, NEW k, Dequeue(k),
         \A n \in Mutations : Founded(n) /\ ~Rivals(Head(queue), n) => Founded(n)'
  PROVE  /\ queue' \in Seq(Mutations) /\ Queued'
         /\ Head(queue) \in Mutations /\ Head(queue).kind = k /\ Founded(Head(queue))
         /\ \A n : Pending(n) /\ n # Head(queue) => Pending(n)'
<1>1. /\ 1 \in Entries /\ queue[1] \in Mutations /\ Head(queue) = queue[1] /\ queue[1].kind = k
      /\ queue' \in Seq(Mutations)
      /\ \A i \in Entries' : i + 1 \in Entries /\ i + 1 # 1 /\ queue'[i] = queue[i + 1]
      /\ \A i \in Entries \ {1} : i - 1 \in Entries' /\ queue'[i - 1] = queue[i]
      /\ \A i, j \in Entries' : i + 1 = j + 1 => i = j
  BY Dequeued
<1>2. \A i \in Entries : Founded(queue[i]) /\ queue[i] \in Mutations
  BY Items DEF Queued
<1>3. \A i \in Entries \ {1} : ~Rivals(queue[1], queue[i])
  BY <1>1 DEF Queued
<1>4. \A i \in Entries' : Founded(queue[i])'
  <2> SUFFICES ASSUME NEW i \in Entries' PROVE Founded(queue[i])'
    OBVIOUS
  <2> DEFINE n == queue[i + 1]
  <2>1. n \in Mutations /\ Founded(n) /\ queue'[i] = n /\ ~Rivals(Head(queue), n)
    BY <1>1, <1>2, <1>3
  <2> QED BY <2>1 DEF Founded
<1>5. \A i, j \in Entries' : Rivals(queue[i], queue[j])' => i = j
  <2> SUFFICES ASSUME NEW i \in Entries', NEW j \in Entries', Rivals(queue'[i], queue'[j])
               PROVE  i = j
    BY DEF Rivals
  <2>1. i + 1 = j + 1
    BY <1>1 DEF Queued
  <2> QED BY <1>1, <2>1
<1>6. \A n : Pending(n) /\ n # Head(queue) => Pending(n)'
  BY <1>1 DEF Pending
<1> QED BY <1>1, <1>2, <1>4, <1>5, <1>6 DEF Queued

-----------------------------------------------------------------------------
(* createSession() *)

\* A session begins that nobody knows, or one that can be resumed.
LEMMA BeginKeeps ==
  ASSUME IInv, NEW a \in Attempts, BeginFresh(a) \/ BeginResume(a)
  PROVE  IInv'
<1>0. USE DEF IInv, Nothing, NoRecord, Past, Resumable, Over
<1>1. PICK l \in {"none", "current"} :
        /\ Begin(a, l)
        /\ l = "none" => ~created
        /\ l = "current" => /\ rec \in {"initializing", "active", "finished"} /\ live = NoOne
                            /\ cancel.stage = "idle" /\ teardown.of = NoOne
  BY DEF BeginFresh, BeginResume
<1>2. ~acked /\ ~cancel.found /\ closing = "no" /\ a \notin published
  <2>1. CASE BeginFresh(a)
    <3>1. ~created /\ closing = "no" /\ pc[a] = "idle"
      BY <2>1 DEF BeginFresh, Begin
    <3> QED BY <3>1 DEF Firsts, Placed
  <2>2. CASE BeginResume(a)
    <3>1. /\ closing = "no" /\ cancel.stage = "idle" /\ pc[a] = "idle"
          /\ rec \in {"initializing", "active", "finished"}
      BY <2>2 DEF BeginResume, Begin
    <3> QED BY <3>1 DEF Bounded, Sealed, Placed
  <2> QED BY <2>1, <2>2
<1>3. queue' \in Seq(Mutations) /\ Queued' /\ \A m : Pending(m)' <=> Pending(m)
  BY <1>1, QueueKept DEF Begin, storeVars, Founded
<1>4. TypeOK'
  BY <1>1, <1>3 DEF TypeOK, Mutations, Begin, storeVars
<1>5. Placed' /\ TornDown' /\ AgentsAreRegistered'
  BY <1>1 DEF TypeOK, Placed, TornDown, AgentsAreRegistered, Begin
<1>6. Bounded'
  BY <1>1, <1>2 DEF TypeOK, Bounded, Begin
<1>7. Firsts'
  <2>1. /\ created' /\ UNCHANGED <<rec, disk, acked, cancel>>
        /\ \A b \in Attempts \ {a} : pc'[b] = pc[b] /\ lease'[b] = lease[b]
        /\ pc[a] = "idle" /\ lease'[a] = l
    BY <1>1 DEF TypeOK, Begin, storeVars
  <2>2. ASSUME NEW b \in Attempts, lease'[b] = "none",
               pc'[b] \in {"spawning", "restoring", "recording"}
        PROVE  Nothing' /\ \A c \in Attempts \ {b} : pc'[c] = "idle"
    <3>1. CASE b = a
      BY <1>1, <2>1, <2>2, <3>1 DEF Firsts
    <3>2. CASE b # a
      BY <1>1, <2>1, <2>2, <3>2 DEF Firsts
    <3> QED BY <3>1, <3>2
  <2> QED BY <2>1, <2>2 DEF Firsts
<1>8. Sealed'
  BY <1>1, <1>2 DEF Sealed, Begin, storeVars
<1>9. Tells'
  BY <1>1, <1>2, <1>3 DEF TypeOK, Tells, Told, CurrentLive, Begin, storeVars
<1> QED BY <1>3, <1>4, <1>5, <1>6, <1>7, <1>8, <1>9

\* An attempt ends that has no agent and no session yet.
LEMMA SpawnEndsKeeps ==
  ASSUME IInv, NEW a \in Attempts, Superseded(a) \/ SpawnFails(a)
  PROVE  IInv'
<1>0. USE DEF IInv, Nothing, NoRecord, Past, Over
<1>1. /\ pc[a] = "spawning" /\ EndAttempt(a, "failed") /\ agent' = [agent EXCEPT ![a] = "dead"]
      /\ UNCHANGED <<storeVars, live, status, term, published, delivery, teardown, ownerVars>>
  BY DEF Superseded, SpawnFails
<1>2. queue' \in Seq(Mutations) /\ Queued' /\ \A m : Pending(m)' <=> Pending(m)
  BY <1>1, QueueKept DEF EndAttempt, storeVars, ownerVars, Founded, TypeOK
<1>3. TypeOK'
  BY <1>1, <1>2 DEF TypeOK, Mutations, EndAttempt, storeVars, ownerVars
<1>4. Placed' /\ TornDown' /\ AgentsAreRegistered'
  BY <1>1 DEF TypeOK, Placed, TornDown, AgentsAreRegistered, EndAttempt, ownerVars
<1>5. Bounded' /\ Sealed'
  BY <1>1 DEF TypeOK, Bounded, Sealed, EndAttempt, storeVars, ownerVars
<1>6. Firsts'
  BY <1>1 DEF TypeOK, Firsts, EndAttempt, storeVars, ownerVars
<1>7. Tells'
  BY <1>1, <1>2 DEF TypeOK, Tells, Told, CurrentLive, EndAttempt, storeVars, ownerVars
<1> QED BY <1>2, <1>3, <1>4, <1>5, <1>6, <1>7

\* The spawned session is registered, or destroyed at once.
LEMMA RegisterKeeps ==
  ASSUME IInv, NEW a \in Attempts, Register(a)
  PROVE  IInv'
<1>0. USE DEF IInv, Nothing, NoRecord, Past, Over
<1>1. /\ pc[a] = "spawning" /\ a \notin published
      /\ UNCHANGED <<storeVars, status, published, delivery, teardown, ownerVars>>
  BY DEF Register, Placed
<1>2. queue' \in Seq(Mutations) /\ Queued' /\ \A m : Pending(m)' <=> Pending(m)
  <2>1. \A b \in Attempts : pc[b] = "recording" => pc'[b] = "recording"
    BY <1>1 DEF Register, EndAttempt, TypeOK
  <2>2. \A m \in Mutations : Founded(m) => Founded(m)'
    BY <1>1, <2>1 DEF Founded, ownerVars
  <2> QED BY <1>1, <2>2, QueueKept DEF storeVars
<1>3. CASE MayRegister(a)
  <2>1. /\ closing = "no" /\ live = NoOne /\ cancel.stage = "idle" /\ lease[a] # "void"
        /\ live' = a /\ pc' = [pc EXCEPT ![a] = "restoring"]
        /\ agent' = [agent EXCEPT ![a] = "live"] /\ UNCHANGED <<lease, term>>
    BY <1>3 DEF Register, MayRegister
  <2>2. ~acked /\ ~cancel.found
    BY <1>1, <2>1 DEF TypeOK, Bounded, Firsts
  <2>3. TypeOK'
    BY <1>1, <1>2, <2>1 DEF TypeOK, Mutations, storeVars, ownerVars
  <2>4. Placed' /\ TornDown' /\ AgentsAreRegistered'
    BY <1>1, <2>1 DEF TypeOK, Placed, TornDown, AgentsAreRegistered, ownerVars
  <2>5. Bounded' /\ Sealed'
    BY <1>1, <2>1, <2>2 DEF TypeOK, Bounded, Sealed, storeVars, ownerVars
  <2>6. Firsts'
    BY <1>1, <2>1 DEF TypeOK, Firsts, storeVars, ownerVars
  <2>7. Tells'
    BY <1>1, <1>2, <2>1 DEF TypeOK, Tells, Told, CurrentLive, storeVars, ownerVars
  <2> QED BY <1>2, <2>3, <2>4, <2>5, <2>6, <2>7
<1>4. CASE ~MayRegister(a)
  <2>1. /\ EndAttempt(a, "failed") /\ agent' = [agent EXCEPT ![a] = "dead"]
        /\ term' = term \cup {a} /\ UNCHANGED live
    BY <1>4 DEF Register
  <2>3. TypeOK'
    BY <1>1, <1>2, <2>1 DEF TypeOK, Mutations, EndAttempt, storeVars, ownerVars
  <2>4. Placed' /\ TornDown' /\ AgentsAreRegistered'
    BY <1>1, <2>1 DEF TypeOK, Placed, TornDown, AgentsAreRegistered, EndAttempt, ownerVars
  <2>5. Bounded' /\ Sealed'
    BY <1>1, <2>1 DEF TypeOK, Bounded, Sealed, EndAttempt, storeVars, ownerVars
  <2>6. Firsts'
    BY <1>1, <2>1 DEF TypeOK, Firsts, EndAttempt, storeVars, ownerVars
  <2>7. Tells'
    BY <1>1, <1>2, <2>1 DEF TypeOK, Tells, Told, CurrentLive, EndAttempt, storeVars, ownerVars
  <2> QED BY <1>2, <2>3, <2>4, <2>5, <2>6, <2>7
<1> QED BY <1>3, <1>4

\* The controls are restored, and the initial patch is queued.
LEMMA RestoredKeeps ==
  ASSUME IInv, NEW a \in Attempts, Restored(a)
  PROVE  IInv'
<1>0. USE DEF IInv, Nothing, NoRecord, Past, Over
<1>1. /\ pc[a] = "restoring" /\ pc' = [pc EXCEPT ![a] = "recording"]
      /\ UNCHANGED <<rec, disk, lease, sessionVars, ownerVars>>
  BY DEF Restored
<1>2. PICK m \in Mutations : /\ m.kind = "init" /\ m.by = a /\ m.to = status[a]
                            /\ queue' = Append(queue, m)
  <2>1. Mutation("init", a, status[a]) \in Mutations
    BY DEF TypeOK, Mutations, Mutation
  <2> QED BY <2>1 DEF Restored, Mutation
<1>3. /\ Founded(m)' /\ \A n \in Mutations : Founded(n) => Founded(n)' /\ ~Rivals(m, n)
  BY <1>1, <1>2 DEF Founded, Rivals, TypeOK, sessionVars, ownerVars
<1>4. queue' \in Seq(Mutations) /\ Queued' /\ \A n : Pending(n) => Pending(n)'
  BY <1>1, <1>2, <1>3, QueueGrows
<1>5. TypeOK'
  BY <1>1, <1>4 DEF TypeOK, Mutations, sessionVars, ownerVars
<1>6. Placed' /\ TornDown' /\ AgentsAreRegistered'
  BY <1>1 DEF TypeOK, Placed, TornDown, AgentsAreRegistered, sessionVars, ownerVars
<1>7. Bounded' /\ Sealed'
  BY <1>1 DEF TypeOK, Bounded, Sealed, sessionVars, ownerVars
<1>8. Firsts'
  BY <1>1 DEF TypeOK, Firsts, sessionVars, ownerVars
<1>9. Tells'
  BY <1>1, <1>4 DEF TypeOK, Tells, Told, CurrentLive, sessionVars, ownerVars
<1> QED BY <1>4, <1>5, <1>6, <1>7, <1>8, <1>9

\* What discardSession() leaves of a registered session.
LEMMA Discards ==
  ASSUME TypeOK, TornDown, AgentsAreRegistered, NEW a \in Attempts, Discard(a),
         UNCHANGED <<teardown, closing>>
  PROVE  /\ live' \in {live, NoOne} /\ live' # a /\ term \subseteq term' /\ term' \subseteq Attempts
         /\ agent' \in [Attempts -> {"none", "starting", "live", "dying", "stuck", "dead"}]
         /\ \A b \in Attempts : agent'[b] = "live" => agent[b] = "live"
         /\ TornDown' /\ AgentsAreRegistered'
<1>1. CASE live # a
  BY <1>1 DEF Discard, TypeOK, TornDown, AgentsAreRegistered
<1>2. CASE live = a
  <2>1. live' = NoOne /\ term' = term \cup {a} /\ NoOne # a
    BY <1>2 DEF Discard
  <2>2. /\ agent' \in [Attempts -> {"none", "starting", "live", "dying", "stuck", "dead"}]
        /\ agent'[a] # "live" /\ \A b \in Attempts \ {a} : agent'[b] = agent[b]
    BY <1>2 DEF Discard, Destroying, TypeOK
  <2>3. TornDown' /\ AgentsAreRegistered'
    BY <1>2, <2>2 DEF TypeOK, TornDown, AgentsAreRegistered
  <2> QED BY <2>1, <2>2, <2>3 DEF TypeOK
<1> QED BY <1>1, <1>2

\* The session was ended before its controls were restored.
LEMMA RestoreSupersededKeeps ==
  ASSUME IInv, NEW a \in Attempts, RestoreSuperseded(a)
  PROVE  IInv'
<1>0. USE DEF IInv, Nothing, NoRecord, Past, Over
<1>1. /\ pc[a] = "restoring"
      /\ UNCHANGED <<storeVars, status, published, delivery, teardown, ownerVars>>
  BY DEF RestoreSuperseded
<1>2. /\ live' \in {live, NoOne} /\ term \subseteq term' /\ term' \subseteq Attempts
      /\ agent' \in [Attempts -> {"none", "starting", "live", "dying", "stuck", "dead"}]
      /\ TornDown' /\ AgentsAreRegistered'
  <2>1. CASE Discard(a)
    BY <1>1, <2>1, Discards DEF ownerVars
  <2>2. CASE UNCHANGED <<live, term, agent>>
    BY <1>1, <2>2 DEF TypeOK, TornDown, AgentsAreRegistered, ownerVars
  <2> QED BY <2>1, <2>2 DEF RestoreSuperseded
<1>3. \/ pc' = [pc EXCEPT ![a] = "discarding"] /\ lease' = lease
      \/ EndAttempt(a, "failed")
  BY DEF RestoreSuperseded
<1>4. queue' \in Seq(Mutations) /\ Queued' /\ \A m : Pending(m)' <=> Pending(m)
  <2>1. \A b \in Attempts : pc[b] = "recording" => pc'[b] = "recording"
    BY <1>1, <1>3 DEF EndAttempt, TypeOK
  <2>2. \A m \in Mutations : Founded(m) => Founded(m)'
    BY <1>1, <2>1 DEF Founded, ownerVars
  <2> QED BY <1>1, <2>2, QueueKept DEF storeVars
<1>5. TypeOK'
  BY <1>1, <1>2, <1>3, <1>4 DEF TypeOK, Mutations, EndAttempt, storeVars, ownerVars
<1>6. Placed'
  BY <1>1, <1>2, <1>3 DEF TypeOK, Placed, EndAttempt, ownerVars
<1>7. Bounded' /\ Sealed'
  BY <1>1, <1>2, <1>3 DEF TypeOK, Bounded, Sealed, EndAttempt, storeVars, ownerVars
<1>8. Firsts'
  BY <1>1, <1>3 DEF TypeOK, Firsts, EndAttempt, storeVars, ownerVars
<1>9. Tells'
  BY <1>1, <1>2, <1>3, <1>4 DEF TypeOK, Tells, Told, CurrentLive, EndAttempt, storeVars, ownerVars
<1> QED BY <1>2, <1>4, <1>5, <1>6, <1>7, <1>8, <1>9

\* A discarded session's attempt ends.
LEMMA DiscardedKeeps ==
  ASSUME IInv, NEW a \in Attempts, Discarded(a)
  PROVE  IInv'
<1>0. USE DEF IInv, Nothing, NoRecord, Past, Over
<1>1. /\ pc[a] = "discarding" /\ EndAttempt(a, "failed")
      /\ UNCHANGED <<storeVars, sessionVars, ownerVars>>
  BY DEF Discarded
<1>2. queue' \in Seq(Mutations) /\ Queued' /\ \A m : Pending(m)' <=> Pending(m)
  <2>1. \A b \in Attempts : pc[b] = "recording" => pc'[b] = "recording"
    BY <1>1 DEF EndAttempt, TypeOK
  <2>2. \A m \in Mutations : Founded(m) => Founded(m)'
    BY <1>1, <2>1 DEF Founded, sessionVars, ownerVars
  <2> QED BY <1>1, <2>2, QueueKept DEF storeVars
<1>3. TypeOK'
  BY <1>1, <1>2 DEF TypeOK, Mutations, EndAttempt, storeVars, sessionVars, ownerVars
<1>4. Placed' /\ TornDown' /\ AgentsAreRegistered'
  BY <1>1 DEF TypeOK, Placed, TornDown, AgentsAreRegistered, EndAttempt, sessionVars, ownerVars
<1>5. Bounded' /\ Sealed'
  BY <1>1 DEF TypeOK, Bounded, Sealed, EndAttempt, storeVars, sessionVars, ownerVars
<1>6. Firsts'
  BY <1>1 DEF TypeOK, Firsts, EndAttempt, storeVars, sessionVars, ownerVars
<1>7. Tells'
  BY <1>1, <1>2 DEF TypeOK, Tells, Told, CurrentLive, EndAttempt, storeVars, sessionVars, ownerVars
<1> QED BY <1>2, <1>3, <1>4, <1>5, <1>6, <1>7

\* The record is durable, and the session gets its bridge.
LEMMA PublishKeeps ==
  ASSUME IInv, NEW a \in Attempts, Publish(a)
  PROVE  IInv'
<1>0. USE DEF IInv, Nothing, NoRecord, Past, Over
<1> DEFINE m == Mutation("status", a, "active")
<1>1. /\ pc[a] = "recorded"
      /\ UNCHANGED <<rec, disk, live, term, agent, delivery, teardown, ownerVars>>
      /\ a \notin published /\ status[a] # "finished"
      /\ EndAttempt(a, "done") \/ EndAttempt(a, "failed")
  BY DEF Publish, Placed
<1>2. \/ UNCHANGED <<published, status, queue>>
      \/ published' = published \cup {a} /\ UNCHANGED <<status, queue>>
      \/ /\ published' = published \cup {a} /\ status[a] # "cancelled" /\ queue' = Append(queue, m)
         /\ status' = [status EXCEPT ![a] = "active"]
  BY DEF Publish
<1>3. \A n \in Mutations : Founded(n) => Founded(n)'
  <2>1. \A b \in Attempts : /\ pc[b] = "recording" => b # a /\ pc'[b] = "recording"
                            /\ b # a => status'[b] = status[b]
    BY <1>1, <1>2 DEF EndAttempt, TypeOK
  <2>2. published \subseteq published' /\ a \notin published /\ published \subseteq Attempts
    BY <1>1, <1>2 DEF TypeOK
  <2>3. UNCHANGED <<cancel, closing>>
    BY <1>1 DEF ownerVars
  <2>4. ASSUME NEW n \in Mutations, Founded(n) PROVE Founded(n)'
    <3>1. CASE n.kind = "init"
      BY <2>1, <2>4, <3>1 DEF Founded
    <3>2. CASE n.kind \in {"status", "finish"}
      BY <2>1, <2>2, <2>4, <3>2 DEF Founded
    <3>3. CASE n.kind \notin {"init", "status", "finish"}
      BY <2>3, <2>4, <3>3 DEF Founded
    <3> QED BY <3>1, <3>2, <3>3
  <2> QED BY <2>4
<1>4. /\ queue' \in Seq(Mutations) /\ Queued' /\ \A n : Pending(n) => Pending(n)'
  <2>1. CASE queue' = queue
    BY <1>3, <2>1, QueueKept
  <2>2. CASE published' = published \cup {a} /\ queue' = Append(queue, m)
    <3>1. m \in Mutations /\ m.kind = "status" /\ m.by = a /\ m.to = "active"
      BY DEF Mutations, Mutation, Statuses
    <3>2. Founded(m)' /\ \A n \in Mutations : ~Rivals(m, n)
      BY <2>2, <3>1 DEF Founded, Rivals, Terminal
    <3> HIDE DEF m
    <3> QED BY <1>3, <2>2, <3>1, <3>2, QueueGrows
  <2> QED BY <1>2, <2>1, <2>2
<1>5. TypeOK'
  <2>1. status' \in [Attempts -> Statuses] /\ published' \subseteq Attempts
    <3>1. status \in [Attempts -> Statuses] /\ published \subseteq Attempts /\ "active" \in Statuses
      BY DEF TypeOK, Statuses
    <3> QED BY <1>2, <3>1
  <2> QED BY <1>1, <1>4, <2>1 DEF TypeOK, Mutations, EndAttempt, ownerVars
<1>6. Placed' /\ TornDown' /\ AgentsAreRegistered'
  BY <1>1, <1>2 DEF TypeOK, Placed, TornDown, AgentsAreRegistered, EndAttempt, ownerVars
<1>7. Bounded' /\ Sealed'
  BY <1>1 DEF TypeOK, Bounded, Sealed, EndAttempt, ownerVars
<1>8. Firsts'
  BY <1>1 DEF TypeOK, Firsts, EndAttempt, ownerVars
<1>9. Tells'
  BY <1>1, <1>2, <1>4 DEF TypeOK, Tells, Told, CurrentLive, Terminal, EndAttempt, ownerVars
<1> QED BY <1>4, <1>5, <1>6, <1>7, <1>8, <1>9

-----------------------------------------------------------------------------
(* What happens to a registered session *)

\* A registered session that has not ended changes its status, to any but
\* "finished"; its record follows if it has a bridge.
LEMMA TransitionKeeps ==
  ASSUME IInv, NEW a \in Attempts, NEW s \in Statuses \ {"finished"},
         live = a, ~Terminal(status[a]), Transition(a, s),
         UNCHANGED <<rec, disk, attemptVars, live, term, published, agent, delivery,
                     teardown, ownerVars>>
  PROVE  IInv'
<1>0. USE DEF IInv, Nothing, NoRecord, Past, Over
<1> DEFINE m == Mutation("status", a, s)
<1>1. /\ status' = [status EXCEPT ![a] = s]
      /\ \/ a \notin published /\ queue' = queue
         \/ a \in published /\ queue' = Append(queue, m)
  BY DEF Transition
<1>2. m \in Mutations /\ m.kind = "status" /\ m.by = a /\ m.to = s
  BY DEF Mutations, Mutation
<1> HIDE DEF m
<1>3. \A n \in Mutations : Founded(n) => Founded(n)'
  <2>1. \A b \in Attempts \ {a} : status'[b] = status[b]
    BY <1>1 DEF TypeOK
  <2>2. status[a] # "finished" /\ published \subseteq Attempts
    BY DEF Terminal, TypeOK
  <2> QED BY <2>1, <2>2 DEF Founded, attemptVars, ownerVars
<1>4. /\ queue' \in Seq(Mutations) /\ Queued' /\ \A n : Pending(n) => Pending(n)'
  <2>1. CASE queue' = queue
    BY <1>3, <2>1, QueueKept
  <2>2. CASE a \in published /\ queue' = Append(queue, m)
    <3>1. Founded(m)' /\ \A n \in Mutations : ~Rivals(m, n)
      BY <1>1, <1>2, <2>2 DEF Founded, Rivals, TypeOK
    <3> QED BY <1>2, <1>3, <2>2, <3>1, QueueGrows
  <2> QED BY <1>1, <2>1, <2>2
<1>5. TypeOK'
  <2>1. status' \in [Attempts -> Statuses]
    BY <1>1 DEF TypeOK
  <2> QED BY <1>4, <2>1 DEF TypeOK, Mutations, attemptVars, ownerVars
<1>6. Placed' /\ TornDown' /\ AgentsAreRegistered'
  BY <1>1 DEF TypeOK, Placed, TornDown, AgentsAreRegistered, attemptVars, ownerVars
<1>7. Bounded' /\ Sealed' /\ Firsts'
  BY DEF TypeOK, Bounded, Sealed, Firsts, attemptVars, ownerVars
<1>8. Tells'
  BY <1>1, <1>4 DEF TypeOK, Tells, Told, CurrentLive, attemptVars, ownerVars
<1> QED BY <1>4, <1>5, <1>6, <1>7, <1>8

\* A message, a failed turn and the /cancel command are such changes.
LEMMA SessionEventsKeep ==
  ASSUME IInv, NEW a \in Attempts, MessageActivates(a) \/ TurnFails(a) \/ CommandCancels(a)
  PROVE  IInv'
<1>1. /\ live = a /\ ~Terminal(status[a])
      /\ Transition(a, "active") \/ Transition(a, "error") \/ Transition(a, "cancelled")
      /\ UNCHANGED <<rec, disk, attemptVars, live, term, published, agent, delivery,
                     teardown, ownerVars>>
  BY DEF MessageActivates, TurnFails, CommandCancels, CurrentLive, Terminal, Running
<1> QED BY <1>1, TransitionKeeps DEF Statuses

\* The agent completes, and two mutations are queued.
LEMMA FinishKeeps ==
  ASSUME IInv, NEW a \in Attempts, Finish(a)
  PROVE  IInv'
<1>0. USE DEF IInv, Nothing, NoRecord, Past, Over
<1> DEFINE m == Mutation("status", a, "finished")
           f == Mutation("finish", a, "finished")
<1>1. /\ CurrentLive(a) /\ a \in published /\ status[a] = "active"
      /\ status' = [status EXCEPT ![a] = "finished"]
      /\ delivery' = [delivery EXCEPT ![a] = "persisting"]
      /\ queue' = queue \o <<m, f>>
      /\ UNCHANGED <<rec, disk, attemptVars, live, term, published, agent, teardown, ownerVars>>
  BY DEF Finish
<1>2. /\ m \in Mutations /\ m.kind = "status" /\ m.by = a /\ m.to = "finished"
      /\ f \in Mutations /\ f.kind = "finish" /\ f.by = a /\ f.to = "finished"
  BY DEF Mutations, Mutation, Statuses
<1> HIDE DEF m, f
<1>3. /\ Founded(m)' /\ Founded(f)'
      /\ \A n \in Mutations : Founded(n) => Founded(n)'
      /\ \A n : ~Rivals(m, n) /\ ~Rivals(f, n) /\ ~Rivals(n, m) /\ ~Rivals(n, f)
  <2>1. \A b \in Attempts \ {a} : status'[b] = status[b]
    BY <1>1 DEF TypeOK
  <2>2. status'[a] = "finished" /\ status[a] = "active" /\ published \subseteq Attempts
    BY <1>1 DEF TypeOK
  <2> QED BY <1>1, <1>2, <2>1, <2>2 DEF Founded, Rivals, Terminal, attemptVars, ownerVars
<1>4. PICK k \in Nat :
        /\ queue' \in Seq(Mutations) /\ Entries' = Entries \cup {k, k + 1} /\ k # k + 1
        /\ queue'[k] = m /\ queue'[k + 1] = f /\ k \notin Entries /\ k + 1 \notin Entries
        /\ \A i \in Entries : queue'[i] = queue[i]
  <2> DEFINE q == Len(queue) + 1
  <2>1. queue \in Seq(Mutations) /\ Len(queue) \in Nat /\ <<m, f>> \in Seq(Mutations)
    BY <1>2, Items
  <2>2. /\ queue' \in Seq(Mutations) /\ Len(queue') = Len(queue) + 2
        /\ queue'[q] = m /\ queue'[q + 1] = f
        /\ \A i \in 1 .. Len(queue) : queue'[i] = queue[i]
    BY <1>1, <2>1
  <2>3. /\ q \in Nat /\ q # q + 1 /\ q \notin Entries /\ q + 1 \notin Entries
        /\ 1 .. Len(queue) + 2 = (1 .. Len(queue)) \cup {q, q + 1}
    BY <2>1 DEF Entries
  <2>4. Entries' = Entries \cup {q, q + 1}
    BY <2>2, <2>3 DEF Entries
  <2> HIDE DEF q
  <2> QED BY <2>2, <2>3, <2>4 DEF Entries
<1>5. \A i \in Entries : Founded(queue[i]) /\ queue[i] \in Mutations
  BY Items DEF Queued
<1>6. \A i \in Entries' : Founded(queue[i])'
  <2> SUFFICES ASSUME NEW i \in Entries' PROVE Founded(queue[i])'
    OBVIOUS
  <2>1. CASE i \in Entries
    <3> DEFINE n == queue[i]
    <3>1. n \in Mutations /\ Founded(n) /\ queue'[i] = n
      BY <1>4, <1>5, <2>1
    <3> QED BY <1>3, <3>1 DEF Founded
  <2>2. CASE i \in {k, k + 1}
    BY <1>3, <1>4, <2>2 DEF Founded
  <2> QED BY <1>4, <2>1, <2>2
<1>7. \A i, j \in Entries' : Rivals(queue[i], queue[j])' => i = j
  <2> SUFFICES ASSUME NEW i \in Entries', NEW j \in Entries', Rivals(queue'[i], queue'[j])
               PROVE  i = j
    BY DEF Rivals
  <2>1. i \in Entries /\ j \in Entries
    BY <1>3, <1>4
  <2> QED BY <1>4, <2>1 DEF Queued
<1>8. /\ queue' \in Seq(Mutations) /\ Queued' /\ Pending(m)'
      /\ \A n : Pending(n) => Pending(n)'
  BY <1>4, <1>6, <1>7 DEF Queued, Pending
<1>9. TypeOK'
  <2>1. status' \in [Attempts -> Statuses] /\ "finished" \in Statuses
    BY <1>1 DEF TypeOK, Statuses
  <2> QED BY <1>1, <1>8, <2>1 DEF TypeOK, Mutations, attemptVars, ownerVars
<1>10. Placed' /\ TornDown' /\ AgentsAreRegistered'
  BY <1>1 DEF TypeOK, Placed, TornDown, AgentsAreRegistered, attemptVars, ownerVars
<1>11. Bounded' /\ Sealed' /\ Firsts'
  BY <1>1 DEF TypeOK, Bounded, Sealed, Firsts, attemptVars, ownerVars
<1>12. Tells'
  <2>1. \A b \in Attempts : live = b => b = a
    BY <1>1 DEF CurrentLive
  <2>2. status'[a] = "finished" /\ Pending(Mutation("status", a, "finished"))'
    BY <1>1, <1>8 DEF TypeOK, m
  <2> QED BY <1>1, <2>1, <2>2 DEF Tells, Told, CurrentLive, Terminal
<1> QED BY <1>8, <1>9, <1>10, <1>11, <1>12

\* A teardown that is owned, and none.
LEMMA Teardowns ==
  ASSUME NEW a \in Attempts \cup {NoOne}, NEW b \in BOOLEAN
  PROVE  /\ [of |-> a, failed |-> b] \in [of : Attempts \cup {NoOne}, failed : BOOLEAN]
         /\ NoTeardown \in [of : Attempts \cup {NoOne}, failed : BOOLEAN]
         /\ [of |-> a, failed |-> b].of = a /\ NoTeardown.of = NoOne
BY DEF NoTeardown

\* What startSessionTeardown() does to a session and to its agent.
LEMMA TearsDown ==
  ASSUME TypeOK, TornDown, AgentsAreRegistered, Placed, NEW a \in Attempts, Past(a),
         NEW r \in BOOLEAN, StartTeardown(a, r), UNCHANGED closing
  PROVE  /\ live' \in {live, NoOne} /\ term \subseteq term' /\ term' \subseteq Attempts
         /\ agent' \in [Attempts -> {"none", "starting", "live", "dying", "stuck", "dead"}]
         /\ teardown' \in [of : Attempts \cup {NoOne}, failed : BOOLEAN]
         /\ \A b \in Attempts : teardown'.of = b => Past(b)
         /\ TornDown' /\ AgentsAreRegistered'
<1>1. CASE teardown.of # NoOne /\ ~(teardown.of = a /\ teardown.failed)
  <2>1. /\ UNCHANGED <<term, agent, teardown>>
        /\ live' = live \/ (teardown.of = a /\ live = a /\ live' = NoOne)
    BY <1>1 DEF StartTeardown
  <2> QED BY <1>1, <2>1 DEF TypeOK, TornDown, AgentsAreRegistered, Placed
<1>2. CASE ~(teardown.of # NoOne /\ ~(teardown.of = a /\ teardown.failed))
  <2>1. /\ term' = term \cup {a} /\ agent' = Destroying(a)
        /\ live' = live \/ live' = NoOne
        /\ live' = live => ~(live = a /\ agent[a] = "dead")
        /\ live' # live => live = a
        /\ teardown' = NoTeardown \/ teardown' = [of |-> a, failed |-> FALSE]
    BY <1>2 DEF StartTeardown
  <2>2. /\ agent' \in [Attempts -> {"none", "starting", "live", "dying", "stuck", "dead"}]
        /\ agent'[a] # "live" /\ \A b \in Attempts \ {a} : agent'[b] = agent[b]
    BY <2>1 DEF Destroying, TypeOK
  <2>3. /\ teardown' \in [of : Attempts \cup {NoOne}, failed : BOOLEAN]
        /\ teardown'.of \in {a, NoOne}
    BY <2>1, Teardowns
  <2> QED BY <2>1, <2>2, <2>3 DEF TypeOK, TornDown, AgentsAreRegistered
<1> QED BY <1>1, <1>2

\* The delivery of a completion ends with the session's teardown.
LEMMA DeliveredKeeps ==
  ASSUME IInv, NEW a \in Attempts, Delivered(a)
  PROVE  IInv'
<1>0. USE DEF IInv, Nothing, NoRecord, Past, Over
<1>1. /\ delivery' = [delivery EXCEPT ![a] = "done"]
      /\ UNCHANGED <<storeVars, attemptVars, status, published, ownerVars>>
  BY DEF Delivered
<1>2. /\ live' \in {live, NoOne} /\ term \subseteq term' /\ term' \subseteq Attempts
      /\ agent' \in [Attempts -> {"none", "starting", "live", "dying", "stuck", "dead"}]
      /\ teardown' \in [of : Attempts \cup {NoOne}, failed : BOOLEAN]
      /\ \A b \in Attempts : teardown'.of = b => Past(b)
      /\ TornDown' /\ AgentsAreRegistered'
  <2>1. CASE live = a \/ teardown.of = a
    <3>1. Past(a) /\ StartTeardown(a, TRUE) /\ UNCHANGED closing
      BY <1>1, <2>1 DEF Delivered, Placed, ownerVars
    <3> QED BY <3>1, TearsDown
  <2>2. CASE ~(live = a \/ teardown.of = a)
    <3>1. UNCHANGED <<live, term, agent, teardown, closing>>
      BY <1>1, <2>2 DEF Delivered, ownerVars
    <3> QED BY <3>1 DEF TypeOK, Placed, TornDown, AgentsAreRegistered
  <2> QED BY <2>1, <2>2
<1>3. queue' \in Seq(Mutations) /\ Queued' /\ \A m : Pending(m)' <=> Pending(m)
  <2>1. \A m \in Mutations : Founded(m) => Founded(m)'
    BY <1>1 DEF Founded, attemptVars, ownerVars
  <2> QED BY <1>1, <2>1, QueueKept DEF storeVars
<1>4. TypeOK'
  <2>1. delivery' \in [Attempts -> {"none", "persisting", "delivering", "aborted", "done"}]
    BY <1>1 DEF TypeOK
  <2>2. live' \in Attempts \cup {NoOne} /\ UNCHANGED <<rec, disk, pc, lease, status, published>>
    BY <1>1, <1>2 DEF TypeOK, storeVars, attemptVars
  <2> QED BY <1>1, <1>2, <1>3, <2>1, <2>2 DEF TypeOK, Mutations, ownerVars
<1>5. Placed'
  BY <1>1, <1>2 DEF Placed, attemptVars, ownerVars
<1>6. Bounded' /\ Sealed' /\ Firsts'
  BY <1>1, <1>2 DEF TypeOK, Bounded, Sealed, Firsts, storeVars, attemptVars, ownerVars
<1>7. Tells'
  BY <1>1, <1>2, <1>3 DEF TypeOK, Tells, Told, CurrentLive, storeVars, attemptVars, ownerVars
<1> QED BY <1>2, <1>3, <1>4, <1>5, <1>6, <1>7

\* An agent process has ended, or could not be.
LEMMA DestroySettlesKeeps ==
  ASSUME IInv, NEW a \in Attempts, NEW ok \in BOOLEAN, DestroySettles(a, ok)
  PROVE  IInv'
<1>0. USE DEF IInv, Nothing, NoRecord, Past, Over
<1>1. /\ agent[a] = "dying" /\ agent' = [agent EXCEPT ![a] = IF ok THEN "dead" ELSE "stuck"]
      /\ UNCHANGED <<storeVars, attemptVars, status, term, published, delivery, ownerVars>>
      /\ live' \in {live, NoOne} /\ (live' # live => live = a)
      /\ teardown' \in [of : Attempts \cup {NoOne}, failed : BOOLEAN]
      /\ teardown'.of \in {teardown.of, NoOne}
  <2>1. /\ agent[a] = "dying" /\ agent' = [agent EXCEPT ![a] = IF ok THEN "dead" ELSE "stuck"]
        /\ UNCHANGED <<storeVars, attemptVars, status, term, published, delivery, ownerVars>>
        /\ \/ UNCHANGED <<teardown, live>>
           \/ /\ teardown.of = a
              /\ teardown' = NoTeardown \/ teardown' = [of |-> a, failed |-> TRUE]
              /\ live' = live \/ (live = a /\ live' = NoOne)
    BY DEF DestroySettles
  <2>2. teardown \in [of : Attempts \cup {NoOne}, failed : BOOLEAN]
    BY DEF TypeOK
  <2>3. /\ [of |-> a, failed |-> TRUE] \in [of : Attempts \cup {NoOne}, failed : BOOLEAN]
        /\ NoTeardown \in [of : Attempts \cup {NoOne}, failed : BOOLEAN]
        /\ [of |-> a, failed |-> TRUE].of = a /\ NoTeardown.of = NoOne
    BY Teardowns
  <2>4. CASE UNCHANGED <<teardown, live>>
    BY <2>1, <2>2, <2>4
  <2>5. CASE teardown' = NoTeardown
    BY <2>1, <2>3, <2>5
  <2>6. CASE teardown.of = a /\ teardown' = [of |-> a, failed |-> TRUE]
    BY <2>1, <2>3, <2>6
  <2> QED BY <2>1, <2>4, <2>5, <2>6
<1>2. /\ agent' \in [Attempts -> {"none", "starting", "live", "dying", "stuck", "dead"}]
      /\ agent'[a] # "live" /\ \A b \in Attempts \ {a} : agent'[b] = agent[b]
  BY <1>1 DEF TypeOK
<1>3. queue' \in Seq(Mutations) /\ Queued' /\ \A m : Pending(m)' <=> Pending(m)
  <2>1. \A m \in Mutations : Founded(m) => Founded(m)'
    BY <1>1 DEF Founded, attemptVars, ownerVars
  <2> QED BY <1>1, <2>1, QueueKept DEF storeVars
<1>4. TypeOK'
  BY <1>1, <1>2, <1>3 DEF TypeOK, Mutations, storeVars, attemptVars, ownerVars
<1>5. Placed' /\ TornDown' /\ AgentsAreRegistered'
  BY <1>1, <1>2 DEF TypeOK, Placed, TornDown, AgentsAreRegistered, attemptVars, ownerVars
<1>6. Bounded' /\ Sealed' /\ Firsts'
  BY <1>1 DEF TypeOK, Bounded, Sealed, Firsts, storeVars, attemptVars, ownerVars
<1>7. Tells'
  BY <1>1, <1>3 DEF TypeOK, Tells, Told, CurrentLive, storeVars, attemptVars, ownerVars
<1> QED BY <1>3, <1>4, <1>5, <1>6, <1>7

-----------------------------------------------------------------------------
(* The serialized mutations *)

\* A mutation that moves no attempt and no session leaves the others as they are.
LEMMA Runs ==
  ASSUME TypeOK, Queued, NEW k, Dequeue(k), UNCHANGED <<pc, status, published, cancel, closing>>
  PROVE  /\ queue' \in Seq(Mutations) /\ Queued'
         /\ Head(queue) \in Mutations /\ Head(queue).kind = k /\ Founded(Head(queue))
         /\ \A n : Pending(n) /\ n # Head(queue) => Pending(n)'
<1>1. \A n \in Mutations : Founded(n) => Founded(n)'
  BY DEF Founded
<1> QED BY <1>1, QueueShrinks

\* A terminal status stays; nothing else comes of a merge than the one or the other.
LEMMA Merges ==
  ASSUME NEW s
  PROVE  /\ Merge(s) \in {rec, s} /\ (Terminal(rec) => Merge(s) = rec)
         /\ (~Terminal(rec) => Merge(s) = s)
BY DEF Merge

\* A status patch reaches the record for the session that is live.
LEMMA MutateStatusKeeps ==
  ASSUME IInv, MutateStatus
  PROVE  IInv'
<1>0. USE DEF IInv, Nothing, NoRecord
<1> DEFINE h == Head(queue)
           a == h.by
<1>1. /\ Dequeue("status") /\ UNCHANGED <<disk, attemptVars, sessionVars, ownerVars>>
      /\ UNCHANGED <<pc, lease, live, status, term, published, agent, delivery, teardown, cancel,
                     removal, closing, created, acked>>
      /\ \/ rec' = rec /\ (~Skipped => rec = NoRecord)
         \/ ~Skipped /\ rec # NoRecord /\ rec' = Merge(h.to)
  BY DEF MutateStatus, attemptVars, sessionVars, ownerVars
<1>2. /\ queue' \in Seq(Mutations) /\ Queued' /\ h \in Mutations /\ h.kind = "status"
      /\ Founded(h) /\ \A n : Pending(n) /\ n # h => Pending(n)'
  BY <1>1, Runs
<1>3. /\ a \in published /\ a \in Attempts /\ (Terminal(h.to) => status[a] = h.to)
      /\ ~Skipped <=> closing # "complete" /\ CurrentLive(a)
  BY <1>2 DEF Founded, TypeOK, Skipped, Actor
<1>4. rec' \in Statuses \cup {NoRecord}
  BY <1>1, <1>2, Merges DEF TypeOK, Mutations
<1>5. TypeOK'
  BY <1>1, <1>2, <1>4 DEF TypeOK, Mutations
<1>6. Placed' /\ TornDown' /\ AgentsAreRegistered' /\ Bounded'
  BY <1>1 DEF TypeOK, Placed, TornDown, AgentsAreRegistered, Bounded, Past
<1>7. Firsts' /\ Sealed'
  BY <1>1, <1>3 DEF TypeOK, Firsts, Sealed, CurrentLive
<1>8. Tells'
  <2>1. ASSUME NEW b \in Attempts, CurrentLive(b), b \in published \/ pc[b] = "recorded"
        PROVE  /\ ~Terminal(status[b]) => ~Terminal(rec')
               /\ status[b] = "finished" /\ rec' # NoRecord =>
                    Terminal(rec') \/ Pending(Mutation("status", b, "finished"))'
    <3>1. CASE Skipped
      <4>1. rec' = rec /\ Mutation("status", b, "finished") # h
        BY <1>1, <1>3, <2>1, <3>1 DEF Mutation, CurrentLive, Bounded
      <4> QED BY <1>2, <2>1, <4>1 DEF Tells, Told
    <3>2. CASE ~Skipped
      <4>1. b = a /\ Told(a)
        BY <1>3, <2>1, <3>2 DEF CurrentLive, Tells
      <4>2. CASE rec = NoRecord
        BY <1>1, <3>2, <4>2 DEF Terminal
      <4>3. CASE Terminal(rec)
        BY <1>1, <2>1, <4>1, <4>3, Merges DEF Told
      <4>4. CASE rec # NoRecord /\ ~Terminal(rec)
        <5>1. rec' = h.to
          BY <1>1, <3>2, <4>4, Merges
        <5>2. CASE Mutation("status", b, "finished") = h
          BY <1>3, <4>1, <5>1, <5>2 DEF Mutation, Terminal
        <5>3. CASE Mutation("status", b, "finished") # h
          BY <1>2, <1>3, <2>1, <4>1, <4>4, <5>1, <5>3 DEF Told
        <5> QED BY <5>2, <5>3
      <4> QED BY <4>2, <4>3, <4>4
    <3> QED BY <3>1, <3>2
  <2>2. disk = NoRecord => rec' = NoRecord
    BY <1>1 DEF Tells
  <2>3. \A b \in Attempts : Told(b) => Told(b)'
    BY <1>1, <2>1 DEF Told, CurrentLive
  <2> QED BY <1>1, <2>2, <2>3 DEF Tells
<1> QED BY <1>2, <1>5, <1>6, <1>7, <1>8

\* The immediate patch of a completion.
LEMMA MutateFinishKeeps ==
  ASSUME IInv, NEW ok \in BOOLEAN, MutateFinish(ok)
  PROVE  IInv'
<1>0. USE DEF IInv, Nothing, NoRecord
<1> DEFINE h == Head(queue)
           a == h.by
<1>1. /\ Dequeue("finish")
      /\ UNCHANGED <<pc, lease, live, status, term, published, agent, teardown, cancel,
                     removal, closing, created, acked>>
      /\ \/ UNCHANGED <<rec, disk>>
         \/ ~Skipped /\ disk' = rec' /\ rec' = IF rec = NoRecord THEN rec ELSE Merge("finished")
  BY DEF MutateFinish, SaveNow, attemptVars, ownerVars
<1>2. /\ queue' \in Seq(Mutations) /\ Queued' /\ h \in Mutations /\ h.kind = "finish"
      /\ Founded(h) /\ \A n : Pending(n) /\ n # h => Pending(n)'
  BY <1>1, Runs
<1>3. /\ a \in published /\ a \in Attempts /\ status[a] = "finished"
      /\ ~Skipped => closing # "complete" /\ CurrentLive(a)
  BY <1>2 DEF Founded, TypeOK, Skipped, Actor
<1>4. /\ rec' \in Statuses \cup {NoRecord} /\ disk' \in Statuses \cup {NoRecord}
      /\ \/ UNCHANGED <<rec, disk>>
         \/ ~Skipped /\ disk' = rec' /\ (rec' # NoRecord => Terminal(rec'))
  <2>1. CASE UNCHANGED <<rec, disk>>
    BY <2>1 DEF TypeOK
  <2>2. CASE ~Skipped /\ disk' = rec' /\ rec' = IF rec = NoRecord THEN rec ELSE Merge("finished")
    <3>1. rec \in Statuses \cup {NoRecord} /\ "finished" \in Statuses /\ Terminal("finished")
      BY DEF TypeOK, Statuses, Terminal
    <3>2. rec' = NoRecord \/ (rec' \in {rec, "finished"} /\ Terminal(rec'))
      BY <2>2, <3>1 DEF Merge
    <3> QED BY <2>2, <3>1, <3>2
  <2> QED BY <1>1, <2>1, <2>2
<1>5. TypeOK'
  <2>1. delivery' \in [Attempts -> {"none", "persisting", "delivering", "aborted", "done"}]
    <3>1. CASE Skipped
      BY <3>1 DEF MutateFinish, TypeOK
    <3>2. CASE ~Skipped
      BY <3>2 DEF MutateFinish, TypeOK
    <3> QED BY <3>1, <3>2
  <2> QED BY <1>1, <1>2, <1>4, <2>1 DEF TypeOK, Mutations
<1>6. Placed' /\ TornDown' /\ AgentsAreRegistered' /\ Bounded'
  BY <1>1 DEF TypeOK, Placed, TornDown, AgentsAreRegistered, Bounded, Past
<1>7. Firsts' /\ Sealed'
  BY <1>1, <1>3 DEF TypeOK, Firsts, Sealed, CurrentLive
<1>8. Tells'
  <2>1. ASSUME NEW b \in Attempts, CurrentLive(b), b \in published \/ pc[b] = "recorded"
        PROVE  /\ ~Terminal(status[b]) => ~Terminal(rec') /\ ~Terminal(disk')
               /\ status[b] = "finished" /\ rec' # NoRecord =>
                    Terminal(rec') \/ Pending(Mutation("status", b, "finished"))'
    <3>1. CASE UNCHANGED <<rec, disk>>
      <4>1. Mutation("status", b, "finished") # h
        BY <1>2 DEF Mutation
      <4> QED BY <1>2, <2>1, <3>1, <4>1 DEF Tells, Told
    <3>2. CASE ~Skipped /\ disk' = rec' /\ (rec' # NoRecord => Terminal(rec'))
      <4>1. b = a
        BY <1>3, <2>1, <3>2 DEF CurrentLive
      <4> QED BY <1>3, <3>2, <4>1 DEF Terminal
    <3> QED BY <1>4, <3>1, <3>2
  <2>2. disk' = NoRecord => rec' = NoRecord
    BY <1>1 DEF Tells
  <2>3. \A b \in Attempts : Told(b) => Told(b)'
    BY <1>1, <2>1 DEF Told, CurrentLive
  <2> QED BY <1>1, <2>2, <2>3 DEF Tells
<1> QED BY <1>2, <1>5, <1>6, <1>7, <1>8

\* The initial patch is written, skipped, or refused, which discards its session.
LEMMA MutateInitKeeps ==
  ASSUME IInv, NEW ok \in BOOLEAN, MutateInit(ok)
  PROVE  IInv'
<1>0. USE DEF IInv, Nothing, NoRecord, Past, Over
<1>1. PICK h \in Mutations :
        /\ h = Head(queue) /\ h.kind = "init" /\ h.by \in Attempts /\ pc[h.by] = "recording"
        /\ Terminal(h.to) => status[h.by] = h.to
  <2>1. Dequeue("init") /\ 1 \in Entries /\ Head(queue) = queue[1] /\ queue[1] \in Mutations
    BY Dequeued DEF MutateInit
  <2>2. Founded(queue[1]) /\ queue[1].kind = "init"
    BY <2>1 DEF Queued, Dequeue
  <2> QED BY <2>1, <2>2 DEF Founded
<1> DEFINE a == h.by
           s == h.to
           moves(stage) == pc' = [pc EXCEPT ![a] = stage]
           saved == closing # "complete" /\ CurrentLive(a) /\ rec' = disk'
                    /\ \/ rec' = s
                       \/ lease[a] = "none" /\ rec' \in {rec, s} /\ (~Terminal(rec) => rec' = s)
<1>2. UNCHANGED <<lease, status, published, delivery, teardown, cancel, removal, closing,
                  created, acked>>
  BY DEF MutateInit, ownerVars
<1>3. \/ /\ moves("recorded") /\ UNCHANGED <<live, term, agent>>
         /\ saved \/ (UNCHANGED <<rec, disk>> /\ (closing = "complete" \/ ~CurrentLive(a)))
      \/ moves("discarding") /\ Discard(a) /\ UNCHANGED <<rec, disk>>
  <2>1. CASE closing = "complete" \/ (lease[a] = "none" /\ ~CurrentLive(a))
    BY <1>1, <2>1 DEF MutateInit, Actor
  <2>2. CASE ~(closing = "complete" \/ (lease[a] = "none" /\ ~CurrentLive(a)))
             /\ lease[a] # "none" /\ Superseding(a, s)
    BY <1>1, <2>2 DEF MutateInit, Actor
  <2>3. CASE ~(closing = "complete" \/ (lease[a] = "none" /\ ~CurrentLive(a)))
             /\ ~(lease[a] # "none" /\ Superseding(a, s))
    <3>1. /\ SaveNow(IF lease[a] # "none" /\ rec = "finished" /\ s = "initializing" THEN s
                     ELSE Merge(s), ok)
          /\ IF ok THEN moves("recorded") /\ UNCHANGED <<live, term, agent>>
             ELSE moves("discarding") /\ Discard(a)
      BY <1>1, <2>3 DEF MutateInit, Actor
    <3>2. CASE ~ok
      BY <3>1, <3>2 DEF SaveNow
    <3>3. CASE ok
      <4>1. closing # "complete" /\ CurrentLive(a)
        BY <2>3 DEF Superseding
      <4>2. /\ rec' = disk'
            /\ rec' = IF lease[a] # "none" /\ rec = "finished" /\ s = "initializing" THEN s
                      ELSE Merge(s)
        BY <3>1, <3>3 DEF SaveNow
      <4>3. CASE lease[a] = "none"
        BY <3>1, <3>3, <4>1, <4>2, <4>3, Merges
      <4>4. CASE lease[a] # "none"
        <5>1. Terminal(rec) => s = rec \/ (rec = "finished" /\ s = "initializing")
          BY <2>3, <4>4 DEF Superseding
        <5> QED BY <3>1, <3>3, <4>1, <4>2, <4>4, <5>1, Merges
      <4> QED BY <4>3, <4>4
    <3> QED BY <3>2, <3>3
  <2> QED BY <2>1, <2>2, <2>3
<1>4. /\ live' \in {live, NoOne} /\ term \subseteq term' /\ term' \subseteq Attempts
      /\ agent' \in [Attempts -> {"none", "starting", "live", "dying", "stuck", "dead"}]
      /\ TornDown' /\ AgentsAreRegistered'
      /\ moves("discarding") /\ Discard(a) => live' # a
  <2>1. CASE Discard(a)
    BY <1>1, <1>2, <2>1, Discards
  <2>2. CASE moves("recorded") /\ UNCHANGED <<live, term, agent>>
    <3>1. ~moves("discarding")
      BY <1>1, <2>2 DEF TypeOK
    <3> QED BY <1>2, <2>2, <3>1 DEF TypeOK, TornDown, AgentsAreRegistered
  <2> QED BY <1>3, <2>1, <2>2
<1>5. /\ pc' \in [Attempts -> {"idle", "spawning", "restoring", "recording", "recorded",
                               "discarding"} \cup Over]
      /\ pc'[a] \in {"recorded", "discarding"} /\ \A b \in Attempts \ {a} : pc'[b] = pc[b]
  BY <1>1, <1>3 DEF TypeOK
<1>6. queue' \in Seq(Mutations) /\ Queued' /\ \A n : Pending(n) /\ n # h => Pending(n)'
  <2>1. Dequeue("init")
    BY DEF MutateInit
  <2>2. \A n \in Mutations : Founded(n) /\ ~Rivals(h, n) => Founded(n)'
    BY <1>1, <1>2, <1>5 DEF Founded, Rivals
  <2> QED BY <1>1, <2>1, <2>2, QueueShrinks
<1>7. rec' \in Statuses \cup {NoRecord} /\ disk' \in Statuses \cup {NoRecord}
  <2>1. s \in Statuses \cup {NoRecord} /\ rec \in Statuses \cup {NoRecord}
        /\ disk \in Statuses \cup {NoRecord}
    BY <1>1 DEF Mutations, TypeOK
  <2> QED BY <1>3, <2>1
<1>8. TypeOK'
  BY <1>2, <1>4, <1>5, <1>6, <1>7 DEF TypeOK, Mutations
<1>9. Placed'
  BY <1>1, <1>2, <1>4, <1>5 DEF TypeOK, Placed
<1>10. Bounded'
  BY <1>2, <1>4 DEF TypeOK, Bounded
<1>11. Sealed'
  <2>1. acked \/ (cancel.found /\ cancel.final = "cancelled") => ~CurrentLive(a)
    BY <1>1 DEF Sealed, CurrentLive
  <2> QED BY <1>2, <1>3, <1>4, <2>1 DEF Sealed
<1>12. Firsts'
  <2>1. created' /\ \A b \in Attempts : pc'[b] \in {"spawning", "restoring", "recording"} =>
                                        b # a /\ pc'[b] = pc[b]
    BY <1>1, <1>2, <1>5 DEF Firsts
  <2> QED BY <1>1, <1>2, <2>1 DEF Firsts
<1>13. Tells'
  <2>1. CASE moves("recorded") /\ UNCHANGED <<live, term, agent>> /\ saved
    <3>1. a \notin published /\ status[a] # "finished"
      BY <1>1 DEF Placed
    <3>2. ~Terminal(status[a]) => ~Terminal(rec')
      <4>1. lease[a] = "none" => rec = NoRecord
        BY <1>1 DEF Firsts
      <4>2. ~Terminal(status[a]) => ~Terminal(s)
        BY <1>1
      <4> QED BY <2>1, <4>1, <4>2 DEF Terminal
    <3>3. \A b \in Attempts : CurrentLive(b)' => b = a
      BY <2>1 DEF CurrentLive
    <3>4. Told(a)'
      BY <1>2, <2>1, <3>1, <3>2 DEF Told
    <3> QED BY <2>1, <3>3, <3>4 DEF Tells, Told
  <2>2. CASE \/ /\ moves("recorded") /\ UNCHANGED <<live, term, agent, rec, disk>>
                /\ closing = "complete" \/ ~CurrentLive(a)
             \/ moves("discarding") /\ Discard(a) /\ UNCHANGED <<rec, disk>>
    <3>1. \A b : Mutation("status", b, "finished") # h
      BY <1>1 DEF Mutation
    <3>2. ASSUME NEW b \in Attempts, b # a, Told(b) PROVE Told(b)'
      BY <1>2, <1>4, <1>5, <1>6, <2>2, <3>1, <3>2 DEF Told, CurrentLive
    <3>3. ~CurrentLive(a)'
      <4>1. CASE closing = "complete"
        BY <1>1, <1>4, <4>1 DEF Bounded, CurrentLive
      <4>2. CASE moves("recorded") /\ UNCHANGED <<live, term, agent>> /\ ~CurrentLive(a)
        BY <4>2 DEF CurrentLive
      <4>3. CASE moves("discarding") /\ Discard(a)
        BY <1>4, <4>3 DEF CurrentLive
      <4> QED BY <2>2, <4>1, <4>2, <4>3
    <3> QED BY <2>2, <3>2, <3>3 DEF Tells, Told
  <2> QED BY <1>3, <2>1, <2>2
<1> QED BY <1>4, <1>6, <1>8, <1>9, <1>10, <1>11, <1>12, <1>13

\* The record is removed.
LEMMA MutateRemoveKeeps ==
  ASSUME IInv, MutateRemove
  PROVE  IInv'
<1>0. USE DEF IInv, Nothing, NoRecord, Past
<1>1. /\ Dequeue("remove") /\ rec' = NoRecord /\ removal' = "idle"
      /\ UNCHANGED <<disk, pc, lease, live, status, term, published, agent, delivery, teardown,
                     cancel, closing, created, acked>>
  BY DEF MutateRemove, attemptVars, sessionVars
<1>2. queue' \in Seq(Mutations) /\ Queued'
  BY <1>1, Runs
<1>3. TypeOK'
  BY <1>1, <1>2 DEF TypeOK, Mutations
<1>4. Placed' /\ TornDown' /\ AgentsAreRegistered' /\ Bounded'
  BY <1>1 DEF TypeOK, Placed, TornDown, AgentsAreRegistered, Bounded
<1>5. Firsts' /\ Sealed' /\ Tells'
  BY <1>1 DEF TypeOK, Firsts, Sealed, Tells, Told, CurrentLive, Terminal
<1> QED BY <1>2, <1>3, <1>4, <1>5

\* A patch of a shutdown, which lets an ended record be.
LEMMA MutateShutdownKeeps ==
  ASSUME IInv, MutateShutdown
  PROVE  IInv'
<1>0. USE DEF IInv, Nothing, NoRecord, Past
<1>1. /\ Dequeue("shutdown") /\ rec' \in {rec, "finished"}
      /\ rec = NoRecord \/ Terminal(rec) => rec' = rec
      /\ UNCHANGED <<disk, pc, lease, live, status, term, published, agent, delivery, teardown,
                     cancel, removal, closing, created, acked>>
  BY DEF MutateShutdown, Merge, attemptVars, sessionVars, ownerVars
<1>2. queue' \in Seq(Mutations) /\ Queued' /\ closing # "no"
  BY <1>1, Runs DEF Founded
<1>3. TypeOK'
  BY <1>1, <1>2 DEF TypeOK, Mutations, Statuses
<1>4. Placed' /\ TornDown' /\ AgentsAreRegistered' /\ Bounded'
  BY <1>1 DEF TypeOK, Placed, TornDown, AgentsAreRegistered, Bounded
<1>5. Firsts' /\ Sealed'
  BY <1>1 DEF TypeOK, Firsts, Sealed, Terminal
<1>6. Tells'
  <2>1. \A b \in Attempts : ~CurrentLive(b)'
    BY <1>1, <1>2 DEF Bounded, CurrentLive
  <2> QED BY <1>1, <2>1 DEF Tells, Told
<1> QED BY <1>2, <1>3, <1>4, <1>5, <1>6

\* The working view reaches the disk.
LEMMA FlushTimerKeeps ==
  ASSUME IInv, FlushTimer
  PROVE  IInv'
<1>0. USE DEF IInv, Nothing, NoRecord, Past
<1>1. /\ disk' = rec /\ UNCHANGED <<rec, queue, pc, lease, live, status, term, published, agent,
                                   delivery, teardown, cancel, removal, closing, created, acked>>
  BY DEF FlushTimer, attemptVars, sessionVars, ownerVars
<1>2. queue' \in Seq(Mutations) /\ Queued' /\ \A m : Pending(m)' <=> Pending(m)
  <2>1. \A m \in Mutations : Founded(m) => Founded(m)'
    BY <1>1 DEF Founded
  <2> QED BY <1>1, <2>1, QueueKept
<1>3. TypeOK'
  BY <1>1, <1>2 DEF TypeOK, Mutations
<1>4. Placed' /\ TornDown' /\ AgentsAreRegistered' /\ Bounded'
  BY <1>1 DEF TypeOK, Placed, TornDown, AgentsAreRegistered, Bounded
<1>5. Firsts' /\ Sealed' /\ Tells'
  BY <1>1, <1>2 DEF TypeOK, Firsts, Sealed, Tells, Told, CurrentLive
<1> QED BY <1>2, <1>3, <1>4, <1>5

-----------------------------------------------------------------------------
(* A cancellation *)

\* What a cancellation is when it is queued and when it is over.
LEMMA Cancellations ==
  ASSUME TypeOK
  PROVE  /\ NoCancel.stage = "idle" /\ NoCancel.of = NoOne /\ ~NoCancel.found
         /\ NoCancel \in [stage : {"idle", "queued", "durable", "cleanup"},
                          of : Attempts \cup {NoOne}, joins : BOOLEAN, already : BOOLEAN,
                          final : {"finished", "cancelled"}, found : BOOLEAN]
BY DEF NoCancel

\* A cancellation crosses the synchronous boundary: no lease is left to register
\* with, and the session that is registered is on its way out.
LEMMA BeginCancelKeeps ==
  ASSUME IInv, cancel.stage = "idle", BeginCancel, removal' \in {removal, "cancelling"},
         UNCHANGED <<rec, disk, pc, live, status, published, agent, delivery, teardown,
                     closing, created, acked>>
  PROVE  IInv'
<1>0. USE DEF IInv, Nothing, NoRecord, Past, Over
<1>1. PICK m \in Mutations : /\ m.kind = "cancel" /\ m.by = NoOne
                            /\ queue' = Append(queue, m)
  <2>1. Mutation("cancel", NoOne, "cancelled") \in Mutations
    BY DEF Mutations, Mutation, Statuses
  <2> QED BY <2>1 DEF BeginCancel, Mutation
<1> DEFINE session == IF live # NoOne THEN live ELSE teardown.of
<1>2. /\ session \in Attempts \cup {NoOne} /\ live \in {NoOne, session}
      /\ session = live \/ session = teardown.of
  BY DEF TypeOK
<1>3. /\ cancel'.stage = "queued" /\ cancel'.of = session /\ cancel'.found = FALSE
      /\ lease' = Invalidated /\ term' = term \cup ({session} \ {NoOne})
  BY DEF BeginCancel, CancelBoundary
<1>4. cancel' \in [stage : {"idle", "queued", "durable", "cleanup"},
                   of : Attempts \cup {NoOne}, joins : BOOLEAN, already : BOOLEAN,
                   final : {"finished", "cancelled"}, found : BOOLEAN]
  <2> DEFINE previous == IF Terminal(rec) \/ session = NoOne THEN rec ELSE status[session]
             j == session # NoOne /\ status[session] = "finished" /\ delivery[session] # "none"
             y == Terminal(previous)
             f == IF previous = "finished" THEN "finished" ELSE "cancelled"
  <2>1. cancel' = [stage |-> "queued", of |-> session, found |-> FALSE, joins |-> j,
                   already |-> y, final |-> f]
    BY DEF BeginCancel
  <2>2. j \in BOOLEAN /\ y \in BOOLEAN /\ f \in {"finished", "cancelled"}
    BY DEF Terminal
  <2> HIDE DEF session, previous, j, y, f
  <2> QED BY <1>2, <2>1, <2>2
<1> HIDE DEF session
<1>5. lease' \in [Attempts -> {"none", "current", "void"}]
      /\ \A b \in Attempts : lease'[b] # "current" /\ (lease'[b] = "none" <=> lease[b] = "none")
  BY <1>3 DEF TypeOK, Invalidated
<1>6. queue' \in Seq(Mutations) /\ Queued' /\ \A n : Pending(n) => Pending(n)'
  <2>1. /\ Founded(m)' /\ \A n \in Mutations : Founded(n) => Founded(n)' /\ ~Rivals(m, n)
    BY <1>1, <1>3 DEF Founded, Rivals
  <2> QED BY <1>1, <2>1, QueueGrows
<1>7. TypeOK'
  <2>1. term' \subseteq Attempts /\ removal' \in {"idle", "cancelling", "thread", "queued"}
    BY <1>2, <1>3 DEF TypeOK
  <2> QED BY <1>4, <1>5, <1>6, <2>1 DEF TypeOK, Mutations
<1>8. Placed'
  BY <1>2, <1>3 DEF Placed
<1>9. TornDown' /\ AgentsAreRegistered'
  BY DEF TornDown, AgentsAreRegistered
<1>10. Bounded'
  BY <1>2, <1>3, <1>5 DEF Bounded
<1>11. Firsts'
  BY <1>3, <1>5 DEF Firsts
<1>12. Sealed' /\ Tells'
  BY <1>3, <1>6 DEF Sealed, Tells, Told, CurrentLive
<1> QED BY <1>6, <1>7, <1>8, <1>9, <1>10, <1>11, <1>12

\* A cancellation begins by itself, or for the removal of a record that runs.
LEMMA CancelStartKeeps ==
  ASSUME IInv, CancelStart
  PROVE  IInv'
<1>1. /\ cancel.stage = "idle" /\ BeginCancel /\ removal' = removal
      /\ UNCHANGED <<rec, disk, pc, live, status, published, agent, delivery, teardown,
                     closing, created, acked>>
  BY DEF CancelStart
<1> QED BY <1>1, BeginCancelKeeps

\* A removal begins, with or behind a cancellation, or with the thread.
LEMMA DeleteStartKeeps ==
  ASSUME IInv, DeleteStart
  PROVE  IInv'
<1>1. UNCHANGED <<rec, disk, pc, live, status, published, agent, delivery, teardown,
                  closing, created, acked>>
  BY DEF DeleteStart
<1>2. CASE cancel.stage = "idle" /\ BeginCancel /\ removal' = "cancelling"
  BY <1>1, <1>2, BeginCancelKeeps
<1>3. CASE UNCHANGED <<cancel, lease, term, queue>> /\ removal' \in {"thread", "cancelling"}
  <2>0. USE DEF IInv, Nothing, NoRecord, Past, Over
  <2>1. queue' \in Seq(Mutations) /\ Queued' /\ \A m : Pending(m)' <=> Pending(m)
    <3>1. \A m \in Mutations : Founded(m) => Founded(m)'
      BY <1>1, <1>3 DEF Founded
    <3> QED BY <1>3, <3>1, QueueKept
  <2>2. TypeOK'
    BY <1>1, <1>3, <2>1 DEF TypeOK, Mutations
  <2>3. Placed' /\ TornDown' /\ AgentsAreRegistered' /\ Bounded'
    BY <1>1, <1>3 DEF Placed, TornDown, AgentsAreRegistered, Bounded
  <2>4. Firsts' /\ Sealed' /\ Tells'
    BY <1>1, <1>3, <2>1 DEF Firsts, Sealed, Tells, Told, CurrentLive
  <2> QED BY <2>1, <2>2, <2>3, <2>4
<1> QED BY <1>2, <1>3 DEF DeleteStart

\* The operation settles, and is acknowledged for a cancelled record only if it
\* has sealed it.
LEMMA Settles ==
  ASSUME IInv, NEW ok \in BOOLEAN, EndCancel(ok), cancel.stage # "idle"
  PROVE  /\ cancel' = NoCancel /\ UNCHANGED <<closing, created>>
         /\ acked' \in BOOLEAN /\ (acked' => acked \/ (cancel.found /\ cancel.final = "cancelled"))
         /\ removal' \in {"idle", "cancelling", "thread", "queued"}
<1>1. /\ acked \in BOOLEAN /\ removal \in {"idle", "cancelling", "thread", "queued"}
  BY DEF IInv, TypeOK
<1>2. acked' \in BOOLEAN /\ (acked' => acked \/ (cancel.found /\ cancel.final = "cancelled"))
  BY <1>1 DEF EndCancel
<1> QED BY <1>1, <1>2 DEF EndCancel

\* The terminal record is written, or found, or there is none, or it cannot be.
LEMMA CancelMutationKeeps ==
  ASSUME IInv, NEW ok \in BOOLEAN, CancelMutation(ok)
  PROVE  IInv'
<1>0. USE DEF IInv, Nothing, NoRecord, Past, Over
<1>1. /\ Dequeue("cancel")
      /\ UNCHANGED <<pc, lease, live, status, term, published, agent, delivery, teardown>>
  BY DEF CancelMutation, attemptVars, sessionVars
<1>2. PICK h \in Mutations : h = Head(queue) /\ h.kind = "cancel" /\ h.by = NoOne
                            /\ cancel.stage = "queued"
  <2>1. /\ 1 \in Entries /\ Head(queue) = queue[1] /\ queue[1] \in Mutations
        /\ queue[1].kind = "cancel"
    BY <1>1, Dequeued
  <2>2. Founded(queue[1])
    BY <2>1 DEF Queued
  <2> QED BY <2>1, <2>2 DEF Founded
<1>3. /\ UNCHANGED <<closing, created>>
      /\ \/ /\ UNCHANGED <<rec, disk, removal, acked>>
            /\ cancel' = [cancel EXCEPT !.stage = "durable"]
         \/ UNCHANGED <<rec, disk>> /\ EndCancel(FALSE)
         \/ /\ rec # NoRecord /\ UNCHANGED <<removal, acked>>
            /\ rec' = disk' /\ rec' = IF Terminal(rec) THEN rec ELSE cancel.final
            /\ cancel' = [cancel EXCEPT !.stage = "durable", !.found = TRUE,
                            !.already = @ \/ Terminal(rec),
                            !.final = IF Terminal(rec) THEN rec ELSE @]
  BY DEF CancelMutation, SaveNow, EndCancel
<1>4. /\ acked' \in BOOLEAN /\ removal' \in {"idle", "cancelling", "thread", "queued"}
      /\ acked' => acked \/ (cancel.found /\ cancel.final = "cancelled")
      /\ rec' \in Statuses \cup {NoRecord} /\ disk' \in Statuses \cup {NoRecord}
  <2>1. rec' \in Statuses \cup {NoRecord} /\ disk' \in Statuses \cup {NoRecord}
    <3>1. /\ rec \in Statuses \cup {NoRecord} /\ disk \in Statuses \cup {NoRecord}
          /\ cancel.final \in Statuses
      BY DEF TypeOK, Statuses
    <3> QED BY <1>3, <3>1
  <2>2. CASE EndCancel(FALSE)
    BY <1>2, <2>1, <2>2, Settles
  <2>3. CASE UNCHANGED <<removal, acked>>
    BY <2>1, <2>3 DEF TypeOK
  <2> QED BY <1>3, <2>2, <2>3
<1>5. /\ cancel' \in [stage : {"idle", "queued", "durable", "cleanup"},
                      of : Attempts \cup {NoOne}, joins : BOOLEAN, already : BOOLEAN,
                      final : {"finished", "cancelled"}, found : BOOLEAN]
      /\ cancel'.of \in {cancel.of, NoOne} /\ cancel'.stage \in {"idle", "durable"}
      /\ cancel'.found => cancel'.stage # "idle"
  <2>1. CASE cancel' = [cancel EXCEPT !.stage = "durable"]
    BY <2>1 DEF TypeOK
  <2>2. CASE EndCancel(FALSE)
    BY <2>2, Cancellations DEF EndCancel
  <2>3. CASE cancel' = [cancel EXCEPT !.stage = "durable", !.found = TRUE,
                          !.already = @ \/ Terminal(rec),
                          !.final = IF Terminal(rec) THEN rec ELSE @]
    <3> DEFINE y == cancel.already \/ Terminal(rec)
               f == IF Terminal(rec) THEN rec ELSE cancel.final
    <3>1. y \in BOOLEAN /\ f \in {"finished", "cancelled"}
      BY DEF TypeOK, Terminal
    <3>2. cancel' = [cancel EXCEPT !.stage = "durable", !.found = TRUE, !.already = y, !.final = f]
      BY <2>3
    <3> HIDE DEF y, f
    <3> QED BY <3>1, <3>2 DEF TypeOK
  <2> QED BY <1>3, <2>1, <2>2, <2>3
<1>6. queue' \in Seq(Mutations) /\ Queued'
  <2>1. \A n \in Mutations : Founded(n) /\ ~Rivals(h, n) => Founded(n)'
    BY <1>1, <1>2, <1>3 DEF Founded, Rivals
  <2> QED BY <1>1, <1>2, <2>1, QueueShrinks
<1>7. TypeOK'
  BY <1>1, <1>3, <1>4, <1>5, <1>6 DEF TypeOK, Mutations
<1>8. Placed' /\ TornDown' /\ AgentsAreRegistered'
  BY <1>1, <1>3, <1>5 DEF Placed, TornDown, AgentsAreRegistered
<1>9. Bounded'
  BY <1>1, <1>2, <1>3, <1>4, <1>5 DEF Bounded
<1>10. Firsts'
  <2>1. Nothing => Nothing'
    BY <1>3, <1>4, Cancellations DEF TypeOK, EndCancel
  <2> QED BY <1>1, <1>3, <2>1 DEF Firsts
<1>11. Sealed'
  <2>1. live = NoOne \/ live \in term
    BY <1>2 DEF Bounded
  <2>2. acked' \/ (cancel'.found /\ cancel'.final = "cancelled") =>
          rec' \in {"cancelled", NoRecord} /\ disk' \in {"cancelled", NoRecord}
    <3>1. CASE UNCHANGED <<rec, disk, acked>> /\ cancel' = [cancel EXCEPT !.stage = "durable"]
      BY <3>1 DEF TypeOK, Sealed
    <3>2. CASE UNCHANGED <<rec, disk>> /\ EndCancel(FALSE)
      BY <1>4, <3>2, Cancellations DEF EndCancel, Sealed
    <3>3. CASE /\ rec # NoRecord /\ acked' = acked /\ rec' = disk'
               /\ rec' = IF Terminal(rec) THEN rec ELSE cancel.final
               /\ cancel' = [cancel EXCEPT !.stage = "durable", !.found = TRUE,
                               !.already = @ \/ Terminal(rec),
                               !.final = IF Terminal(rec) THEN rec ELSE @]
      BY <3>3 DEF TypeOK, Sealed, Terminal
    <3> QED BY <1>3, <3>1, <3>2, <3>3
  <2> QED BY <1>1, <2>1, <2>2 DEF Sealed
<1>12. Tells'
  <2>1. \A b \in Attempts : ~CurrentLive(b)'
    BY <1>1, <1>2 DEF Bounded, CurrentLive
  <2> QED BY <1>3, <2>1 DEF Tells, Told
<1> QED BY <1>6, <1>7, <1>8, <1>9, <1>10, <1>11, <1>12

\* The session is marked as cancelled and torn down, behind its delivery; or the
\* operation settles at once.
LEMMA CancelProceedsKeeps ==
  ASSUME IInv, CancelProceeds
  PROVE  IInv'
<1>0. USE DEF IInv, Nothing, NoRecord, Past, Over
<1>1. /\ cancel.stage = "durable"
      /\ UNCHANGED <<rec, disk, queue, pc, lease, published, delivery, closing, created>>
  BY DEF CancelProceeds, storeVars, attemptVars, EndCancel
<1> DEFINE marks == ~cancel.already /\ cancel.final = "cancelled"
<1>2. \/ (EndCancel(TRUE) \/ EndCancel(FALSE)) /\ UNCHANGED <<live, status, term, agent, teardown>>
      \/ /\ cancel.of # NoOne /\ (marks => ~Terminal(status[cancel.of]))
         /\ status' = IF marks THEN [status EXCEPT ![cancel.of] = "cancelled"] ELSE status
         /\ StartTeardown(cancel.of, FALSE) /\ cancel' = [cancel EXCEPT !.stage = "cleanup"]
         /\ UNCHANGED <<removal, acked>>
  BY DEF CancelProceeds
<1> HIDE DEF marks
<1>3. /\ acked' \in BOOLEAN /\ removal' \in {"idle", "cancelling", "thread", "queued"}
      /\ acked' => acked \/ (cancel.found /\ cancel.final = "cancelled")
      /\ cancel' \in [stage : {"idle", "queued", "durable", "cleanup"},
                      of : Attempts \cup {NoOne}, joins : BOOLEAN, already : BOOLEAN,
                      final : {"finished", "cancelled"}, found : BOOLEAN]
      /\ cancel'.of \in {cancel.of, NoOne} /\ cancel'.stage \in {"idle", "cleanup"}
      /\ cancel'.found => cancel'.stage # "idle" /\ cancel.found /\ cancel'.final = cancel.final
  <2>1. CASE EndCancel(TRUE) \/ EndCancel(FALSE)
    BY <1>1, <2>1, Settles, Cancellations
  <2>2. CASE cancel' = [cancel EXCEPT !.stage = "cleanup"] /\ UNCHANGED <<removal, acked>>
    BY <2>2 DEF TypeOK
  <2> QED BY <1>2, <2>1, <2>2
<1>4. /\ status' \in [Attempts -> Statuses]
      /\ \A b \in Attempts : /\ status'[b] # status[b] => ~Terminal(status[b])
                             /\ status'[b] = "finished" => status[b] = "finished"
  <2>1. CASE status' = status
    BY <2>1 DEF TypeOK
  <2>2. CASE /\ marks /\ ~Terminal(status[cancel.of])
             /\ status' = [status EXCEPT ![cancel.of] = "cancelled"]
    <3>1. "cancelled" \in Statuses /\ status \in [Attempts -> Statuses]
      BY DEF Statuses, TypeOK
    <3> QED BY <2>2, <3>1
  <2> QED BY <1>2, <2>1, <2>2
<1>5. /\ live' \in {live, NoOne} /\ term \subseteq term' /\ term' \subseteq Attempts
      /\ agent' \in [Attempts -> {"none", "starting", "live", "dying", "stuck", "dead"}]
      /\ teardown' \in [of : Attempts \cup {NoOne}, failed : BOOLEAN]
      /\ \A b \in Attempts : teardown'.of = b => Past(b)
      /\ TornDown' /\ AgentsAreRegistered'
  <2>1. CASE UNCHANGED <<live, term, agent, teardown>>
    BY <1>1, <2>1 DEF TypeOK, Placed, TornDown, AgentsAreRegistered
  <2>2. CASE cancel.of # NoOne /\ StartTeardown(cancel.of, FALSE)
    <3>1. cancel.of \in Attempts /\ Past(cancel.of)
      BY <2>2 DEF TypeOK, Placed
    <3> QED BY <1>1, <2>2, <3>1, TearsDown
  <2> QED BY <1>2, <2>1, <2>2
<1>6. queue' \in Seq(Mutations) /\ Queued'
  <2>1. \A n \in Mutations : Founded(n) => Founded(n)'
    <3>1. \A b \in published : /\ Terminal(status[b]) => status'[b] = status[b]
      BY <1>4 DEF TypeOK
    <3>2. Terminal("finished") /\ published \subseteq Attempts
      BY DEF Terminal, TypeOK
    <3>3. ASSUME NEW n \in Mutations, Founded(n) PROVE Founded(n)'
      <4>1. CASE n.kind = "init"
        <5>1. Terminal(n.to) => status'[n.by] = n.to
          BY <1>4, <3>3, <4>1 DEF Founded
        <5> QED BY <1>1, <3>3, <4>1, <5>1 DEF Founded
      <4>2. CASE n.kind = "status"
        <5>1. Terminal(n.to) => status'[n.by] = n.to
          BY <3>1, <3>3, <4>2 DEF Founded
        <5> QED BY <1>1, <3>3, <4>2, <5>1 DEF Founded
      <4>3. CASE n.kind = "finish"
        <5>1. status'[n.by] = "finished"
          BY <3>1, <3>2, <3>3, <4>3 DEF Founded
        <5> QED BY <1>1, <3>3, <4>3, <5>1 DEF Founded
      <4>4. CASE n.kind \notin {"init", "status", "finish"}
        BY <1>1, <3>3, <4>4 DEF Founded
      <4> QED BY <4>1, <4>2, <4>3, <4>4
    <3> QED BY <3>3
  <2> QED BY <1>1, <2>1, QueueKept
<1>7. TypeOK'
  BY <1>1, <1>3, <1>4, <1>5, <1>6 DEF TypeOK, Mutations
<1>8. Placed'
  BY <1>1, <1>3, <1>4, <1>5 DEF Placed
<1>9. Bounded'
  BY <1>1, <1>3, <1>5 DEF Bounded
<1>10. Firsts'
  BY <1>1, <1>3 DEF Firsts
<1>11. Sealed'
  BY <1>1, <1>3, <1>5 DEF Sealed
<1>12. Tells'
  <2>1. \A b \in Attempts : ~CurrentLive(b)'
    BY <1>1, <1>5 DEF Bounded, CurrentLive
  <2> QED BY <1>1, <2>1 DEF Tells, Told
<1> QED BY <1>5, <1>6, <1>7, <1>8, <1>9, <1>10, <1>11, <1>12

\* The cancellation returns to its caller.
LEMMA CancelReturnsKeeps ==
  ASSUME IInv, CancelReturns
  PROVE  IInv'
<1>0. USE DEF IInv, Nothing, NoRecord, Past, Over
<1>1. /\ cancel.stage = "cleanup"
      /\ UNCHANGED <<rec, disk, queue, pc, lease, live, status, term, published, agent, delivery,
                     teardown>>
  BY DEF CancelReturns, storeVars, attemptVars, sessionVars
<1>2. /\ cancel' = NoCancel /\ UNCHANGED <<closing, created>>
      /\ acked' \in BOOLEAN /\ (acked' => acked \/ (cancel.found /\ cancel.final = "cancelled"))
      /\ removal' \in {"idle", "cancelling", "thread", "queued"}
  BY <1>1, Settles DEF CancelReturns
<1>3. queue' \in Seq(Mutations) /\ Queued'
  <2>1. \A n \in Mutations : Founded(n) => Founded(n)'
    BY <1>1, <1>2 DEF Founded
  <2> QED BY <1>1, <2>1, QueueKept
<1>4. TypeOK'
  BY <1>1, <1>2, <1>3, Cancellations DEF TypeOK, Mutations
<1>5. Placed' /\ TornDown' /\ AgentsAreRegistered'
  BY <1>1, <1>2, Cancellations DEF Placed, TornDown, AgentsAreRegistered
<1>6. Bounded' /\ Firsts' /\ Sealed'
  BY <1>1, <1>2, Cancellations DEF Bounded, Firsts, Sealed
<1>7. Tells'
  <2>1. \A b \in Attempts : ~CurrentLive(b)'
    BY <1>1 DEF Bounded, CurrentLive
  <2> QED BY <1>1, <2>1 DEF Tells, Told
<1> QED BY <1>3, <1>4, <1>5, <1>6, <1>7

-----------------------------------------------------------------------------
(* Removal, shutdown, restart *)

\* The record's removal is queued.
LEMMA ThreadDeletedKeeps ==
  ASSUME IInv, ThreadDeleted
  PROVE  IInv'
<1>0. USE DEF IInv, Nothing, NoRecord, Past, Over
<1>1. /\ removal' = "queued"
      /\ UNCHANGED <<rec, disk, pc, lease, live, status, term, published, agent, delivery,
                     teardown, cancel, closing, created, acked>>
  BY DEF ThreadDeleted, attemptVars, sessionVars
<1>2. PICK m \in Mutations : m.kind = "remove" /\ queue' = Append(queue, m)
  <2>1. Mutation("remove", NoOne, NoRecord) \in Mutations
    BY DEF Mutations, Mutation
  <2> QED BY <2>1 DEF ThreadDeleted, Mutation
<1>3. queue' \in Seq(Mutations) /\ Queued' /\ \A n : Pending(n) => Pending(n)'
  <2>1. Founded(m)' /\ \A n \in Mutations : (Founded(n) => Founded(n)') /\ ~Rivals(m, n)
    BY <1>1, <1>2 DEF Founded, Rivals
  <2> QED BY <1>2, <2>1, QueueGrows
<1>4. TypeOK'
  BY <1>1, <1>3 DEF TypeOK, Mutations
<1>5. Placed' /\ TornDown' /\ AgentsAreRegistered' /\ Bounded' /\ Firsts' /\ Sealed'
  BY <1>1 DEF Placed, TornDown, AgentsAreRegistered, Bounded, Firsts, Sealed
<1>6. Tells'
  BY <1>1, <1>3 DEF Tells, Told, CurrentLive
<1> QED BY <1>3, <1>4, <1>5, <1>6

\* The manager closes: leases are void, and who is registered is on the way out.
LEMMA ShutdownStartKeeps ==
  ASSUME IInv, ShutdownStart
  PROVE  IInv'
<1>0. USE DEF IInv, Nothing, NoRecord, Past, Over
<1>1. /\ closing = "no" /\ closing' = "closing" /\ lease' = Invalidated
      /\ term' = term \cup ({live} \ {NoOne})
      /\ UNCHANGED <<rec, disk, pc, live, status, published, agent, teardown, cancel, removal,
                     created, acked>>
  BY DEF ShutdownStart
<1>2. lease' \in [Attempts -> {"none", "current", "void"}]
      /\ \A b \in Attempts : lease'[b] # "current" /\ (lease'[b] = "none" <=> lease[b] = "none")
  BY <1>1 DEF TypeOK, Invalidated
<1>3. \A n \in Mutations : Founded(n) => Founded(n)'
  BY <1>1 DEF Founded
<1>4. queue' \in Seq(Mutations) /\ Queued'
  <2>1. CASE queue' = queue
    BY <1>3, <2>1, QueueKept
  <2>2. CASE queue' = Append(queue, Mutation("shutdown", NoOne, "finished"))
    <3>1. PICK m \in Mutations : m.kind = "shutdown" /\ queue' = Append(queue, m)
      <4>1. Mutation("shutdown", NoOne, "finished") \in Mutations
        BY DEF Mutations, Mutation, Statuses
      <4> QED BY <2>2, <4>1 DEF Mutation
    <3>2. Founded(m)' /\ \A n \in Mutations : ~Rivals(m, n)
      BY <1>1, <3>1 DEF Founded, Rivals
    <3> QED BY <1>3, <3>1, <3>2, QueueGrows
  <2> QED BY <2>1, <2>2 DEF ShutdownStart
<1>5. TypeOK'
  <2>1. delivery' \in [Attempts -> {"none", "persisting", "delivering", "aborted", "done"}]
    BY DEF ShutdownStart, TypeOK
  <2>2. term' \subseteq Attempts
    BY <1>1 DEF TypeOK
  <2> QED BY <1>1, <1>2, <1>4, <2>1, <2>2 DEF TypeOK, Mutations
<1>6. Placed' /\ TornDown' /\ AgentsAreRegistered'
  BY <1>1 DEF Placed, TornDown, AgentsAreRegistered
<1>7. live' = NoOne \/ live' \in term'
  BY <1>1 DEF TypeOK
<1>8. Bounded' /\ Firsts' /\ Sealed'
  BY <1>1, <1>2, <1>7 DEF Bounded, Firsts, Sealed
<1>9. Tells'
  <2>1. \A b \in Attempts : ~CurrentLive(b)'
    BY <1>7 DEF CurrentLive
  <2> QED BY <1>1, <2>1 DEF Tells, Told
<1> QED BY <1>4, <1>5, <1>6, <1>8, <1>9

\* The working view is flushed, and nobody is registered any more.
LEMMA ShutdownFlushKeeps ==
  ASSUME IInv, ShutdownFlush
  PROVE  IInv'
<1>0. USE DEF IInv, Nothing, NoRecord, Past, Over
<1>1. /\ closing = "closing" /\ closing' = "complete" /\ disk' = rec /\ live' = NoOne
      /\ UNCHANGED <<rec, queue, pc, lease, status, term, published, agent, delivery, teardown,
                     cancel, removal, created, acked>>
  BY DEF ShutdownFlush, AtFlush, attemptVars
<1>2. queue' \in Seq(Mutations) /\ Queued'
  <2>1. \A n \in Mutations : Founded(n) => Founded(n)'
    BY <1>1 DEF Founded
  <2> QED BY <1>1, <2>1, QueueKept
<1>3. TypeOK'
  BY <1>1, <1>2 DEF TypeOK, Mutations
<1>4. Placed' /\ TornDown' /\ AgentsAreRegistered'
  BY <1>1 DEF Placed, TornDown, AgentsAreRegistered
<1>5. Bounded' /\ Firsts' /\ Sealed' /\ Tells'
  BY <1>1 DEF Bounded, Firsts, Sealed, Tells, Told, CurrentLive
<1> QED BY <1>2, <1>3, <1>4, <1>5

\* The process starts again with the disk and nothing else.
LEMMA RestartKeeps ==
  ASSUME IInv, Restart
  PROVE  IInv'
<1>0. USE DEF IInv, Nothing, NoRecord, Past, Over
<1>1. /\ rec' = disk /\ queue' = <<>> /\ live' = NoOne /\ term' = {} /\ published' = {}
      /\ status' = [a \in Attempts |-> "initializing"] /\ lease' = [a \in Attempts |-> "none"]
      /\ teardown' = NoTeardown /\ cancel' = NoCancel /\ removal' = "idle" /\ closing' = "no"
      /\ UNCHANGED <<disk, created, acked>>
  BY DEF Restart
<1>2. /\ pc' \in [Attempts -> {"idle", "failed"}]
      /\ \A b \in Attempts : pc[b] = "idle" => pc'[b] = "idle"
      /\ agent' \in [Attempts -> {"none", "dead"}]
  BY DEF Restart
<1>3. queue' \in Seq(Mutations) /\ Queued'
  <2>1. queue' \in Seq(Mutations) /\ Len(queue') = 0
    BY <1>1
  <2>2. Entries' = {}
    BY <2>1 DEF Entries
  <2> QED BY <2>1, <2>2 DEF Queued
<1>4. TypeOK'
  <2>1. NoTeardown \in [of : Attempts \cup {NoOne}, failed : BOOLEAN]
    BY DEF NoTeardown
  <2>2. status' \in [Attempts -> Statuses]
    BY <1>1 DEF Statuses
  <2>3. /\ pc' \in [Attempts -> {"idle", "spawning", "restoring", "recording", "recorded",
                                 "discarding"} \cup Over]
        /\ agent' \in [Attempts -> {"none", "starting", "live", "dying", "stuck", "dead"}]
        /\ lease' \in [Attempts -> {"none", "current", "void"}]
        /\ delivery' \in [Attempts -> {"none", "persisting", "delivering", "aborted", "done"}]
        /\ \A a \in Attempts : lease'[a] = "none"
    BY <1>1, <1>2 DEF Restart
  <2>4. /\ rec' \in Statuses \cup {NoRecord} /\ disk' \in Statuses \cup {NoRecord}
        /\ created' \in BOOLEAN /\ acked' \in BOOLEAN
    BY <1>1 DEF TypeOK
  <2>5. cancel' \in [stage : {"idle", "queued", "durable", "cleanup"},
                    of : Attempts \cup {NoOne}, joins : BOOLEAN, already : BOOLEAN,
                    final : {"finished", "cancelled"}, found : BOOLEAN]
    BY <1>1, Cancellations
  <2> QED BY <1>1, <1>3, <2>1, <2>2, <2>3, <2>4, <2>5 DEF TypeOK, Mutations
<1>5. Placed' /\ TornDown' /\ AgentsAreRegistered'
  BY <1>1, <1>2, Cancellations DEF Placed, TornDown, AgentsAreRegistered, NoTeardown
<1>6. Bounded' /\ Firsts' /\ Sealed'
  BY <1>1, <1>2, Cancellations DEF Bounded, Firsts, Sealed
<1>7. Tells'
  BY <1>1 DEF Tells, Told, CurrentLive
<1> QED BY <1>3, <1>4, <1>5, <1>6, <1>7

-----------------------------------------------------------------------------
(* The theorems *)

\* A daemon that starts.
LEMMA InitHolds == Init => IInv
<1> SUFFICES ASSUME Init PROVE IInv
  OBVIOUS
<1>1. /\ rec \in {"none", "finished"} /\ disk = rec /\ queue = <<>> /\ live = NoOne /\ term = {}
      /\ published = {} /\ teardown = NoTeardown /\ cancel = NoCancel /\ removal = "idle"
      /\ closing = "no" /\ created = (rec # "none") /\ acked = FALSE
      /\ \A a \in Attempts : /\ pc[a] = "idle" /\ lease[a] = "none" /\ agent[a] = "none"
                             /\ status[a] = "initializing"
  BY DEF Init, NoRecord
<1>2. queue \in Seq(Mutations) /\ Entries = {}
  <2>1. queue \in Seq(Mutations) /\ Len(queue) = 0
    BY <1>1
  <2> QED BY <2>1 DEF Entries
<1>3. TypeOK
  <2>1. /\ NoTeardown \in [of : Attempts \cup {NoOne}, failed : BOOLEAN]
        /\ NoCancel \in [stage : {"idle", "queued", "durable", "cleanup"},
                         of : Attempts \cup {NoOne}, joins : BOOLEAN, already : BOOLEAN,
                         final : {"finished", "cancelled"}, found : BOOLEAN]
    BY DEF NoTeardown, NoCancel
  <2>2. /\ pc \in [Attempts -> {"idle", "spawning", "restoring", "recording", "recorded",
                                "discarding"} \cup Over]
        /\ lease \in [Attempts -> {"none", "current", "void"}]
        /\ agent \in [Attempts -> {"none", "starting", "live", "dying", "stuck", "dead"}]
        /\ delivery \in [Attempts -> {"none", "persisting", "delivering", "aborted", "done"}]
        /\ status \in [Attempts -> Statuses]
    BY DEF Init, Statuses
  <2> QED BY <1>1, <1>2, <2>1, <2>2 DEF TypeOK, Mutations, Statuses, NoRecord
<1>4. Placed /\ TornDown /\ AgentsAreRegistered
  BY <1>1 DEF Placed, TornDown, AgentsAreRegistered, NoTeardown, NoCancel
<1>5. Bounded /\ Firsts /\ Sealed
  BY <1>1 DEF Bounded, Firsts, Nothing, NoRecord, Sealed, NoCancel
<1>6. Queued /\ Tells
  BY <1>1, <1>2 DEF Queued, Tells, Told, CurrentLive
<1> QED BY <1>3, <1>4, <1>5, <1>6 DEF IInv

\* Nothing happens.
LEMMA StutterKeeps == IInv /\ UNCHANGED vars => IInv'
<1> SUFFICES ASSUME IInv, UNCHANGED vars PROVE IInv'
  OBVIOUS
<1>1. UNCHANGED <<rec, disk, queue, pc, lease, live, status, term, published, agent, delivery,
                  teardown, cancel, removal, closing, created, acked>>
  BY DEF vars, storeVars, attemptVars, sessionVars, ownerVars
<1>2. queue' \in Seq(Mutations) /\ Queued' /\ \A m : Pending(m)' <=> Pending(m)
  <2>1. \A m \in Mutations : Founded(m) => Founded(m)'
    BY <1>1 DEF Founded
  <2> QED BY <1>1, <2>1, QueueKept DEF IInv
<1>3. TypeOK'
  BY <1>1 DEF IInv, TypeOK
<1>4. Placed' /\ TornDown' /\ AgentsAreRegistered' /\ Bounded' /\ Firsts' /\ Sealed'
  BY <1>1 DEF IInv, Placed, Past, TornDown, AgentsAreRegistered, Bounded, Firsts, Nothing, Sealed
<1>5. Tells'
  BY <1>1, <1>2 DEF IInv, Tells, Told, CurrentLive
<1> QED BY <1>2, <1>3, <1>4, <1>5 DEF IInv

\* Every step is one of those above.
LEMMA StepKeeps == IInv /\ [Next]_vars => IInv'
<1> SUFFICES ASSUME IInv, [Next]_vars PROVE IInv'
  OBVIOUS
<1>1. ASSUME NEW a \in Attempts, BeginFresh(a) \/ BeginResume(a) PROVE IInv'
  BY <1>1, BeginKeeps
<1>2. ASSUME NEW a \in Attempts, SpawnSettles(a) PROVE IInv'
  BY <1>2, RegisterKeeps, SpawnEndsKeeps DEF SpawnSettles
<1>3. ASSUME NEW a \in Attempts, Proceeds(a) PROVE IInv'
  BY <1>3, SpawnEndsKeeps, RestoredKeeps, RestoreSupersededKeeps, DiscardedKeeps, PublishKeeps
     DEF Proceeds
<1>4. ASSUME NEW a \in Attempts, MessageActivates(a) \/ TurnFails(a) \/ CommandCancels(a)
      PROVE  IInv'
  BY <1>4, SessionEventsKeep
<1>5. ASSUME NEW a \in Attempts, Finish(a) \/ Delivered(a) PROVE IInv'
  BY <1>5, FinishKeeps, DeliveredKeeps
<1>6. ASSUME NEW a \in Attempts, NEW ok \in BOOLEAN, DestroySettles(a, ok) PROVE IInv'
  BY <1>6, DestroySettlesKeeps
<1>7. CASE Mutate
  BY <1>7, MutateStatusKeeps, MutateRemoveKeeps, MutateShutdownKeeps, MutateFinishKeeps,
     MutateInitKeeps, CancelMutationKeeps DEF Mutate
<1>8. CASE FlushTimer
  BY <1>8, FlushTimerKeeps
<1>9. CASE CancelStart \/ CancelProceeds \/ CancelReturns
  BY <1>9, CancelStartKeeps, CancelProceedsKeeps, CancelReturnsKeeps
<1>10. CASE DeleteStart \/ ThreadDeleted
  BY <1>10, DeleteStartKeeps, ThreadDeletedKeeps
<1>11. CASE ShutdownStart \/ ShutdownFlush \/ Restart
  BY <1>11, ShutdownStartKeeps, ShutdownFlushKeeps, RestartKeeps
<1>12. CASE UNCHANGED vars
  BY <1>12, StutterKeeps
<1> QED BY <1>1, <1>2, <1>3, <1>4, <1>5, <1>6, <1>7, <1>8, <1>9, <1>10, <1>11, <1>12 DEF Next

\* What every reachable state satisfies: who is registered has an attempt behind
\* it and no second agent, nothing is queued that its author has not done, and
\* the record of a running session has not ended.
THEOREM Invariance == Spec => []IInv
<1>1. Init => IInv
  BY InitHolds
<1>2. IInv /\ [Next]_vars => IInv'
  BY StepKeeps
<1> QED BY <1>1, <1>2, PTL DEF Spec

\* Every variable keeps its type, however often the session is resumed, cancelled
\* or carried through a restart, and an attempt that is over holds no lease.
THEOREM TypesKept == Spec => []TypeOK
<1>1. IInv => TypeOK
  BY DEF IInv
<1> QED BY <1>1, Invariance, PTL

\* In every reachable state an acknowledged cancellation stands, a session has at
\* most one agent, and its record has ended, here and on disk, only when it has.
THEOREM StoryHolds ==
  Spec => [](AcknowledgedCancelSticks /\ AgentsAreRegistered /\ RecordFollowsSession /\ PublishedIsDurable)
<1>1. IInv => AcknowledgedCancelSticks /\ AgentsAreRegistered /\ RecordFollowsSession /\ PublishedIsDurable
  <2> SUFFICES ASSUME IInv
               PROVE  AcknowledgedCancelSticks /\ AgentsAreRegistered /\ RecordFollowsSession /\ PublishedIsDurable
    OBVIOUS
  <2>1. AcknowledgedCancelSticks /\ AgentsAreRegistered
    BY DEF IInv, Sealed, AcknowledgedCancelSticks
  <2>2. RecordFollowsSession
    <3> SUFFICES ASSUME NEW a \in published, CurrentLive(a), queue = <<>>, rec # NoRecord,
                        status[a] # "cancelled"
                 PROVE  Terminal(rec) <=> Terminal(status[a])
      BY DEF RecordFollowsSession
    <3>1. a \in Attempts /\ Told(a) /\ ~Pending(Mutation("status", a, "finished"))
      <4>1. Entries = {}
        BY DEF Entries
      <4> QED BY <4>1 DEF IInv, TypeOK, Tells, Pending
    <3>2. CASE Terminal(status[a])
      BY <3>1, <3>2 DEF Told, Terminal
    <3>3. CASE ~Terminal(status[a])
      BY <3>1, <3>3 DEF Told
    <3> QED BY <3>2, <3>3
  <2>3. PublishedIsDurable
    <3> SUFFICES ASSUME NEW a \in published, CurrentLive(a), Running(status[a])
                 PROVE  ~Terminal(disk) /\ (disk = NoRecord => rec = NoRecord)
      BY DEF PublishedIsDurable
    <3>1. a \in Attempts /\ Told(a) /\ ~Terminal(status[a])
      BY DEF IInv, TypeOK, Tells, Running, Terminal
    <3> QED BY <3>1 DEF IInv, Told, Tells
  <2> QED BY <2>1, <2>2, <2>3
<1> QED BY <1>1, Invariance, PTL

-----------------------------------------------------------------------------
(* A record that has ended *)

\* An attempt whose session may yet write its initial record.
Building == {"spawning", "restoring", "recording"}
Open(a)  == pc[a] \in Building /\ (lease[a] = "current" \/ CurrentLive(a))

\* What has ended on disk has ended in the working view too, unless it was removed.
Ended == Terminal(disk) => rec \in {disk, NoRecord}

\* Nobody resumes a cancelled record, nor was about to when it was cancelled.
Spent == rec = "cancelled" \/ disk = "cancelled" => \A a \in Attempts : ~Open(a)

\* A current lease keeps every other attempt out.
Leases ==
  \A a \in Attempts : lease[a] = "current" =>
    /\ pc[a] # "idle" /\ live \in {NoOne, a}
    /\ \A b \in Attempts : lease[b] = "current" => b = a

EInv == Ended /\ Spent /\ Leases

\* Most steps bring no attempt nearer to a record.
LEMMA Narrows ==
  ASSUME Leases, live' \in {live, NoOne}, term \subseteq term',
         \A b \in Attempts : /\ lease'[b] = "current" => lease[b] = "current"
                             /\ pc[b] # "idle" => pc'[b] # "idle"
                             /\ pc'[b] \in Building => pc[b] \in Building
  PROVE  Leases' /\ \A b \in Attempts : Open(b)' => Open(b)
<1>1. Leases'
  BY DEF Leases
<1>2. \A b \in Attempts : CurrentLive(b)' => CurrentLive(b)
  BY DEF CurrentLive
<1>3. \A b \in Attempts : Open(b)' => Open(b)
  BY <1>2 DEF Open
<1> QED BY <1>1, <1>3

\* A step that leaves the record alone and brings no attempt nearer to it.
LEMMA Elsewhere ==
  ASSUME EInv, UNCHANGED <<rec, disk>>, live' \in {live, NoOne}, term \subseteq term',
         \A b \in Attempts : /\ lease'[b] = "current" => lease[b] = "current"
                             /\ pc[b] # "idle" => pc'[b] # "idle"
                             /\ pc'[b] \in Building => pc[b] \in Building
  PROVE  EInv' /\ EndedStays
<1>1. Leases' /\ \A b \in Attempts : Open(b)' => Open(b)
  BY Narrows DEF EInv
<1>2. Ended' /\ Spent'
  BY <1>1 DEF EInv, Ended, Spent
<1> QED BY <1>1, <1>2 DEF EInv, EndedStays

\* An attempt begins, with a record that can be resumed or with none.
LEMMA BeginsOpen ==
  ASSUME IInv, EInv, NEW a \in Attempts, BeginFresh(a) \/ BeginResume(a)
  PROVE  EInv' /\ EndedStays
<1>1. /\ UNCHANGED <<rec, disk, live, term>> /\ live = NoOne
      /\ rec \in {"initializing", "active", "finished"} \/ (rec = NoRecord /\ disk = NoRecord)
      /\ \A b \in Attempts : lease[b] # "current"
      /\ pc[a] = "idle" /\ pc'[a] = "spawning"
      /\ \A b \in Attempts \ {a} : pc'[b] = pc[b] /\ lease'[b] = lease[b]
  <2>1. CASE BeginFresh(a)
    <3>1. ~created /\ Begin(a, "none")
      BY <2>1 DEF BeginFresh
    <3>2. Nothing /\ \A b \in Attempts : pc[b] = "idle"
      BY <3>1 DEF IInv, Firsts
    <3>3. \A b \in Attempts : lease[b] # "current" /\ live # b
      BY <3>2 DEF EInv, Leases, IInv, Placed, Past
    <3> QED BY <3>1, <3>2, <3>3 DEF Begin, storeVars, Nothing, IInv, TypeOK
  <2>2. CASE BeginResume(a)
    BY <2>2 DEF BeginResume, Resumable, Begin, storeVars, IInv, TypeOK
  <2> QED BY <2>1, <2>2
<1>2. rec # "cancelled" /\ disk # "cancelled"
  BY <1>1 DEF EInv, Ended, Terminal, NoRecord
<1>3. Ended' /\ Spent'
  BY <1>1, <1>2 DEF EInv, Ended, Spent
<1>4. Leases'
  BY <1>1 DEF Leases
<1> QED BY <1>1, <1>3, <1>4 DEF EInv, EndedStays

\* The spawned session is registered under its lease, or it is the first.
LEMMA RegistersOpen ==
  ASSUME IInv, EInv, NEW a \in Attempts, Register(a)
  PROVE  EInv' /\ EndedStays
<1>1. pc[a] = "spawning" /\ UNCHANGED <<rec, disk>>
  BY DEF Register, storeVars
<1>2. CASE MayRegister(a)
  <2>1. /\ live = NoOne /\ lease[a] # "void" /\ live' = a /\ UNCHANGED <<lease, term>>
        /\ pc'[a] = "restoring" /\ \A b \in Attempts \ {a} : pc'[b] = pc[b]
    BY <1>2 DEF Register, MayRegister, IInv, TypeOK
  <2>2. CASE lease[a] = "current"
    <3>1. \A b \in Attempts : Open(b)' => Open(b)
      BY <1>1, <2>1, <2>2 DEF Open, CurrentLive, Building
    <3>2. Leases'
      BY <2>1, <2>2 DEF EInv, Leases
    <3>3. Ended' /\ Spent'
      BY <1>1, <3>1 DEF EInv, Ended, Spent
    <3> QED BY <1>1, <3>2, <3>3 DEF EInv, EndedStays
  <2>3. CASE lease[a] = "none"
    <3>1. Nothing /\ \A b \in Attempts \ {a} : pc[b] = "idle"
      BY <1>1, <2>3 DEF IInv, Firsts
    <3>2. \A b \in Attempts : lease[b] # "current"
      BY <2>3, <3>1 DEF EInv, Leases
    <3>3. Leases'
      BY <2>1, <3>2 DEF Leases
    <3>4. Ended' /\ Spent'
      BY <1>1, <3>1 DEF Ended, Spent, Nothing, NoRecord, Terminal
    <3> QED BY <1>1, <3>3, <3>4 DEF EInv, EndedStays
  <2> QED BY <2>1, <2>2, <2>3 DEF IInv, TypeOK
<1>3. CASE ~MayRegister(a)
  <2>1. /\ live' = live /\ term \subseteq term' /\ EndAttempt(a, "failed")
    BY <1>3 DEF Register
  <2>2. \A b \in Attempts : /\ lease'[b] = "current" => lease[b] = "current"
                            /\ pc[b] # "idle" => pc'[b] # "idle"
                            /\ pc'[b] \in Building => pc[b] \in Building
    BY <2>1 DEF EndAttempt, IInv, TypeOK, Building
  <2> QED BY <1>1, <2>1, <2>2, Elsewhere
<1> QED BY <1>2, <1>3

\* The rest of an attempt.
LEMMA AttemptNarrows ==
  ASSUME IInv, EInv, NEW a \in Attempts, SpawnFails(a) \/ Proceeds(a)
  PROVE  EInv' /\ EndedStays
<1>1. UNCHANGED <<rec, disk>> /\ live' \in {live, NoOne} /\ term \subseteq term'
  BY DEF SpawnFails, Proceeds, Superseded, Restored, RestoreSuperseded, Discard, Discarded, Publish,
         storeVars, sessionVars
<1>2. /\ pc[a] \notin {"idle", "done", "failed"}
      /\ \/ EndAttempt(a, "done") \/ EndAttempt(a, "failed")
         \/ /\ pc' = [pc EXCEPT ![a] = "recording"] \/ pc' = [pc EXCEPT ![a] = "discarding"]
            /\ lease' = lease /\ pc[a] = "restoring"
  BY DEF SpawnFails, Proceeds, Superseded, Restored, RestoreSuperseded, Discarded, Publish
<1>3. \A b \in Attempts : /\ lease'[b] = "current" => lease[b] = "current"
                          /\ pc[b] # "idle" => pc'[b] # "idle"
                          /\ pc'[b] \in Building => pc[b] \in Building
  BY <1>2 DEF EndAttempt, IInv, TypeOK, Building
<1> QED BY <1>1, <1>3, Elsewhere

\* What happens to a registered session, and to its agent.
LEMMA SessionNarrows ==
  ASSUME IInv, EInv, NEW a \in Attempts,
         \/ MessageActivates(a) \/ TurnFails(a) \/ CommandCancels(a) \/ Finish(a) \/ Delivered(a)
         \/ \E ok \in BOOLEAN : DestroySettles(a, ok)
  PROVE  EInv' /\ EndedStays
<1>1. UNCHANGED <<rec, disk, pc, lease>>
  BY DEF MessageActivates, TurnFails, CommandCancels, Finish, Delivered, DestroySettles,
         storeVars, attemptVars
<1>2. live' \in {live, NoOne} /\ term \subseteq term'
  BY DEF MessageActivates, TurnFails, CommandCancels, Finish, Delivered, DestroySettles,
         StartTeardown
<1> QED BY <1>1, <1>2, Elsewhere

\* A cancellation, a removal and a shutdown, apart from what they write.
LEMMA OwnersNarrow ==
  ASSUME IInv, EInv, CancelStart \/ CancelProceeds \/ CancelReturns \/ DeleteStart
                     \/ ThreadDeleted \/ ShutdownStart
  PROVE  EInv' /\ EndedStays
<1>1. UNCHANGED <<rec, disk, pc>> /\ (lease' = lease \/ lease' = Invalidated)
  BY DEF CancelStart, CancelProceeds, CancelReturns, DeleteStart, ThreadDeleted, ShutdownStart,
         BeginCancel, CancelBoundary, storeVars, attemptVars
<1>2. live' \in {live, NoOne} /\ term \subseteq term'
  BY DEF CancelStart, CancelProceeds, CancelReturns, DeleteStart, ThreadDeleted, ShutdownStart,
         BeginCancel, CancelBoundary, StartTeardown, sessionVars
<1>3. \A b \in Attempts : lease'[b] = "current" => lease[b] = "current"
  BY <1>1 DEF Invalidated
<1> QED BY <1>1, <1>2, <1>3, Elsewhere

\* A status patch and an initial patch may end the record; both are of the session
\* that is live, beside which no attempt is open.
LEMMA StatusEnds ==
  ASSUME IInv, EInv, MutateStatus
  PROVE  EInv' /\ EndedStays
<1>1. UNCHANGED <<disk, pc, lease, live, term>> /\ Dequeue("status")
  BY DEF MutateStatus, attemptVars, sessionVars
<1>2. Leases' /\ \A b \in Attempts : Open(b)' => Open(b)
  BY <1>1 DEF EInv, Leases, Open, CurrentLive
<1>3. /\ rec = NoRecord \/ Terminal(rec) => rec' = rec
      /\ rec' # rec => live \in published
  <2>1. rec = NoRecord \/ Terminal(rec) => rec' = rec
    BY DEF MutateStatus, Merge
  <2>2. rec' # rec => CurrentLive(Head(queue).by)
    BY DEF MutateStatus, Skipped, Actor
  <2>3. Founded(Head(queue)) /\ Head(queue).kind = "status"
    <3>1. 1 \in Entries /\ Head(queue) = queue[1] /\ queue[1].kind = "status"
      BY <1>1, Dequeued DEF IInv
    <3> QED BY <3>1 DEF IInv, Queued
  <2> QED BY <2>1, <2>2, <2>3 DEF Founded, CurrentLive
<1>4. Ended'
  BY <1>1, <1>3 DEF EInv, Ended
<1>5. Spent'
  <2>1. CASE rec' = rec
    BY <1>1, <1>2, <2>1 DEF EInv, Spent
  <2>2. CASE rec' # rec
    <3>1. live \in Attempts /\ pc[live] \in Over
      BY <1>3, <2>2 DEF IInv, TypeOK, Placed
    <3>2. \A b \in Attempts : ~Open(b)
      BY <3>1 DEF EInv, Leases, Open, CurrentLive, Building, Over, IInv, Placed, Past
    <3> QED BY <1>2, <3>2 DEF Spent
  <2> QED BY <2>1, <2>2
<1> QED BY <1>1, <1>2, <1>4, <1>5 DEF EInv, EndedStays

\* The initial patch, of a session that is live and then open no longer.
LEMMA InitialEnds ==
  ASSUME IInv, EInv, NEW ok \in BOOLEAN, MutateInit(ok)
  PROVE  EInv' /\ EndedStays
<1>1. PICK a \in Attempts : a = Head(queue).by /\ pc[a] = "recording"
  <2>1. Dequeue("init") /\ 1 \in Entries /\ Head(queue) = queue[1] /\ queue[1].kind = "init"
    BY Dequeued DEF MutateInit, IInv
  <2>2. Founded(queue[1])
    BY <2>1 DEF IInv, Queued
  <2> QED BY <2>1, <2>2 DEF Founded
<1>2. /\ lease' = lease /\ live' \in {live, NoOne} /\ term \subseteq term'
      /\ pc' = [pc EXCEPT ![a] = "recorded"] \/ pc' = [pc EXCEPT ![a] = "discarding"]
  BY <1>1 DEF MutateInit, Actor, Discard
<1>3. \A b \in Attempts : /\ pc[b] # "idle" => pc'[b] # "idle"
                          /\ pc'[b] \in Building => pc[b] \in Building /\ b # a
  BY <1>1, <1>2 DEF IInv, TypeOK, Building
<1>4. CASE UNCHANGED <<rec, disk>>
  BY <1>2, <1>3, <1>4, Elsewhere
<1>5. CASE ~UNCHANGED <<rec, disk>>
  <2>1. CurrentLive(a) /\ rec' = disk' /\ pc' = [pc EXCEPT ![a] = "recorded"]
        /\ UNCHANGED <<live, term>>
    BY <1>1, <1>5 DEF MutateInit, Actor, SaveNow, Superseding
  <2>2. Leases' /\ \A b \in Attempts : Open(b)' => Open(b)
    BY <1>2, <1>3, Narrows DEF EInv
  <2>3. \A b \in Attempts : ~Open(b)'
    <3>1. \A b \in Attempts \ {a} : ~Open(b)
      BY <2>1 DEF EInv, Leases, Open, CurrentLive
    <3>2. ~Open(a)'
      BY <1>1, <2>1 DEF Open, Building, IInv, TypeOK
    <3> QED BY <2>2, <3>1, <3>2
  <2>4. disk # "cancelled" /\ pc'[a] = "recorded"
    BY <1>1, <2>1 DEF EInv, Spent, Open, Building, IInv, TypeOK
  <2>5. Ended' /\ Spent'
    BY <2>1, <2>3 DEF Ended, Spent
  <2>6. EndedStays
    BY <1>1, <2>1, <2>4 DEF EndedStays, Terminal
  <2> QED BY <2>2, <2>5, <2>6 DEF EInv
<1> QED BY <1>4, <1>5

\* Any other write leaves an ended record alone or removes it, and who cancels it
\* has closed every attempt.
LEMMA Writes ==
  ASSUME EInv, UNCHANGED <<pc, lease>>, live' \in {live, NoOne}, term \subseteq term',
         rec = NoRecord \/ Terminal(rec) => rec' \in {rec, NoRecord}, disk' \in {disk, rec'},
         rec' = "cancelled" /\ rec # "cancelled" => \A b \in Attempts : ~Open(b)
  PROVE  EInv' /\ EndedStays
<1>1. Leases' /\ \A b \in Attempts : Open(b)' => Open(b)
  BY Narrows DEF EInv
<1>2. Ended'
  BY DEF EInv, Ended
<1>3. Spent'
  BY <1>1 DEF EInv, Spent
<1>4. EndedStays
  BY DEF EInv, Ended, EndedStays
<1> QED BY <1>1, <1>2, <1>3, <1>4 DEF EInv

\* Removal, shutdown, flush, completion and cancellation are such writes.
LEMMA OthersEnd ==
  ASSUME IInv, EInv,
         \/ MutateRemove \/ MutateShutdown \/ FlushTimer \/ ShutdownFlush
         \/ \E ok \in BOOLEAN : MutateFinish(ok) \/ CancelMutation(ok)
  PROVE  EInv' /\ EndedStays
<1>1. UNCHANGED <<pc, lease, term>> /\ live' \in {live, NoOne}
  BY DEF MutateRemove, MutateShutdown, FlushTimer, ShutdownFlush, MutateFinish, CancelMutation,
         attemptVars, sessionVars
<1>2. CASE MutateRemove
  BY <1>1, <1>2, Writes DEF MutateRemove, NoRecord
<1>3. CASE MutateShutdown
  <2>1. /\ disk' = disk /\ rec' \in {rec, "finished"}
        /\ rec = NoRecord \/ Terminal(rec) => rec' = rec
    BY <1>3 DEF MutateShutdown, Merge
  <2> QED BY <1>1, <2>1, Writes
<1>4. CASE FlushTimer \/ ShutdownFlush
  <2>1. rec' = rec /\ disk' = rec'
    BY <1>4 DEF FlushTimer, ShutdownFlush
  <2> QED BY <1>1, <2>1, Writes
<1>5. ASSUME NEW ok \in BOOLEAN, MutateFinish(ok) PROVE EInv' /\ EndedStays
  <2>1. /\ UNCHANGED <<rec, disk>> \/ disk' = rec'
        /\ rec' \in {rec, "finished"} /\ (rec = NoRecord \/ Terminal(rec) => rec' = rec)
    BY <1>5 DEF MutateFinish, SaveNow, Merge
  <2> QED BY <1>1, <2>1, Writes
<1>6. ASSUME NEW ok \in BOOLEAN, CancelMutation(ok) PROVE EInv' /\ EndedStays
  <2>1. /\ UNCHANGED <<rec, disk>> \/ disk' = rec'
        /\ rec = NoRecord \/ Terminal(rec) => rec' = rec
    BY <1>6 DEF CancelMutation, SaveNow
  <2>2. \A b \in Attempts : ~Open(b)
    <3>1. cancel.stage = "queued"
      <4>1. /\ 1 \in Entries /\ Head(queue) = queue[1] /\ queue[1].kind = "cancel"
        BY <1>6, Dequeued DEF CancelMutation, IInv
      <4> QED BY <4>1 DEF IInv, Queued, Founded
    <3> QED BY <3>1 DEF IInv, Bounded, Open, CurrentLive
  <2> QED BY <1>1, <2>1, <2>2, Writes
<1> QED BY <1>2, <1>3, <1>4, <1>5, <1>6

\* A restart takes the record from the disk, and nobody is open.
LEMMA RestartEnds ==
  ASSUME IInv, EInv, Restart
  PROVE  EInv' /\ EndedStays
<1>1. /\ rec' = disk /\ disk' = disk
      /\ \A b \in Attempts : lease'[b] = "none" /\ pc'[b] \in {"idle", "failed"}
  BY DEF Restart
<1> QED BY <1>1 DEF EInv, Ended, Spent, Leases, Open, Building, EndedStays

\* Every step is one of those above.
LEMMA RecordsEnd == IInv /\ EInv /\ [Next]_vars => EInv' /\ (EndedStays \/ UNCHANGED vars)
<1> SUFFICES ASSUME IInv, EInv, [Next]_vars PROVE EInv' /\ (EndedStays \/ UNCHANGED vars)
  OBVIOUS
<1>1. ASSUME NEW a \in Attempts, BeginFresh(a) \/ BeginResume(a) PROVE EInv' /\ EndedStays
  BY <1>1, BeginsOpen
<1>2. ASSUME NEW a \in Attempts, SpawnSettles(a) \/ Proceeds(a) PROVE EInv' /\ EndedStays
  BY <1>2, RegistersOpen, AttemptNarrows DEF SpawnSettles
<1>3. ASSUME NEW a \in Attempts,
             \/ MessageActivates(a) \/ TurnFails(a) \/ CommandCancels(a)
             \/ Finish(a) \/ Delivered(a)
             \/ \E ok \in BOOLEAN : DestroySettles(a, ok)
      PROVE  EInv' /\ EndedStays
  BY <1>3, SessionNarrows
<1>4. CASE Mutate
  BY <1>4, StatusEnds, InitialEnds, OthersEnd DEF Mutate
<1>5. CASE FlushTimer \/ ShutdownFlush
  BY <1>5, OthersEnd
<1>6. CASE \/ CancelStart \/ CancelProceeds \/ CancelReturns \/ DeleteStart
           \/ ThreadDeleted \/ ShutdownStart
  BY <1>6, OwnersNarrow
<1>7. CASE Restart
  BY <1>7, RestartEnds
<1>8. CASE UNCHANGED vars
  <2>1. UNCHANGED <<rec, disk, pc, lease, live, term>>
    BY <1>8 DEF vars, storeVars, attemptVars, sessionVars
  <2> QED BY <2>1, Elsewhere
<1> QED BY <1>1, <1>2, <1>3, <1>4, <1>5, <1>6, <1>7, <1>8 DEF Next

\* A record that has ended on disk is never overwritten: whatever is queued, times
\* out, fails or crashes, it stays or is removed. Only a finished one is reopened, by
\* the initial write of the one session that is live; a cancelled one, whether its
\* cancellation was acknowledged or came by /cancel, never is.
THEOREM EndedRecordsStay == Spec => [][EndedStays]_vars
<1>1. Init => EInv
  BY DEF Init, EInv, Ended, Spent, Leases, Open, NoRecord
<1>2. IInv /\ EInv /\ [Next]_vars => EInv' /\ [EndedStays]_vars
  BY RecordsEnd
<1> QED BY <1>1, <1>2, Invariance, PTL DEF Spec

\* Agent, session, working record and disk tell the same story, for any number of
\* attempts to create and resume the session, of pending mutations, and of crashes;
\* and what has ended on disk is reopened by a resumed session or not at all.
THEOREM Agreement == Spec => GenerationsAgree
BY StoryHolds, EndedRecordsStay DEF GenerationsAgree
=============================================================================
