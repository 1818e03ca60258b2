----------------------- MODULE AttachmentDeliveryProofs -----------------------
(***************************************************************************)
(* For any calls, ids, files and bounds, AttachmentDelivery implements     *)
(* DeliveryLedger and sends nothing for a target that was replaced.  The   *)
(* reason is the lock: only the first call in the tail of a delivery id    *)
(* may have a file on the way, and it has one only while the journal has   *)
(* no receipt for the id.                                                  *)
(***************************************************************************)
EXTENDS AttachmentDelivery, TLAPS

USE DeliveryAssumption

(***************************************************************************)
(* The inductive invariant.                                                *)
(***************************************************************************)
Working == {"queued", "calling", "backoff"}
Unsent  == {"staging", "sending", "accepted"}
Held    == Unsent \cup {"cleanup"}

\* A tail of deliver() holds the calls of its id that have not settled, once each.
Locks ==
  /\ \A i \in Ids : \A k \in 1 .. Len(lock[i]) : ~Settled(lock[i][k]) /\ call[lock[i][k]].id = i
  /\ \A i \in Ids : \A k, m \in 1 .. Len(lock[i]) : lock[i][k] = lock[i][m] => k = m
  /\ \A c \in Calls : ~Settled(c) =>
       /\ call[c].id \in Ids /\ call[c].target \in targets
       /\ \E k \in 1 .. Len(lock[call[c].id]) : lock[call[c].id][k] = c

\* What the first call of a tail has done so far, and what it found in the journal.
Holds(c) ==
  /\ call[c].phase \in Held => lock[call[c].id][1] = c
  /\ call[c].phase \in Unsent => journal[call[c].id] = NoEntry
  /\ call[c].phase = "accepted" => call[c].message \in 1 .. sends[call[c].id]
  /\ call[c].ok => /\ call[c].phase = "cleanup" /\ journal[call[c].id] # NoEntry
                   /\ journal[call[c].id].message = call[c].message

\* The adapter's side of a call.
Works(c) ==
  /\ op[c] \in Working /\ c \notin aborted => call[c].phase = "sending"
  /\ op[c] \in {"calling", "backoff"} /\ c \notin aborted => sends[call[c].id] # 0
  /\ call[c].phase = "sending" => c \in staged
  /\ call[c].phase \in {"idle", "queued", "staging"} => op[c] = "none"

Queued ==
  /\ \A k \in 1 .. Len(sendQueue) : op[sendQueue[k]] = "queued"
  /\ \A k, m \in 1 .. Len(sendQueue) : sendQueue[k] = sendQueue[m] => k = m

\* The journal of a delivery id, its file and the receipts given out.
Recorded(i) ==
  /\ disk[i] # NoEntry => disk[i].message \in 1 .. sends[i]
  /\ journal[i] # NoEntry => disk[i] = journal[i]
  /\ answered[i] # 0 => journal[i] # NoEntry /\ journal[i].message = answered[i]

\* A target whose situation was replaced has an older agent, object or process.
Dated(t) ==
  /\ t.process <= process
  /\ t.process = process => t.agent <= world.agent /\ t.objects <= world.objects
  /\ t \in outdated /\ t.process = process => t.agent < world.agent \/ t.objects < world.objects

Holders  == \A c \in Calls : Holds(c)
Workers  == \A c \in Calls : Works(c)
Records  == \A i \in Ids : Recorded(i)
Dates    == \A t \in targets : Dated(t)
Shutting == service = "closed" => \A i \in Ids : lock[i] = <<>>

IInv == TypeOK /\ Locks /\ Holders /\ Workers /\ Queued /\ Records /\ Dates /\ Shutting

-----------------------------------------------------------------------------
(* Types and tails *)

CallRecords  == [phase : Phases, id : Ids \cup {None}, file : Files \cup {None},
                 target : targets \cup {None}, message : Nat, ok : BOOLEAN]
EntryRecords == [file : Files \cup {None}, target : targets \cup {None}, message : Nat]

LEMMA Types ==
  ASSUME TypeOK
  PROVE  /\ call \in [Calls -> CallRecords] /\ journal \in [Ids -> EntryRecords] /\ disk \in [Ids -> EntryRecords]
         /\ staged \subseteq Calls /\ gone \subseteq Calls /\ aborted \subseteq Calls
         /\ NoCall \in CallRecords /\ Over \in CallRecords /\ NoEntry \in EntryRecords
BY DEF TypeOK, CallRecords, EntryRecords, NoCall, Over, NoEntry, Phases

LEMMA Tails ==
  ASSUME NEW S, NEW s \in Seq(S), s # <<>>
  PROVE  /\ Head(s) = s[1] /\ Tail(s) \in Seq(S) /\ Len(Tail(s)) = Len(s) - 1 /\ Len(s) \in Nat \ {0}
         /\ \A k \in 1 .. Len(s) - 1 : Tail(s)[k] = s[k + 1]
OBVIOUS

\* Two calls that have started their work are not deliveries of the same id.
LEMMA OneHolder ==
  ASSUME IInv, NEW c \in Calls, NEW d \in Calls, call[c].phase \in Held, call[d].phase \in Held,
         call[c].id = call[d].id
  PROVE  c = d
BY DEF IInv, Holders, Holds

\* A call that has not settled waits in the tail of its id.
LEMMA Waiting ==
  ASSUME IInv, NEW c \in Calls, ~Settled(c)
  PROVE  /\ call[c].id \in Ids /\ call[c].target \in targets /\ lock[call[c].id] # <<>>
         /\ lock[call[c].id] \in Seq(Calls) /\ lock \in [Ids -> Seq(Calls)]
         /\ Head(lock[call[c].id]) = lock[call[c].id][1]
<1>1. call[c].id \in Ids /\ call[c].target \in targets /\ lock \in [Ids -> Seq(Calls)]
  BY DEF IInv, Locks, TypeOK
<1>2. PICK k \in 1 .. Len(lock[call[c].id]) : lock[call[c].id][k] = c
  BY DEF IInv, Locks
<1>3. lock[call[c].id] # <<>>
  BY <1>2
<1> QED BY <1>1, <1>3, Tails

LEMMA Started == Init => IInv
<1> SUFFICES ASSUME Init PROVE IInv
  OBVIOUS
<1>1. TypeOK
  <2>1. NoCall \in CallRecords /\ NoEntry \in EntryRecords
    BY DEF CallRecords, EntryRecords, NoCall, NoEntry, Phases
  <2>2. Start \in World /\ <<>> \in Seq(Calls)
    BY DEF Start, World
  <2> QED BY <2>1, <2>2 DEF Init, TypeOK, CallRecords, EntryRecords, Operations
<1>2. \A c \in Calls : Settled(c) /\ call[c].phase = "idle" /\ ~call[c].ok
  BY DEF Init, Settled, NoCall
<1>3. Locks /\ Queued /\ Shutting /\ Dates
  BY <1>2 DEF Init, Locks, Queued, Shutting, Dates
<1>4. Holders /\ Workers
  BY <1>2 DEF Init, Holders, Holds, Workers, Works, Working, Held, Unsent
<1>5. Records
  BY DEF Init, Records, Recorded
<1> QED BY <1>1, <1>3, <1>4, <1>5 DEF IInv

-----------------------------------------------------------------------------
(* Steps of one call *)

\* The calls besides c, and what the adapter does for them.
Others(c) ==
  \A d \in Calls \ {c} : /\ call'[d] = call[d] /\ op'[d] = op[d]
                         /\ d \in aborted' <=> d \in aborted
                         /\ d \in staged' <=> d \in staged

\* The journal and the provider may only get to know more of the call's id.
Grows(c) ==
  /\ \A i \in Ids : sends'[i] >= sends[i]
  /\ \A i \in Ids : journal'[i] = journal[i] \/ (call[c].phase \in Held /\ i = call[c].id)

LEMMA OthersKeep ==
  ASSUME IInv, NEW c \in Calls, Others(c), Grows(c), TypeOK', NEW d \in Calls \ {c},
         call[d].phase \in Held => lock'[call[d].id][1] = lock[call[d].id][1]
  PROVE  Holds(d)' /\ Works(d)'
<1>1. CASE call[d].phase \in Held
  <2>1. call[d].id \in Ids
    BY <1>1, Waiting DEF Held, Unsent, Settled
  <2>2. journal'[call[d].id] = journal[call[d].id]
    BY <1>1, <2>1, OneHolder DEF Grows
  <2>3. sends[call[d].id] \in Nat /\ sends'[call[d].id] \in Nat /\ sends'[call[d].id] >= sends[call[d].id]
    BY <2>1 DEF Grows, IInv, TypeOK
  <2>4. call'[d] = call[d] /\ op'[d] = op[d] /\ (d \in aborted' <=> d \in aborted) /\ (d \in staged' <=> d \in staged)
    BY DEF Others
  <2>5. Holds(d) /\ Works(d)
    BY DEF IInv, Holders, Workers
  <2>6. Holds(d)'
    BY <1>1, <2>2, <2>3, <2>4, <2>5 DEF Holds
  <2>7. Works(d)'
    BY <2>3, <2>4, <2>5 DEF Works
  <2> QED BY <2>6, <2>7
<1>2. CASE call[d].phase \notin Held
  BY <1>2 DEF IInv, Holders, Holds, Workers, Works, Held, Unsent, Others, Working
<1> QED BY <1>1, <1>2

LEMMA LocksKept ==
  ASSUME Locks, TypeOK, lock' = lock, targets \subseteq targets',
         \A d \in Calls : /\ Settled(d)' <=> Settled(d)
                          /\ ~Settled(d) => call'[d].id = call[d].id /\ call'[d].target = call[d].target
  PROVE  Locks'
<1>1. \A i \in Ids : \A k \in 1 .. Len(lock[i]) : lock[i][k] \in Calls
  BY DEF TypeOK
<1> QED BY <1>1 DEF Locks

\* A step of c that keeps its place in the tail.
LEMMA OneCall ==
  ASSUME IInv, NEW c \in Calls, TypeOK', UNCHANGED <<setting, lock>>, Others(c), Grows(c),
         ~Settled(c) => call'[c].id = call[c].id /\ call'[c].target = call[c].target,
         Settled(c)' <=> Settled(c), Holds(c)', Works(c)', Queued', Records'
  PROVE  IInv'
<1>1. \A d \in Calls : /\ Settled(d)' <=> Settled(d)
                       /\ ~Settled(d) => call'[d].id = call[d].id /\ call'[d].target = call[d].target
  BY DEF Others, Settled
<1>2. Locks'
  BY <1>1, LocksKept DEF IInv, setting
<1>3. Holders' /\ Workers'
  BY OthersKeep DEF Holders, Workers
<1>4. Dates' /\ Shutting'
  BY DEF IInv, Dates, Dated, Shutting, setting
<1> QED BY <1>2, <1>3, <1>4 DEF IInv

\* The SendQueue keeps what it holds when the operation of a call goes on.
LEMMA QueueKept ==
  ASSUME IInv, sendQueue' = sendQueue, NEW c \in Calls, \A d \in Calls \ {c} : op'[d] = op[d],
         op'[c] = op[c] \/ op[c] # "queued"
  PROVE  Queued'
<1>1. \A k \in 1 .. Len(sendQueue) : sendQueue[k] \in Calls
  BY DEF IInv, TypeOK
<1> QED BY <1>1 DEF IInv, Queued

\* A step of c that touches neither the journal nor the provider.
LEMMA QuietStep ==
  ASSUME IInv, NEW c \in Calls, NEW r \in CallRecords, call' = [call EXCEPT ![c] = r],
         UNCHANGED <<setting, lock, provider, store>>,
         gone' \subseteq Calls, aborted' \subseteq Calls, staged' \subseteq Calls,
         \A d \in Calls \ {c} : (d \in aborted' <=> d \in aborted) /\ (d \in staged' <=> d \in staged),
         ~Settled(c) => r.id = call[c].id /\ r.target = call[c].target, r.phase \in {"idle", "done"} <=> Settled(c),
         Holds(c)', Works(c)'
  PROVE  IInv'
<1>1. call'[c] = r /\ \A d \in Calls \ {c} : call'[d] = call[d]
  BY Types DEF IInv
<1>2. TypeOK'
  BY Types DEF IInv, TypeOK, setting, provider, store, CallRecords
<1>3. Others(c) /\ Grows(c)
  BY <1>1 DEF Others, Grows, provider, store, IInv, TypeOK
<1>4. Queued' /\ Records'
  BY DEF provider, store, IInv, Queued, Records, Recorded
<1> QED BY <1>1, <1>2, <1>3, <1>4, OneCall DEF Settled

-----------------------------------------------------------------------------
(* Targets and what they are bound to *)

LEMMA SettingStep ==
  ASSUME IInv, TypeOK', UNCHANGED <<caller, provider, store>>, targets \subseteq targets', Dates', Shutting'
  PROVE  IInv'
<1>1. Locks'
  BY LocksKept DEF IInv, caller, Settled
<1>2. Holders' /\ Workers' /\ Queued' /\ Records'
  BY DEF IInv, caller, provider, store, Holders, Holds, Workers, Works, Queued, Records, Recorded
<1> QED BY <1>1, <1>2 DEF IInv

LEMMA ResolveStep == ASSUME IInv, NEW a \in BOOLEAN, Resolve(a) PROVE IInv'
<1>1. Signed(world, a) \in Target /\ targets' = targets \cup {Signed(world, a)}
  BY DEF Resolve, Signed, IInv, TypeOK, World, Target
<1>2. TypeOK'
  BY <1>1, Types DEF Resolve, IInv, TypeOK, caller, provider, store, CallRecords, EntryRecords
<1>3. Dates'
  <2>1. Signed(world, a).process = process /\ Signed(world, a).agent = world.agent
        /\ Signed(world, a).objects = world.objects
    BY DEF Signed
  <2>2. world.agent \in Nat /\ world.objects \in Nat /\ process \in Nat
    BY DEF IInv, TypeOK, World
  <2> SUFFICES ASSUME NEW t \in targets' PROVE Dated(t)'
    BY DEF Dates
  <2>3. CASE t \in targets
    BY <2>3 DEF IInv, Dates, Dated, Resolve
  <2>4. CASE t = Signed(world, a) /\ t \notin targets
    BY <2>1, <2>2, <2>4 DEF IInv, TypeOK, Dated, Resolve
  <2> QED BY <1>1, <2>3, <2>4
<1>4. Shutting'
  BY DEF Resolve, IInv, Shutting, caller
<1> QED BY <1>1, <1>2, <1>3, <1>4, SettingStep DEF Resolve

\* A change of the situation outdates the targets, or leaves the agent and the objects.
LEMMA ChangeStep ==
  ASSUME IInv, NEW w \in World, world' = w, w.agent >= world.agent /\ w.objects >= world.objects,
         \/ outdated' = outdated
         \/ outdated' = targets /\ (w.agent > world.agent \/ w.objects > world.objects),
         changes' \in 0 .. MaxChanges, UNCHANGED <<process, service, targets, caller, store, provider>>
  PROVE  IInv'
<1>1. Dates'
  <2> SUFFICES ASSUME NEW t \in targets PROVE Dated(t)'
    BY DEF Dates
  <2>1. t \in Target /\ Dated(t)
    BY DEF IInv, TypeOK, Dates
  <2>2. t.agent \in Nat /\ t.objects \in Nat /\ t.process \in Nat /\ process \in Nat
    BY <2>1 DEF Target, IInv, TypeOK
  <2>3. world.agent \in Nat /\ world.objects \in Nat /\ w.agent \in Nat /\ w.objects \in Nat
    BY DEF IInv, TypeOK, World
  <2> QED BY <2>1, <2>2, <2>3 DEF Dated
<1>2. TypeOK'
  BY DEF IInv, TypeOK, caller, provider, store
<1>3. Shutting'
  BY DEF IInv, Shutting, caller
<1> QED BY <1>1, <1>2, <1>3, SettingStep

LEMMA ReplaceStep == ASSUME IInv, ReplaceAgent \/ ReplaceObject PROVE IInv'
<1>1. /\ world \in World /\ world.agent \in Nat /\ world.objects \in Nat
      /\ outdated' = targets /\ UNCHANGED <<process, service, targets, caller, store, provider>>
      /\ changes' \in 0 .. MaxChanges
  BY DEF IInv, TypeOK, World, ReplaceAgent, ReplaceObject, Change
<1>2. CASE ReplaceAgent
  <2>1. /\ world' \in World /\ world'.agent = world.agent + 1 /\ world'.objects = world.objects
    BY <1>1, <1>2 DEF World, ReplaceAgent, Change
  <2> QED BY <1>1, <2>1, ChangeStep
<1>3. CASE ReplaceObject
  <2>1. world' = [world EXCEPT !.objects = @ + 1, !.live = TRUE, !.up = TRUE]
    BY <1>3 DEF ReplaceObject, Change
  <2>2. world'.agent = world.agent /\ world'.objects = world.objects + 1
    BY <1>1, <2>1 DEF World
  <2>3. world' \in World
    <3>1. world' = [agent |-> world.agent, objects |-> world.objects + 1, assistant |-> world.assistant,
                    live |-> TRUE, up |-> TRUE]
      BY <1>1, <2>1 DEF World
    <3>2. world.assistant \in BOOLEAN
      BY <1>1 DEF World
    <3> QED BY <1>1, <3>1, <3>2 DEF World
  <2> QED BY <1>1, <2>2, <2>3, ChangeStep
<1> QED BY <1>2, <1>3

LEMMA ToggleStep == ASSUME IInv, NEW f \in {"live", "up", "assistant"}, Toggle(f) PROVE IInv'
<1>1. /\ world \in World /\ world.agent \in Nat /\ world.objects \in Nat
      /\ outdated' = outdated /\ UNCHANGED <<process, service, targets, caller, store, provider>>
      /\ changes' \in 0 .. MaxChanges
  BY DEF IInv, TypeOK, World, Toggle, Change
<1>2. world' \in World /\ world'.agent = world.agent /\ world'.objects = world.objects
  BY <1>1 DEF World, Toggle, Change
<1> QED BY <1>1, <1>2, ChangeStep

LEMMA ClosedStep == ASSUME IInv, Closed PROVE IInv'
<1>1. TypeOK'
  BY DEF Closed, IInv, TypeOK, caller, provider, store
<1>2. Dates' /\ Shutting'
  BY DEF Closed, Drained, IInv, Dates, Dated, Shutting, caller
<1> QED BY <1>1, <1>2, SettingStep DEF Closed

-----------------------------------------------------------------------------
(* deliver() *)

\* The end of a call: its successor in the tail becomes the holder.
LEMMA FinishStep ==
  ASSUME IInv, NEW c \in Calls, Finish(c), ~Settled(c), lock[call[c].id][1] = c,
         UNCHANGED <<setting, aborted, op, sendQueue, retries, sends, journal, disk>>,
         staged' \subseteq Calls, \A d \in Calls \ {c} : d \in staged' <=> d \in staged,
         op[c] \in Working => c \in aborted,
         answered' \in [Ids -> Nat], Records'
  PROVE  IInv'
<1> DEFINE i == call[c].id
<1> DEFINE q == lock[i]
<1>1. /\ i \in Ids /\ q # <<>> /\ q \in Seq(Calls) /\ lock \in [Ids -> Seq(Calls)] /\ q[1] = c
  BY Waiting
<1>2. /\ Tail(q) \in Seq(Calls) /\ Len(Tail(q)) = Len(q) - 1 /\ Len(q) \in Nat \ {0}
      /\ \A k \in 1 .. Len(q) - 1 : Tail(q)[k] = q[k + 1]
  BY <1>1, Tails
<1>3. call'[c] = Over /\ Over.phase = "done" /\ ~Over.ok /\ \A d \in Calls \ {c} : call'[d] = call[d]
  BY Types DEF Finish, IInv, Over, NoCall
<1>4. lock' \in [Ids -> Seq(Calls)] /\ lock'[i] = Tail(q) /\ \A j \in Ids \ {i} : lock'[j] = lock[j]
  BY <1>1, <1>2 DEF Finish
<1>5. TypeOK'
  <2>1. call' \in [Calls -> CallRecords] /\ targets' = targets
    BY Types DEF Finish, IInv, setting
  <2>2. gone' \subseteq Calls
    BY Types DEF Finish, IInv
  <2> HIDE DEF i, q
  <2> QED BY <1>4, <2>1, <2>2 DEF IInv, TypeOK, setting, CallRecords
<1> HIDE DEF q
<1>6. Locks'
  <2>1. \A j \in Ids : \A k \in 1 .. Len(lock'[j]) : lock'[j][k] \in Calls \ {c} /\ call'[lock'[j][k]].phase \notin {"idle", "done"} /\ call'[lock'[j][k]].id = j
    <3> SUFFICES ASSUME NEW j \in Ids, NEW k \in 1 .. Len(lock'[j])
                 PROVE  lock'[j][k] \in Calls \ {c} /\ call'[lock'[j][k]].phase \notin {"idle", "done"} /\ call'[lock'[j][k]].id = j
      OBVIOUS
    <3>1. PICK m \in 1 .. Len(lock[j]) : lock[j][m] = lock'[j][k] /\ (j = i => m # 1)
      <4>1. CASE j = i
        <5>1. k + 1 \in 1 .. Len(q) /\ Tail(q)[k] = q[k + 1] /\ k + 1 # 1
          BY <1>2, <1>4, <4>1
        <5> QED BY <1>4, <4>1, <5>1 DEF q
      <4>2. CASE j # i
        BY <1>4, <4>2
      <4> QED BY <4>1, <4>2
    <3>2. lock[j][m] \in Calls /\ ~Settled(lock[j][m]) /\ call[lock[j][m]].id = j
      BY <1>1 DEF IInv, Locks
    <3>3. lock[j][m] # c
      <4> SUFFICES ASSUME lock[j][m] = c PROVE FALSE
        OBVIOUS
      <4>1. j = i
        BY <3>2
      <4>2. 1 \in 1 .. Len(q) /\ q[1] = q[m]
        BY <1>1, <1>2, <4>1 DEF q
      <4> QED BY <3>1, <4>1, <4>2 DEF IInv, Locks, q
    <3> QED BY <1>3, <3>1, <3>2, <3>3 DEF Settled
  <2>2. \A j \in Ids : \A k, m \in 1 .. Len(lock'[j]) : lock'[j][k] = lock'[j][m] => k = m
    <3> SUFFICES ASSUME NEW j \in Ids, NEW k \in 1 .. Len(lock'[j]), NEW m \in 1 .. Len(lock'[j]), lock'[j][k] = lock'[j][m]
                 PROVE  k = m
      OBVIOUS
    <3>1. CASE j = i
      <4>1. k \in 1 .. Len(q) - 1 /\ m \in 1 .. Len(q) - 1 /\ Tail(q)[k] = Tail(q)[m]
        BY <1>2, <1>4, <3>1
      <4>2. k + 1 \in 1 .. Len(q) /\ m + 1 \in 1 .. Len(q) /\ q[k + 1] = q[m + 1]
        BY <1>2, <4>1
      <4>3. \A x, y \in 1 .. Len(q) : q[x] = q[y] => x = y
        BY <1>1 DEF IInv, Locks, q
      <4>4. k + 1 = m + 1
        BY <4>2, <4>3
      <4> QED BY <4>1, <4>4
    <3>2. CASE j # i
      BY <1>4, <3>2 DEF IInv, Locks
    <3> QED BY <3>1, <3>2
  <2>3. \A d \in Calls : ~Settled(d)' =>
          /\ call'[d].id \in Ids /\ call'[d].target \in targets'
          /\ \E k \in 1 .. Len(lock'[call'[d].id]) : lock'[call'[d].id][k] = d
    <3> SUFFICES ASSUME NEW d \in Calls, ~Settled(d)'
                 PROVE  /\ call'[d].id \in Ids /\ call'[d].target \in targets'
                        /\ \E k \in 1 .. Len(lock'[call'[d].id]) : lock'[call'[d].id][k] = d
      OBVIOUS
    <3>1. d # c /\ call'[d] = call[d] /\ ~Settled(d)
      BY <1>3 DEF Settled
    <3>2. PICK m \in 1 .. Len(lock[call[d].id]) : lock[call[d].id][m] = d
      BY <3>1 DEF IInv, Locks
    <3>3. call[d].id \in Ids /\ call[d].target \in targets
      BY <3>1, Waiting
    <3>4. CASE call[d].id = i
      <4>1. m # 1
        BY <1>1, <3>1, <3>2, <3>4 DEF q
      <4>2. m - 1 \in 1 .. Len(q) - 1 /\ Tail(q)[m - 1] = q[m - 1 + 1]
        BY <1>2, <3>2, <3>4, <4>1 DEF q
      <4>3. q[m - 1 + 1] = d
        BY <3>2, <3>4 DEF q
      <4>4. m - 1 \in 1 .. Len(Tail(q)) /\ Tail(q)[m - 1] = d
        BY <1>2, <4>2, <4>3
      <4>5. call'[d].id = i /\ i \in Ids /\ targets' = targets
        BY <3>1, <3>3, <3>4 DEF setting
      <4> QED BY <1>4, <3>1, <3>3, <4>4, <4>5
    <3>5. CASE call[d].id # i
      BY <1>4, <3>1, <3>2, <3>3, <3>5 DEF setting
    <3> QED BY <3>4, <3>5
  <2> QED BY <2>1, <2>2, <2>3 DEF Locks, Settled
<1>7. Holders' /\ Workers'
  <2>1. Holds(c)' /\ Works(c)'
    BY <1>3 DEF Holds, Works, Held, Unsent, Working
  <2>2. Others(c) /\ Grows(c)
    <3>1. Others(c)
      BY <1>3 DEF Others
    <3>2. Grows(c)
      BY DEF Grows, IInv, TypeOK
    <3> QED BY <3>1, <3>2
  <2>3. \A d \in Calls \ {c} : call[d].phase \in Held => lock'[call[d].id][1] = lock[call[d].id][1]
    <3> SUFFICES ASSUME NEW d \in Calls \ {c}, call[d].phase \in Held PROVE lock'[call[d].id] = lock[call[d].id]
      OBVIOUS
    <3>1. call[d].id \in Ids /\ lock[call[d].id][1] = d
      BY Waiting DEF Held, Unsent, Settled, IInv, Holders, Holds
    <3>2. call[d].id # i
      BY <1>1, <3>1 DEF q
    <3> QED BY <1>4, <3>1, <3>2
  <2> QED BY <1>5, <2>1, <2>2, <2>3, OthersKeep DEF Holders, Workers
<1>8. Queued' /\ Dates'
  BY DEF IInv, Queued, Dates, Dated, setting
<1>9. Shutting'
  <2>1. service = "closed" => q = <<>>
    BY <1>1 DEF IInv, Shutting, q
  <2> QED BY <1>1, <2>1 DEF Shutting, setting
<1> QED BY <1>5, <1>6, <1>7, <1>8, <1>9 DEF IInv

\* What the record of a call holds.
LEMMA CallTypes ==
  ASSUME IInv, NEW c \in Calls
  PROVE  /\ call[c] \in CallRecords /\ call[c].message \in Nat /\ call[c].ok \in BOOLEAN /\ call[c].phase \in Phases
         /\ call[c].file \in Files \cup {None} /\ call[c].target \in targets \cup {None}
BY Types DEF IInv, CallRecords

LEMMA DeliverStep ==
  ASSUME IInv, NEW c \in Calls, NEW i \in Ids, NEW f \in Files, NEW t \in targets, Deliver(c, i, f, t)
  PROVE  IInv'
<1>1. CASE service # "open"
  <2>1. Over \in CallRecords /\ Over.phase = "done" /\ ~Over.ok /\ call' = [call EXCEPT ![c] = Over]
    BY <1>1, Types DEF IInv, Deliver, Over, NoCall
  <2>2. call'[c] = Over
    BY <2>1, CallTypes, Types DEF IInv
  <2>3. Holds(c)' /\ Works(c)'
    BY <2>1, <2>2 DEF Deliver, IInv, Workers, Holds, Works, Held, Unsent, Working, provider
  <2> HIDE DEF Over
  <2> QED BY <1>1, <2>1, <2>3, QuietStep, Types DEF Deliver, IInv, caller, Settled
<1>2. CASE service = "open"
  <2> DEFINE r == [NoCall EXCEPT !.phase = "queued", !.id = i, !.file = f, !.target = t]
  <2>1. /\ r \in CallRecords /\ r.phase = "queued" /\ r.id = i /\ r.target = t /\ ~r.ok
        /\ call' = [call EXCEPT ![c] = r] /\ lock' = [lock EXCEPT ![i] = Append(@, c)]
    BY <1>2, Types DEF IInv, Deliver, NoCall, CallRecords, Phases
  <2> HIDE DEF r
  <2>2. call'[c] = r /\ \A d \in Calls \ {c} : call'[d] = call[d]
    BY <2>1, Types DEF IInv
  <2>3. call' \in [Calls -> CallRecords]
    BY <2>1, Types DEF IInv
  <2>4. /\ lock \in [Ids -> Seq(Calls)] /\ lock' \in [Ids -> Seq(Calls)]
        /\ \A j \in Ids \ {i} : lock'[j] = lock[j]
        /\ lock[i] \in Seq(Calls) /\ lock'[i] = Append(lock[i], c)
    BY <2>1 DEF IInv, TypeOK
  <2>5. /\ Len(lock'[i]) = Len(lock[i]) + 1 /\ lock'[i][Len(lock[i]) + 1] = c /\ Len(lock[i]) \in Nat
        /\ \A k \in 1 .. Len(lock[i]) : lock'[i][k] = lock[i][k]
    BY <2>4
  <2>6. TypeOK'
    BY <2>3, <2>4 DEF Deliver, IInv, TypeOK, setting, provider, store, CallRecords
  <2>7. Settled(c)
    BY DEF Deliver, Settled
  <2>8. Locks'
    <3>1. \A j \in Ids : \A k \in 1 .. Len(lock'[j]) :
            (lock'[j][k] \in Calls \ {c} /\ k \in 1 .. Len(lock[j]) /\ lock'[j][k] = lock[j][k])
            \/ (lock'[j][k] = c /\ j = i /\ k = Len(lock[i]) + 1)
      <4> SUFFICES ASSUME NEW j \in Ids, NEW k \in 1 .. Len(lock'[j])
                   PROVE  (lock'[j][k] \in Calls \ {c} /\ k \in 1 .. Len(lock[j]) /\ lock'[j][k] = lock[j][k])
                          \/ (lock'[j][k] = c /\ j = i /\ k = Len(lock[i]) + 1)
        OBVIOUS
      <4>1. \A m \in 1 .. Len(lock[j]) : lock[j][m] \in Calls \ {c}
        BY <2>4, <2>7 DEF IInv, Locks
      <4>2. CASE j = i
        BY <2>4, <2>5, <4>1, <4>2
      <4>3. CASE j # i
        BY <2>4, <4>1, <4>3
      <4> QED BY <4>2, <4>3
    <3>2. \A j \in Ids : \A k \in 1 .. Len(lock'[j]) :
            call'[lock'[j][k]].phase \notin {"idle", "done"} /\ call'[lock'[j][k]].id = j
      BY <2>1, <2>2, <3>1 DEF IInv, Locks, Settled
    <3>3. \A j \in Ids : \A k, m \in 1 .. Len(lock'[j]) : lock'[j][k] = lock'[j][m] => k = m
      <4> SUFFICES ASSUME NEW j \in Ids, NEW k \in 1 .. Len(lock'[j]), NEW m \in 1 .. Len(lock'[j]),
                          lock'[j][k] = lock'[j][m]
                   PROVE  k = m
        OBVIOUS
      <4>1. \A x, y \in 1 .. Len(lock[j]) : lock[j][x] = lock[j][y] => x = y
        BY DEF IInv, Locks
      <4>2. CASE lock'[j][k] = c
        BY <3>1, <4>2
      <4>3. CASE lock'[j][k] # c
        <5>1. k \in 1 .. Len(lock[j]) /\ m \in 1 .. Len(lock[j]) /\ lock[j][k] = lock[j][m]
          BY <3>1, <4>3
        <5> QED BY <4>1, <5>1
      <4> QED BY <4>2, <4>3
    <3>4. \A d \in Calls : ~Settled(d)' =>
            /\ call'[d].id \in Ids /\ call'[d].target \in targets'
            /\ \E k \in 1 .. Len(lock'[call'[d].id]) : lock'[call'[d].id][k] = d
      <4> SUFFICES ASSUME NEW d \in Calls, ~Settled(d)'
                   PROVE  /\ call'[d].id \in Ids /\ call'[d].target \in targets'
                          /\ \E k \in 1 .. Len(lock'[call'[d].id]) : lock'[call'[d].id][k] = d
        OBVIOUS
      <4>1. targets' = targets
        BY DEF Deliver, setting
      <4>2. CASE d = c
        <5>1. Len(lock[i]) + 1 \in 1 .. Len(lock'[i])
          BY <2>5
        <5> QED BY <2>1, <2>2, <2>5, <4>1, <4>2, <5>1
      <4>3. CASE d # c
        <5>1. ~Settled(d) /\ call'[d] = call[d]
          BY <2>2, <4>3 DEF Settled
        <5>2. PICK k \in 1 .. Len(lock[call[d].id]) : lock[call[d].id][k] = d
          BY <5>1 DEF IInv, Locks
        <5>3. call[d].id \in Ids /\ call[d].target \in targets
          BY <5>1, Waiting
        <5>4. k \in 1 .. Len(lock'[call[d].id]) /\ lock'[call[d].id][k] = d
          <6>1. CASE call[d].id = i
            BY <2>5, <5>2, <6>1
          <6>2. CASE call[d].id # i
            BY <2>4, <5>2, <5>3, <6>2
          <6> QED BY <6>1, <6>2
        <5> QED BY <4>1, <5>1, <5>3, <5>4
      <4> QED BY <4>2, <4>3
    <3> QED BY <3>2, <3>3, <3>4 DEF Locks, Settled
  <2>9. Holders' /\ Workers'
    <3>1. Holds(c)' /\ Works(c)'
      BY <2>1, <2>2 DEF Deliver, IInv, Workers, Holds, Works, Held, Unsent, Working, provider
    <3>2. Others(c)
      BY <2>2 DEF Others, Deliver, provider
    <3>3. Grows(c)
      BY DEF Grows, Deliver, provider, store, IInv, TypeOK
    <3>4. \A d \in Calls \ {c} : call[d].phase \in Held => lock'[call[d].id][1] = lock[call[d].id][1]
      <4> SUFFICES ASSUME NEW d \in Calls \ {c}, call[d].phase \in Held
                   PROVE  lock'[call[d].id][1] = lock[call[d].id][1]
        OBVIOUS
      <4>1. call[d].id \in Ids /\ lock[call[d].id] # <<>>
        BY Waiting DEF Held, Unsent, Settled
      <4>2. 1 \in 1 .. Len(lock[call[d].id])
        BY <2>4, <4>1, Tails
      <4> QED BY <2>4, <2>5, <4>1, <4>2
    <3> QED BY <2>6, <3>1, <3>2, <3>3, <3>4, OthersKeep DEF Holders, Workers
  <2>10. Queued' /\ Records' /\ Dates' /\ Shutting'
    BY <1>2 DEF Deliver, IInv, Queued, Records, Recorded, Dates, Dated, Shutting, setting, provider, store
  <2> QED BY <2>6, <2>8, <2>9, <2>10 DEF IInv
<1> QED BY <1>1, <1>2

\* A call whose file is not staged yet has no operation and no receipt.
LEMMA Unqueued ==
  ASSUME IInv, NEW c \in Calls, call[c].phase \in {"queued", "staging"}
  PROVE  op[c] = "none" /\ ~call[c].ok
BY DEF IInv, Workers, Works, Holders, Holds

\* A call that ends without a receipt, or with the one that was given out before.
LEMMA FailStep ==
  ASSUME IInv, NEW c \in Calls, Fail(c), ~Settled(c), lock[call[c].id][1] = c,
         UNCHANGED <<setting, aborted, provider, journal, disk>>,
         staged' \subseteq Calls, \A d \in Calls \ {c} : d \in staged' <=> d \in staged,
         op[c] \in Working => c \in aborted
  PROVE  IInv'
<1>1. answered' \in [Ids -> Nat]
  BY DEF Fail, IInv, TypeOK
<1>2. Records'
  BY DEF Fail, IInv, Records, Recorded, provider
<1> QED BY <1>1, <1>2, FinishStep DEF Fail, provider

LEMMA AnswerStep ==
  ASSUME IInv, NEW c \in Calls, NEW m \in Nat, Answer(c, m), ~Settled(c), lock[call[c].id][1] = c,
         UNCHANGED <<setting, aborted, provider, journal, disk>>,
         staged' \subseteq Calls, \A d \in Calls \ {c} : d \in staged' <=> d \in staged,
         op[c] \in Working => c \in aborted,
         journal[call[c].id] # NoEntry, journal[call[c].id].message = m
  PROVE  IInv' /\ (answered' = answered \/ (answered[call[c].id] = 0 /\ m \in 1 .. sends[call[c].id]))
<1>1. call[c].id \in Ids
  BY Waiting
<1>2. answered' \in [Ids -> Nat] /\ answered' = [answered EXCEPT ![call[c].id] = m] /\ answered \in [Ids -> Nat]
  BY DEF Answer, IInv, TypeOK
<1>3. Records'
  BY <1>1, <1>2 DEF IInv, Records, Recorded, provider
<1>4. IInv'
  BY <1>2, <1>3, FinishStep DEF Answer, provider
<1>5. m \in 1 .. sends[call[c].id] /\ (answered[call[c].id] # 0 => answered[call[c].id] = m)
  BY <1>1 DEF IInv, Records, Recorded
<1>6. answered[call[c].id] = m => answered' = answered
  BY <1>1, <1>2
<1> QED BY <1>4, <1>5, <1>6

LEMMA EnterStep ==
  ASSUME IInv, NEW c \in Calls, Enter(c)
  PROVE  IInv' /\ (answered' = answered \/ (answered[call[c].id] = 0 /\ answered'[call[c].id] \in 1 .. sends[call[c].id]
                                              /\ answered' = [answered EXCEPT ![call[c].id] = answered'[call[c].id]]))
<1>1. call[c].phase = "queued" /\ ~Settled(c) /\ call[c].id \in Ids /\ lock[call[c].id][1] = c
  BY Waiting DEF Enter, Settled
<1>2. op[c] = "none" /\ ~call[c].ok
  BY <1>1, Unqueued
<1>3. UNCHANGED <<setting, staged, aborted, provider, journal, disk>> /\ staged' \subseteq Calls /\ (op[c] \in Working => c \in aborted)
  BY <1>2, Types DEF Enter, IInv, Working
<1>4. CASE Fail(c)
  BY <1>1, <1>3, <1>4, FailStep DEF Fail
<1>5. CASE Answer(c, journal[call[c].id].message) /\ journal[call[c].id] # NoEntry
  <2> DEFINE m == journal[call[c].id].message
  <2>1. m \in Nat
    BY <1>1, Types DEF IInv, EntryRecords
  <2>2. IInv' /\ (answered' = answered \/ (answered[call[c].id] = 0 /\ m \in 1 .. sends[call[c].id]))
    BY <1>1, <1>3, <1>5, <2>1, AnswerStep
  <2>3. answered' = [answered EXCEPT ![call[c].id] = m] /\ answered'[call[c].id] = m
    BY <1>1, <1>5 DEF Answer, IInv, TypeOK
  <2> QED BY <2>2, <2>3
<1>6. CASE /\ journal[call[c].id] = NoEntry
           /\ call' = [call EXCEPT ![c].phase = "staging"] /\ UNCHANGED <<lock, gone, answered>>
  <2> DEFINE r == [call[c] EXCEPT !.phase = "staging"]
  <2>1. /\ r \in CallRecords /\ r.phase = "staging" /\ r.id = call[c].id /\ r.target = call[c].target /\ r.ok = call[c].ok
        /\ call' = [call EXCEPT ![c] = r]
    BY <1>6, Types DEF IInv, CallRecords, Phases
  <2> HIDE DEF r
  <2>2. call'[c] = r
    BY <2>1, Types DEF IInv
  <2>3. Holds(c)' /\ Works(c)'
    BY <1>1, <1>2, <1>3, <1>6, <2>1, <2>2 DEF Holds, Works, Held, Unsent, Working, provider
  <2>4. IInv'
    BY <1>1, <1>3, <1>6, <2>1, <2>3, QuietStep, Types DEF IInv, Settled, store
  <2> QED BY <1>6, <2>4
<1> QED BY <1>4, <1>5, <1>6 DEF Enter

LEMMA StageFailsStep == ASSUME IInv, NEW c \in Calls, StageFails(c) PROVE IInv'
<1>1. call[c].phase = "staging" /\ ~Settled(c) /\ lock[call[c].id][1] = c
  BY DEF StageFails, Settled, IInv, Holders, Holds, Held, Unsent
<1>2. op[c] = "none"
  BY <1>1, Unqueued
<1> QED BY <1>1, <1>2, Types, FailStep DEF StageFails, Working, IInv

\* CleanUp(c, ok) gives up the file of a call; its record keeps the rest.
LEMMA CleanUps ==
  ASSUME IInv, NEW c \in Calls, NEW ok \in BOOLEAN, CleanUp(c, ok)
  PROVE  /\ call' \in [Calls -> CallRecords] /\ \A d \in Calls \ {c} : call'[d] = call[d]
         /\ call'[c].phase = "cleanup" /\ call'[c].ok = ok /\ call'[c].id = call[c].id
         /\ call'[c].target = call[c].target /\ call'[c].message = call[c].message
         /\ call'[c] \in CallRecords /\ call' = [call EXCEPT ![c] = call'[c]]
<1> DEFINE r == [call[c] EXCEPT !.phase = "cleanup", !.ok = ok]
<1>1. /\ r \in CallRecords /\ r.phase = "cleanup" /\ r.ok = ok /\ r.id = call[c].id /\ r.target = call[c].target
      /\ r.message = call[c].message
  BY CallTypes DEF CallRecords, Phases
<1>2. call' = [call EXCEPT ![c] = r]
  BY DEF CleanUp
<1> HIDE DEF r
<1> QED BY <1>1, <1>2, Types DEF IInv

\* A step of the service for a call that has its file: it gives the delivery up.
LEMMA GivesUp ==
  ASSUME IInv, NEW c \in Calls, CleanUp(c, FALSE), call[c].phase \in Held \ {"cleanup"},
         UNCHANGED <<setting, lock, provider, store>>,
         gone' \subseteq Calls, aborted' \subseteq Calls, staged' \subseteq Calls,
         \A d \in Calls \ {c} : (d \in aborted' <=> d \in aborted) /\ (d \in staged' <=> d \in staged),
         op[c] \in Working => c \in aborted'
  PROVE  IInv'
<1>1. /\ call'[c].phase = "cleanup" /\ ~call'[c].ok /\ call'[c].id = call[c].id /\ call'[c].target = call[c].target
      /\ call'[c] \in CallRecords /\ call' = [call EXCEPT ![c] = call'[c]]
  BY CleanUps
<1>2. Holds(c)
  BY DEF IInv, Holders
<1>3. Holds(c)' /\ Works(c)'
  BY <1>1, <1>2 DEF Holds, Works, Held, Unsent, Working, provider
<1> DEFINE r == call'[c]
<1>4. r.phase \in {"idle", "done"} <=> Settled(c)
  BY <1>1 DEF Settled, Held, Unsent
<1> QED BY <1>1, <1>3, <1>4, QuietStep

LEMMA StageStep == ASSUME IInv, NEW c \in Calls, Stage(c) PROVE IInv'
<1>1. /\ call[c].phase = "staging" /\ op[c] = "none" /\ ~call[c].ok
      /\ staged' = staged \cup {c} /\ UNCHANGED <<setting, lock, gone, aborted, retries, sends, store>>
  BY Unqueued DEF Stage
<1>2. CASE ~Current(call[c].target)
  <2>1. CleanUp(c, FALSE) /\ UNCHANGED <<op, sendQueue>>
    BY <1>2 DEF Stage
  <2> QED BY <1>1, <2>1, GivesUp, Types DEF provider, Held, Unsent, Working, IInv
<1>3. CASE Current(call[c].target)
  <2> DEFINE r == [call[c] EXCEPT !.phase = "sending"]
  <2>1. /\ r \in CallRecords /\ r.phase = "sending" /\ r.id = call[c].id /\ r.target = call[c].target /\ r.ok = call[c].ok
        /\ call' = [call EXCEPT ![c] = r]
    BY <1>3, CallTypes DEF Stage, CallRecords, Phases
  <2> HIDE DEF r
  <2>2. call'[c] = r /\ \A d \in Calls \ {c} : call'[d] = call[d]
    BY <2>1, Types DEF IInv
  <2>3. op' = [op EXCEPT ![c] = "queued"] /\ sendQueue' = Append(sendQueue, c)
    BY <1>3 DEF Stage
  <2>4. op' \in [Calls -> Operations] /\ op'[c] = "queued" /\ \A d \in Calls \ {c} : op'[d] = op[d]
    BY <2>3 DEF IInv, TypeOK, Operations
  <2>5. /\ sendQueue' \in Seq(Calls) /\ Len(sendQueue') = Len(sendQueue) + 1 /\ Len(sendQueue) \in Nat
        /\ sendQueue'[Len(sendQueue) + 1] = c
        /\ \A k \in 1 .. Len(sendQueue) : sendQueue'[k] = sendQueue[k] /\ sendQueue[k] \in Calls
    BY <2>3 DEF IInv, TypeOK
  <2>6. TypeOK'
    <3>1. call' \in [Calls -> CallRecords]
      BY <2>1, Types DEF IInv
    <3> QED BY <1>1, <2>4, <2>5, <3>1, SMTT(20) DEF IInv, TypeOK, setting, store, CallRecords
  <2>7. Holds(c)
    BY DEF IInv, Holders
  <2>8. Holds(c)' /\ Works(c)'
    BY <1>1, <2>1, <2>2, <2>4, <2>7 DEF Holds, Works, Held, Unsent, Working, store
  <2>9. Queued'
    <3>1. \A k \in 1 .. Len(sendQueue) : sendQueue[k] # c
      BY <1>1 DEF IInv, Queued
    <3>2. \A k \in 1 .. Len(sendQueue') : (k \in 1 .. Len(sendQueue)) \/ (k = Len(sendQueue) + 1)
      BY <2>5
    <3>3. \A k \in 1 .. Len(sendQueue') : op'[sendQueue'[k]] = "queued"
      BY <2>4, <2>5, <3>1, <3>2 DEF IInv, Queued
    <3>4. \A k, m \in 1 .. Len(sendQueue') : sendQueue'[k] = sendQueue'[m] => k = m
      BY <2>5, <3>1, <3>2 DEF IInv, Queued
    <3> QED BY <3>3, <3>4 DEF Queued
  <2>10. Others(c)
    BY <1>1, <2>2, <2>4 DEF Others
  <2>11. Grows(c) /\ Records'
    BY <1>1 DEF Grows, store, IInv, TypeOK, Records, Recorded
  <2>12. Settled(c)' <=> Settled(c)
    BY <1>1, <2>1, <2>2 DEF Settled
  <2> QED BY <1>1, <2>1, <2>2, <2>6, <2>8, <2>9, <2>10, <2>11, <2>12, OneCall
<1> QED BY <1>2, <1>3

LEMMA CallerGivesUpStep == ASSUME IInv, NEW c \in Calls, CallerGivesUp(c) PROVE IInv'
<1>1. gone' \subseteq Calls /\ UNCHANGED <<setting, lock, staged, provider, store>> /\ gone' = gone \cup {c}
  BY Types DEF CallerGivesUp, IInv
<1>2. CASE call[c].phase = "sending"
  BY <1>1, <1>2, GivesUp, Types DEF CallerGivesUp, Held, Unsent, IInv
<1>3. CASE call[c].phase # "sending"
  <2>1. UNCHANGED <<call, aborted>> /\ call \in [Calls -> CallRecords]
    BY <1>3, Types DEF CallerGivesUp, IInv
  <2>2. call' = [call EXCEPT ![c] = call[c]] /\ call[c] \in CallRecords
    BY <2>1
  <2>3. Holds(c) /\ Works(c)
    BY DEF IInv, Holders, Workers
  <2>4. Holds(c)' /\ Works(c)'
    BY <1>1, <2>1, <2>3 DEF Holds, Works, provider, store
  <2> DEFINE r == call[c]
  <2>5. r.phase \in {"idle", "done"} <=> Settled(c)
    BY DEF Settled
  <2> QED BY <1>1, <2>1, <2>2, <2>4, <2>5, QuietStep, Types DEF IInv
<1> QED BY <1>2, <1>3

LEMMA TimesOutStep == ASSUME IInv, NEW c \in Calls, TimesOut(c) PROVE IInv'
BY GivesUp, Types DEF TimesOut, Held, Unsent, IInv

-----------------------------------------------------------------------------
(* The adapter *)

\* Taking the first operation out of the SendQueue.
LEMMA Dequeued ==
  ASSUME IInv, NEW c \in Calls, sendQueue # <<>>, Head(sendQueue) = c, sendQueue' = Tail(sendQueue),
         \A d \in Calls \ {c} : op'[d] = op[d]
  PROVE  op[c] = "queued" /\ sendQueue' \in Seq(Calls) /\ Queued'
<1>1. sendQueue \in Seq(Calls) /\ \A k \in 1 .. Len(sendQueue) : sendQueue[k] \in Calls
  BY DEF IInv, TypeOK
<1>2. /\ sendQueue[1] = c /\ sendQueue' \in Seq(Calls) /\ Len(sendQueue') = Len(sendQueue) - 1
      /\ Len(sendQueue) \in Nat \ {0}
      /\ \A k \in 1 .. Len(sendQueue) - 1 : sendQueue'[k] = sendQueue[k + 1]
  BY <1>1, Tails
<1>3. \A k, m \in 1 .. Len(sendQueue) : sendQueue[k] = sendQueue[m] => k = m
  BY DEF IInv, Queued
<1>4. \A k \in 1 .. Len(sendQueue) : op[sendQueue[k]] = "queued"
  BY DEF IInv, Queued
<1>5. 1 \in 1 .. Len(sendQueue) /\ op[c] = "queued"
  BY <1>2, <1>4
<1>6. \A k \in 1 .. Len(sendQueue') : /\ k + 1 \in 1 .. Len(sendQueue) /\ sendQueue'[k] = sendQueue[k + 1]
                                      /\ sendQueue[k + 1] # c
  <2> SUFFICES ASSUME NEW k \in 1 .. Len(sendQueue')
               PROVE  /\ k + 1 \in 1 .. Len(sendQueue) /\ sendQueue'[k] = sendQueue[k + 1]
                      /\ sendQueue[k + 1] # c
    OBVIOUS
  <2>1. k + 1 \in 1 .. Len(sendQueue) /\ sendQueue'[k] = sendQueue[k + 1] /\ k + 1 # 1
    BY <1>2
  <2>2. sendQueue[k + 1] # sendQueue[1]
    BY <1>3, <1>5, <2>1
  <2> QED BY <1>2, <2>1, <2>2
<1>7. \A k \in 1 .. Len(sendQueue') : op'[sendQueue'[k]] = "queued"
  BY <1>1, <1>4, <1>6
<1>8. \A k, m \in 1 .. Len(sendQueue') : sendQueue'[k] = sendQueue'[m] => k = m
  <2> SUFFICES ASSUME NEW k \in 1 .. Len(sendQueue'), NEW m \in 1 .. Len(sendQueue'), sendQueue'[k] = sendQueue'[m]
               PROVE  k = m
    OBVIOUS
  <2>1. k + 1 = m + 1
    BY <1>3, <1>6
  <2> QED BY <2>1
<1> QED BY <1>2, <1>5, <1>7, <1>8 DEF Queued

\* What the end of an operation tells the call that waits for it.
LEMMA Races ==
  ASSUME IInv, NEW c \in Calls, NEW phase \in {"accepted", "cleanup"}, Race(c, phase),
         phase = "accepted" => op[c] \in {"calling", "backoff"} /\ c \notin aborted,
         UNCHANGED <<lock, journal, sends>>
  PROVE  /\ call' \in [Calls -> CallRecords] /\ \A d \in Calls \ {c} : call'[d] = call[d]
         /\ call'[c].id = call[c].id /\ call'[c].target = call[c].target
         /\ call'[c].phase = IF call[c].phase = "sending" THEN phase ELSE call[c].phase
         /\ Settled(c)' <=> Settled(c)
         /\ Holds(c)'
<1>1. Holds(c)
  BY DEF IInv, Holders
<1>2. CASE call[c].phase # "sending"
  <2>1. call' = call
    BY <1>2 DEF Race
  <2>2. Holds(c)'
    BY <1>1, <2>1 DEF Holds
  <2> QED BY <1>2, <2>1, <2>2, Types DEF IInv, Settled
<1>3. CASE call[c].phase = "sending"
  <2> DEFINE m == IF phase = "accepted" THEN sends[call[c].id] ELSE 0
  <2> DEFINE r == [call[c] EXCEPT !.phase = phase, !.message = m]
  <2>1. call[c].id \in Ids /\ ~Settled(c)
    BY <1>3, Waiting DEF Settled
  <2>2. m \in Nat /\ (phase = "accepted" => m \in 1 .. sends[call[c].id])
    <3>1. sends[call[c].id] \in Nat
      BY <2>1 DEF IInv, TypeOK
    <3>2. phase = "accepted" => sends[call[c].id] # 0
      BY DEF IInv, Workers, Works
    <3> QED BY <3>1, <3>2
  <2>3. call' = [call EXCEPT ![c] = r]
    BY <1>3 DEF Race
  <2> HIDE DEF m
  <2>4. r \in CallRecords /\ r.phase = phase /\ r.message = m /\ r.id = call[c].id /\ r.target = call[c].target /\ r.ok = call[c].ok
    BY <2>2, CallTypes DEF CallRecords, Phases
  <2> HIDE DEF r
  <2>5. call'[c] = r /\ call' \in [Calls -> CallRecords] /\ \A d \in Calls \ {c} : call'[d] = call[d]
    BY <2>3, <2>4, Types DEF IInv
  <2>6. Holds(c)'
    BY <1>1, <1>3, <2>2, <2>4, <2>5 DEF Holds, Held, Unsent
  <2> QED BY <1>3, <2>1, <2>4, <2>5, <2>6 DEF Settled
<1> QED BY <1>2, <1>3

\* An operation ends, called or not.
LEMMA OperationStep ==
  ASSUME IInv, NEW c \in Calls, OperationEnds(c), op[c] # "none",
         NEW phase \in {"accepted", "cleanup"}, Race(c, phase) \/ (call' = call /\ c \in aborted),
         phase = "accepted" => op[c] \in {"calling", "backoff"} /\ c \notin aborted,
         sendQueue' \in Seq(Calls), Queued',
         UNCHANGED <<setting, lock, staged, gone, sends, store>>
  PROVE  IInv'
<1>1. /\ call' \in [Calls -> CallRecords] /\ \A d \in Calls \ {c} : call'[d] = call[d]
      /\ call'[c].id = call[c].id /\ call'[c].target = call[c].target
      /\ call'[c].phase = call[c].phase \/ (call[c].phase = "sending" /\ call'[c].phase = phase)
      /\ Settled(c)' <=> Settled(c)
      /\ Holds(c)'
  <2>1. CASE Race(c, phase)
    BY <2>1, Races DEF store
  <2>2. CASE call' = call
    <3>1. Holds(c)
      BY DEF IInv, Holders
    <3>2. Holds(c)'
      BY <2>2, <3>1 DEF Holds, store
    <3> QED BY <2>2, <3>2, Types DEF IInv, Settled
  <2> QED BY <2>1, <2>2
<1>2. /\ op' \in [Calls -> Operations] /\ op'[c] = "settled" /\ \A d \in Calls \ {c} : op'[d] = op[d]
      /\ retries' \in [Calls -> 0 .. MaxRetries]
  BY DEF OperationEnds, IInv, TypeOK, Operations
<1>3. aborted' \subseteq Calls /\ \A d \in Calls \ {c} : d \in aborted' <=> d \in aborted
  BY Types DEF OperationEnds, IInv
<1>4. TypeOK'
  BY <1>1, <1>2, <1>3 DEF IInv, TypeOK, setting, store, CallRecords
<1>5. Works(c)'
  BY <1>1, <1>2 DEF IInv, Workers, Works, Working
<1>6. Others(c) /\ Grows(c) /\ Records'
  <2>1. Others(c)
    BY <1>1, <1>2, <1>3 DEF Others
  <2>2. Grows(c) /\ Records'
    BY DEF Grows, Records, Recorded, store, IInv, TypeOK
  <2> QED BY <2>1, <2>2
<1> QED BY <1>1, <1>4, <1>5, <1>6, OneCall

\* The provider is asked for a delivery that has no receipt yet.
LEMMA SendStartsStep ==
  ASSUME IInv, NEW c \in Calls, SendStarts(c)
  PROVE  /\ IInv' /\ op[c] = "queued"
         /\ \/ sends' = sends /\ op'[c] # "calling"
            \/ /\ MaySend(c) /\ call[c].id \in Ids /\ call[c].target \in targets /\ answered[call[c].id] = 0
               /\ sends' = [sends EXCEPT ![call[c].id] = @ + 1]
<1>1. \A d \in Calls \ {c} : op'[d] = op[d]
  BY DEF SendStarts, OperationEnds, IInv, TypeOK
<1>2. op[c] = "queued" /\ sendQueue' \in Seq(Calls) /\ Queued'
  BY <1>1, Dequeued DEF SendStarts
<1>3. CASE ~MaySend(c)
  <2>1. OperationEnds(c) /\ Race(c, "cleanup") /\ UNCHANGED <<sends, setting, lock, staged, gone, store>>
    BY <1>3 DEF SendStarts
  <2>2. IInv'
    BY <1>2, <2>1, OperationStep
  <2>3. op'[c] # "calling"
    BY <2>1 DEF OperationEnds, IInv, TypeOK
  <2> QED BY <1>2, <2>1, <2>2, <2>3
<1>4. CASE MaySend(c)
  <2>1. /\ op' = [op EXCEPT ![c] = "calling"] /\ sends' = [sends EXCEPT ![call[c].id] = @ + 1]
        /\ UNCHANGED <<call, aborted, retries, setting, lock, staged, gone, store>>
    BY <1>4 DEF SendStarts
  <2>2. c \notin aborted /\ call[c].phase = "sending" /\ ~Settled(c)
    BY <1>2, <1>4 DEF MaySend, IInv, Workers, Works, Working, Settled
  <2>3. call[c].id \in Ids /\ call[c].target \in targets
    BY <2>2, Waiting
  <2>4. journal[call[c].id] = NoEntry /\ answered[call[c].id] = 0
    BY <2>2, <2>3 DEF IInv, Holders, Holds, Unsent, Records, Recorded
  <2>5. /\ sends \in [Ids -> Nat] /\ sends' \in [Ids -> Nat] /\ sends'[call[c].id] = sends[call[c].id] + 1
        /\ \A i \in Ids : sends'[i] >= sends[i]
    <3>1. sends \in [Ids -> Nat]
      BY DEF IInv, TypeOK
    <3>2. \A i \in Ids : sends'[i] = IF i = call[c].id THEN sends[i] + 1 ELSE sends[i]
      BY <2>1, <2>3, <3>1
    <3> QED BY <2>1, <2>3, <3>1, <3>2
  <2>6. op' \in [Calls -> Operations] /\ op'[c] = "calling"
    BY <2>1 DEF IInv, TypeOK, Operations
  <2>7. TypeOK'
    BY <1>2, <2>1, <2>5, <2>6 DEF IInv, TypeOK, setting, store
  <2>8. Others(c) /\ Grows(c)
    BY <1>1, <2>1, <2>5 DEF Others, Grows, store
  <2>9. Holds(c)' /\ Works(c)'
    <3>1. Holds(c) /\ Works(c)
      BY DEF IInv, Holders, Workers
    <3>2. Holds(c)'
      BY <2>1, <2>2, <3>1 DEF Holds, store
    <3>3. sends'[call[c].id] # 0
      BY <2>3, <2>5
    <3>4. Works(c)'
      BY <2>1, <2>2, <2>6, <3>1, <3>3 DEF Works, Working
    <3> QED BY <3>2, <3>4
  <2>10. Records'
    <3> SUFFICES ASSUME NEW i \in Ids PROVE Recorded(i)'
      BY DEF Records
    <3>1. Recorded(i) /\ sends'[i] >= sends[i] /\ sends[i] \in Nat /\ sends'[i] \in Nat
      BY <2>5 DEF IInv, Records
    <3> QED BY <2>1, <3>1 DEF Recorded, store
  <2>11. IInv'
    BY <1>2, <2>1, <2>7, <2>8, <2>9, <2>10, OneCall DEF Settled
  <2> QED BY <1>2, <1>4, <2>1, <2>3, <2>4, <2>11
<1> QED BY <1>3, <1>4

\* The operation of a call whose request is out goes on.
LEMMA BusyStep ==
  ASSUME IInv, NEW c \in Calls, op[c] \in {"calling", "backoff"}, NEW o \in {"calling", "backoff"},
         op' = [op EXCEPT ![c] = o], retries' \in [Calls -> 0 .. MaxRetries],
         UNCHANGED <<setting, caller, sendQueue, sends, store>>
  PROVE  IInv'
<1>1. op' \in [Calls -> Operations] /\ op'[c] = o /\ \A d \in Calls \ {c} : op'[d] = op[d]
  BY DEF IInv, TypeOK, Operations
<1>2. TypeOK'
  BY <1>1 DEF IInv, TypeOK, setting, caller, store
<1>3. Others(c) /\ Grows(c)
  BY <1>1 DEF Others, Grows, caller, store, IInv, TypeOK
<1>4. Holds(c)' /\ Works(c)'
  <2>1. Holds(c) /\ Works(c)
    BY DEF IInv, Holders, Workers
  <2>2. Holds(c)'
    BY <2>1 DEF Holds, caller, store
  <2>3. Works(c)'
    BY <1>1, <2>1 DEF Works, Working, caller
  <2> QED BY <2>2, <2>3
<1>5. Queued' /\ Records'
  <2>1. Queued'
    BY <1>1, QueueKept
  <2>2. Records'
    BY DEF IInv, Records, Recorded, store
  <2> QED BY <2>1, <2>2
<1> QED BY <1>2, <1>3, <1>4, <1>5, OneCall DEF caller, Settled

LEMMA RequestStep ==
  ASSUME IInv, NEW c \in Calls, Accepts(c) \/ Refuses(c) \/ RateLimited(c) \/ Repeats(c) \/ AbortReaches(c)
  PROVE  IInv' /\ op[c] # "queued"
<1>1. sendQueue' = sendQueue /\ sendQueue \in Seq(Calls) /\ op[c] \in {"calling", "backoff"}
  BY DEF Accepts, Refuses, RateLimited, Repeats, AbortReaches, IInv, TypeOK
<1>2. CASE Accepts(c) \/ Refuses(c) \/ AbortReaches(c)
  <2>1. OperationEnds(c) /\ \A d \in Calls \ {c} : op'[d] = op[d]
    BY <1>2 DEF Accepts, Refuses, AbortReaches, OperationEnds, IInv, TypeOK
  <2>2. Queued'
    BY <1>1, <2>1, QueueKept
  <2>3. CASE Accepts(c)
    BY <1>1, <2>2, <2>3, OperationStep DEF Accepts
  <2>4. CASE Refuses(c)
    BY <1>1, <2>2, <2>4, OperationStep DEF Refuses
  <2>5. CASE AbortReaches(c)
    BY <1>1, <2>2, <2>5, OperationStep DEF AbortReaches
  <2> QED BY <1>1, <1>2, <2>3, <2>4, <2>5
<1>3. CASE RateLimited(c)
  <2>1. retries' \in [Calls -> 0 .. MaxRetries]
    BY <1>3 DEF RateLimited, IInv, TypeOK
  <2> QED BY <1>1, <1>3, <2>1, BusyStep DEF RateLimited
<1>4. CASE Repeats(c)
  <2>1. retries' \in [Calls -> 0 .. MaxRetries]
    BY <1>4 DEF Repeats, IInv, TypeOK
  <2> QED BY <1>1, <1>4, <2>1, BusyStep DEF Repeats
<1> QED BY <1>2, <1>3, <1>4

-----------------------------------------------------------------------------
(* The journal *)

LEMMA CommitStep == ASSUME IInv, NEW c \in Calls, Commit(c) \/ CommitFails(c) PROVE IInv'
<1> DEFINE i == call[c].id
<1> DEFINE e == [file |-> call[c].file, target |-> call[c].target, message |-> call[c].message]
<1>1. call[c].phase = "accepted" /\ ~Settled(c) /\ UNCHANGED <<setting, lock, staged, gone, aborted, provider, answered>>
  BY DEF Commit, CommitFails, Settled
<1>2. i \in Ids /\ Holds(c) /\ Works(c)
  BY <1>1, Waiting DEF IInv, Holders, Workers
<1>3. journal[i] = NoEntry /\ call[c].message \in 1 .. sends[i] /\ sends[i] \in Nat /\ answered[i] = 0
  BY <1>1, <1>2 DEF Holds, Unsent, IInv, TypeOK, Records, Recorded
<1>4. e \in EntryRecords /\ e # NoEntry /\ e.message = call[c].message /\ Entry(c) = e
  BY <1>3, CallTypes DEF EntryRecords, NoEntry, Entry
<1>5. /\ journal \in [Ids -> EntryRecords] /\ disk \in [Ids -> EntryRecords]
      /\ [journal EXCEPT ![i] = e] \in [Ids -> EntryRecords]
  BY <1>4, Types DEF IInv
<1> HIDE DEF e
<1>6. PICK ok \in BOOLEAN :
        /\ CleanUp(c, ok)
        /\ \/ ok /\ journal' = [journal EXCEPT ![i] = e] /\ disk' = journal'
           \/ ~ok /\ journal' = journal /\ disk' \in {disk, [journal EXCEPT ![i] = e]}
  <2>1. CASE Commit(c)
    BY <1>3, <1>4, <2>1 DEF Commit
  <2>2. CASE CommitFails(c)
    BY <1>4, <2>2 DEF CommitFails
  <2> QED BY <2>1, <2>2
<1>7. /\ call' \in [Calls -> CallRecords] /\ \A d \in Calls \ {c} : call'[d] = call[d]
      /\ call'[c].phase = "cleanup" /\ call'[c].ok = ok /\ call'[c].id = i
      /\ call'[c].target = call[c].target /\ call'[c].message = call[c].message
  BY <1>6, CleanUps
<1>8. journal' \in [Ids -> EntryRecords] /\ disk' \in [Ids -> EntryRecords] /\ \A j \in Ids \ {i} : journal'[j] = journal[j]
  BY <1>5, <1>6
<1>9. TypeOK'
  BY <1>1, <1>7, <1>8 DEF IInv, TypeOK, setting, provider, CallRecords, EntryRecords
<1>10. Others(c) /\ Grows(c)
  <2>1. Others(c)
    BY <1>1, <1>7 DEF Others, provider
  <2>2. sends' = sends /\ sends \in [Ids -> Nat]
    BY <1>1 DEF provider, IInv, TypeOK
  <2>3. call[c].phase \in Held
    BY <1>1 DEF Held, Unsent
  <2>4. Grows(c)
    BY <1>8, <2>2, <2>3 DEF Grows
  <2> QED BY <2>1, <2>4
<1>11. Holds(c)' /\ Works(c)'
  <2>1. ok => journal'[i] = e
    BY <1>2, <1>5, <1>6
  <2>2. Holds(c)'
    BY <1>1, <1>2, <1>4, <1>7, <2>1 DEF Holds, Held, Unsent
  <2>3. Works(c)'
    BY <1>1, <1>2, <1>7 DEF Works, Working, provider
  <2> QED BY <2>2, <2>3
<1>12. Records'
  <2> SUFFICES ASSUME NEW j \in Ids PROVE Recorded(j)'
    BY DEF Records
  <2>1. Recorded(j) /\ answered'[j] = answered[j] /\ sends'[j] = sends[j]
    BY <1>1 DEF IInv, Records, provider
  <2>2. CASE j = i
    <3>1. journal'[i] = journal[i] \/ (journal'[i] = e /\ disk'[i] = e)
      BY <1>2, <1>5, <1>6
    <3>2. disk'[i] = disk[i] \/ disk'[i] = e
      BY <1>2, <1>5, <1>6
    <3> QED BY <1>3, <1>4, <2>1, <2>2, <3>1, <3>2 DEF Recorded
  <2>3. CASE j # i
    <3>1. journal'[j] = journal[j] /\ (disk'[j] = disk[j] \/ disk'[j] = journal[j])
      BY <1>5, <1>6, <2>3
    <3> QED BY <2>1, <3>1 DEF Recorded
  <2> QED BY <2>2, <2>3
<1>13. Queued'
  BY <1>1 DEF IInv, Queued, provider
<1>14. Settled(c)' <=> Settled(c)
  BY <1>1, <1>7 DEF Settled
<1> QED BY <1>1, <1>7, <1>9, <1>10, <1>11, <1>12, <1>13, <1>14, OneCall

\* deliver() returns a receipt only after the journal has it.
LEMMA RemoveStagedStep ==
  ASSUME IInv, NEW c \in Calls, RemoveStaged(c)
  PROVE  IInv' /\ (answered' = answered \/ (answered[call[c].id] = 0 /\ answered'[call[c].id] \in 1 .. sends[call[c].id]
                                              /\ answered' = [answered EXCEPT ![call[c].id] = answered'[call[c].id]]))
<1>1. call[c].phase = "cleanup" /\ ~Settled(c) /\ call[c].id \in Ids /\ lock[call[c].id][1] = c
  BY Waiting DEF RemoveStaged, Settled, IInv, Holders, Holds, Held
<1>2. /\ UNCHANGED <<setting, aborted, provider, journal, disk>> /\ staged' \subseteq Calls
      /\ \A d \in Calls \ {c} : d \in staged' <=> d \in staged
  BY Types DEF RemoveStaged, IInv
<1>3. op[c] \in Working => c \in aborted
  BY <1>1 DEF IInv, Workers, Works
<1>4. CASE ~call[c].ok
  BY <1>1, <1>2, <1>3, <1>4, FailStep DEF RemoveStaged, Fail
<1>5. CASE call[c].ok
  <2> DEFINE m == call[c].message
  <2>1. m \in Nat /\ journal[call[c].id] # NoEntry /\ journal[call[c].id].message = m
    BY <1>5, CallTypes DEF IInv, Holders, Holds
  <2>2. Answer(c, m)
    BY <1>5 DEF RemoveStaged
  <2>3. IInv' /\ (answered' = answered \/ (answered[call[c].id] = 0 /\ m \in 1 .. sends[call[c].id]))
    BY <1>1, <1>2, <1>3, <2>1, <2>2, AnswerStep
  <2>4. answered' = [answered EXCEPT ![call[c].id] = m] /\ answered'[call[c].id] = m
    BY <1>1, <2>2 DEF Answer, IInv, TypeOK
  <2> QED BY <2>3, <2>4
<1> QED BY <1>4, <1>5

-----------------------------------------------------------------------------
(* Steps of many calls *)

\* Some of the calls that wait for the adapter give their delivery up.
LEMMA ManyGiveUp ==
  ASSUME IInv, NEW S \in SUBSET Calls,
         call' = [c \in Calls |-> IF c \in S /\ call[c].phase = "sending"
                                    THEN [call[c] EXCEPT !.phase = "cleanup"] ELSE call[c]],
         UNCHANGED <<lock, targets, journal, sends>>
  PROVE  /\ call' \in [Calls -> CallRecords] /\ Locks' /\ Holders'
         /\ \A d \in Calls : /\ call'[d].id = call[d].id
                             /\ call'[d].phase = IF d \in S /\ call[d].phase = "sending" THEN "cleanup" ELSE call[d].phase
<1>1. \A d \in Calls : /\ call'[d] \in CallRecords
                       /\ call'[d].id = call[d].id /\ call'[d].target = call[d].target
                       /\ call'[d].message = call[d].message /\ call'[d].ok = call[d].ok
                       /\ call'[d].phase = IF d \in S /\ call[d].phase = "sending" THEN "cleanup" ELSE call[d].phase
  BY CallTypes DEF CallRecords, Phases
<1>2. call' \in [Calls -> CallRecords]
  BY <1>1
<1>3. Locks'
  <2>1. \A d \in Calls : Settled(d)' <=> Settled(d)
    BY <1>1 DEF Settled
  <2> QED BY <1>1, <2>1, LocksKept DEF IInv
<1>4. Holders'
  <2> SUFFICES ASSUME NEW d \in Calls PROVE Holds(d)'
    BY DEF Holders
  <2>1. Holds(d)
    BY DEF IInv, Holders
  <2>2. call[d].phase = "sending" => ~call[d].ok
    BY <2>1 DEF Holds
  <2> QED BY <1>1, <2>1, <2>2 DEF Holds, Held, Unsent
<1> QED BY <1>1, <1>2, <1>3, <1>4

LEMMA AdapterStopsStep == ASSUME IInv, AdapterStops PROVE IInv'
<1> DEFINE S == {c \in Calls : op[c] = "queued"}
<1>1. /\ UNCHANGED <<process, service, targets, outdated, lock, staged, gone, retries, sends, store>>
      /\ sendQueue' = <<>> /\ op' = [c \in Calls |-> IF op[c] = "queued" THEN "settled" ELSE op[c]]
      /\ aborted' = {c \in aborted : op[c] # "queued"} /\ changes' \in 0 .. MaxChanges
      /\ world' = [world EXCEPT !.up = FALSE]
  BY DEF AdapterStops, IInv, TypeOK
<1>2. call' = [c \in Calls |-> IF c \in S /\ call[c].phase = "sending"
                                 THEN [call[c] EXCEPT !.phase = "cleanup"] ELSE call[c]]
  BY DEF AdapterStops
<1>3. /\ call' \in [Calls -> CallRecords] /\ Locks' /\ Holders'
      /\ \A d \in Calls : call'[d].id = call[d].id
      /\ \A d \in Calls : call'[d].phase = IF d \in S /\ call[d].phase = "sending" THEN "cleanup" ELSE call[d].phase
  BY <1>1, <1>2, ManyGiveUp DEF store
<1>4. world \in World /\ world' \in World /\ world'.agent = world.agent /\ world'.objects = world.objects
  BY <1>1 DEF IInv, TypeOK, World
<1>5. op' \in [Calls -> Operations] /\ <<>> \in Seq(Calls) /\ aborted' \subseteq Calls
  BY <1>1, Types DEF IInv, TypeOK, Operations
<1>6. TypeOK'
  BY <1>1, <1>3, <1>4, <1>5 DEF IInv, TypeOK, store, CallRecords
<1>7. Workers'
  <2> SUFFICES ASSUME NEW d \in Calls PROVE Works(d)'
    BY DEF Workers
  <2>1. Works(d)
    BY DEF IInv, Workers
  <2>2. op'[d] = IF op[d] = "queued" THEN "settled" ELSE op[d]
    BY <1>1
  <2> QED BY <1>1, <1>3, <2>1, <2>2 DEF Works, Working
<1>8. Queued' /\ Records'
  BY <1>1 DEF Queued, IInv, Records, Recorded, store
<1>9. Dates' /\ Shutting'
  BY <1>1, <1>4 DEF IInv, Dates, Dated, Shutting
<1> QED BY <1>3, <1>6, <1>7, <1>8, <1>9 DEF IInv

LEMMA CloseStep == ASSUME IInv, Close PROVE IInv'
<1> DEFINE S == {c \in Calls : call[c].phase = "sending"}
<1>1. /\ UNCHANGED <<process, world, targets, outdated, changes, lock, staged, gone, provider, store>>
      /\ service' = "closing" /\ aborted' = aborted \cup S
  BY DEF Close
<1>2. call' = [c \in Calls |-> IF c \in S /\ call[c].phase = "sending"
                                 THEN [call[c] EXCEPT !.phase = "cleanup"] ELSE call[c]]
  BY DEF Close
<1>3. /\ call' \in [Calls -> CallRecords] /\ Locks' /\ Holders'
      /\ \A d \in Calls : call'[d].id = call[d].id
      /\ \A d \in Calls : call'[d].phase = IF d \in S /\ call[d].phase = "sending" THEN "cleanup" ELSE call[d].phase
  BY <1>1, <1>2, ManyGiveUp DEF store, provider
<1>4. aborted' \subseteq Calls
  BY <1>1, Types DEF IInv
<1>5. TypeOK'
  BY <1>1, <1>3, <1>4 DEF IInv, TypeOK, store, provider, CallRecords
<1>6. Workers'
  <2> SUFFICES ASSUME NEW d \in Calls PROVE Works(d)'
    BY DEF Workers
  <2>1. Works(d)
    BY DEF IInv, Workers
  <2>2. op'[d] = op[d] /\ sends' = sends
    BY <1>1 DEF provider
  <2> QED BY <1>1, <1>3, <2>1, <2>2 DEF Works, Working
<1>7. Queued' /\ Records' /\ Dates' /\ Shutting'
  BY <1>1 DEF Queued, IInv, Records, Recorded, store, provider, Dates, Dated, Shutting
<1> QED BY <1>3, <1>5, <1>6, <1>7 DEF IInv

\* A process dies: its calls are over, and the next one loads the journal.
LEMMA RestartStep == ASSUME IInv, Restart PROVE IInv'
<1>1. process' = process + 1 /\ process \in Nat /\ process' \in 1 .. MaxProcesses
  BY DEF Restart, IInv, TypeOK
<1>2. \A d \in Calls : Over \in CallRecords /\ Over.phase = "done" /\ ~Over.ok
  BY Types DEF IInv, Over, NoCall
<1>3. /\ call' \in [Calls -> CallRecords]
      /\ \A d \in Calls : /\ call'[d].phase \in {"idle", "done"} /\ ~call'[d].ok
                          /\ call'[d].phase = "idle" => call'[d] = call[d]
  <2>1. \A d \in Calls : call'[d] = (IF Settled(d) THEN call[d] ELSE Over) /\ call[d] \in CallRecords
    BY CallTypes DEF Restart
  <2>2. \A d \in Calls : Settled(d) => ~call[d].ok
    BY DEF IInv, Holders, Holds, Settled
  <2>3. call' \in [Calls -> CallRecords]
    BY <1>2, <2>1 DEF Restart
  <2> HIDE DEF Over
  <2> QED BY <1>2, <2>1, <2>2, <2>3 DEF Settled
<1>4. op' \in [Calls -> Operations] /\ \A d \in Calls : op'[d] = IF op[d] = "none" THEN "none" ELSE "settled"
  BY DEF Restart, Operations
<1>5. lock' \in [Ids -> Seq(Calls)] /\ sendQueue' \in Seq(Calls) /\ retries' \in [Calls -> 0 .. MaxRetries]
  BY DEF Restart
<1>6. Start \in World
  BY DEF Start, World
<1>7. TypeOK'
  BY <1>1, <1>3, <1>4, <1>5, <1>6 DEF Restart, IInv, TypeOK, CallRecords
<1>8. Locks' /\ Queued'
  BY <1>3 DEF Restart, Locks, Queued, Settled
<1>9. Holders'
  BY <1>3 DEF Holders, Holds, Held, Unsent
<1>10. Workers'
  BY <1>3, <1>4 DEF IInv, Workers, Works, Working
<1>11. Records'
  BY DEF Restart, IInv, Records, Recorded
<1>12. Dates' /\ Shutting'
  <2>1. \A t \in targets : t.process \in Nat /\ t.process <= process
    BY DEF IInv, TypeOK, Target, Dates, Dated
  <2> QED BY <1>1, <2>1 DEF Restart, Dates, Dated, Shutting
<1> QED BY <1>7, <1>8, <1>9, <1>10, <1>11, <1>12 DEF IInv

-----------------------------------------------------------------------------
(* All steps *)

\* The one step that lets the provider work, and the two that give a receipt out.
Sends(c)   == /\ op[c] = "queued" /\ MaySend(c) /\ call[c].id \in Ids /\ call[c].target \in targets
              /\ answered[call[c].id] = 0 /\ answered' = answered
              /\ sends' = [sends EXCEPT ![call[c].id] = @ + 1]
Answers(i) == /\ answered[i] = 0 /\ answered'[i] \in 1 .. sends[i] /\ sends' = sends
              /\ answered' = [answered EXCEPT ![i] = answered'[i]]

LEMMA ServiceStep ==
  ASSUME IInv, NEW c \in Calls, Delivery(c)
  PROVE  /\ IInv' /\ sends' = sends
         /\ answered' = answered \/ \E i \in Ids : Answers(i)
         /\ \A d \in Calls : op'[d] = op[d] \/ op'[d] = "queued"
<1>1. CASE \E i \in Ids, f \in Files, t \in targets : Deliver(c, i, f, t)
  BY <1>1, DeliverStep DEF Deliver, provider, store
<1>2. CASE Enter(c)
  <2>1. IInv' /\ UNCHANGED <<sends, op>>
    BY <1>2, EnterStep DEF Enter, provider
  <2>2. answered' = answered \/ \E i \in Ids : Answers(i)
    <3>1. call[c].id \in Ids
      BY <1>2, Waiting DEF Enter, Settled
    <3> QED BY <1>2, <2>1, <3>1, EnterStep DEF Answers
  <2> QED BY <2>1, <2>2
<1>3. CASE RemoveStaged(c)
  <2>1. IInv' /\ UNCHANGED <<sends, op>>
    BY <1>3, RemoveStagedStep DEF RemoveStaged, provider
  <2>2. answered' = answered \/ \E i \in Ids : Answers(i)
    <3>1. call[c].id \in Ids
      BY <1>3, Waiting DEF RemoveStaged, Settled
    <3> QED BY <1>3, <2>1, <3>1, RemoveStagedStep DEF Answers
  <2> QED BY <2>1, <2>2
<1>4. CASE Stage(c)
  BY <1>4, StageStep DEF Stage, store, IInv, TypeOK
<1>5. CASE StageFails(c)
  BY <1>5, StageFailsStep DEF StageFails, provider, Fail
<1>6. CASE CallerGivesUp(c)
  BY <1>6, CallerGivesUpStep DEF CallerGivesUp, provider, store
<1>7. CASE TimesOut(c)
  BY <1>7, TimesOutStep DEF TimesOut, provider, store
<1>8. CASE Commit(c) \/ CommitFails(c)
  BY <1>8, CommitStep DEF Commit, CommitFails, provider
<1> QED BY <1>1, <1>2, <1>3, <1>4, <1>5, <1>6, <1>7, <1>8 DEF Delivery, Progress

LEMMA Stutter == ASSUME IInv, UNCHANGED vars PROVE IInv'
BY SettingStep DEF vars, setting, caller, provider, store, IInv, TypeOK, Dates, Dated, Shutting

\* Every step keeps the invariant, and asks the provider or answers as the ledger allows.
LEMMA NextStep ==
  ASSUME IInv, [Next]_vars
  PROVE  /\ IInv'
         /\ \/ UNCHANGED <<sends, answered>>
            \/ \E i \in Ids : Answers(i)
            \/ \E c \in Calls : Sends(c)
         /\ \A d \in Calls : Calling(d, {"queued"}) => Sends(d)
<1>1. CASE \E c \in Calls : Delivery(c)
  <2>1. PICK c \in Calls : Delivery(c)
    BY <1>1
  <2>2. /\ IInv' /\ sends' = sends /\ (answered' = answered \/ \E i \in Ids : Answers(i))
        /\ \A d \in Calls : op'[d] = op[d] \/ op'[d] = "queued"
    BY <2>1, ServiceStep
  <2> QED BY <2>2 DEF Calling
<1>2. CASE \E c \in Calls : SendStarts(c)
  <2>1. PICK c \in Calls : SendStarts(c)
    BY <1>2
  <2>2. answered' = answered /\ \A d \in Calls \ {c} : op'[d] = op[d]
    BY <2>1 DEF SendStarts, store, OperationEnds, IInv, TypeOK
  <2>3. IInv' /\ (Sends(c) \/ (sends' = sends /\ op'[c] # "calling"))
    BY <2>1, <2>2, SendStartsStep DEF Sends
  <2> QED BY <2>2, <2>3 DEF Calling
<1>3. CASE \E c \in Calls : Accepts(c) \/ Refuses(c) \/ RateLimited(c) \/ Repeats(c) \/ AbortReaches(c)
  <2>1. PICK c \in Calls : Accepts(c) \/ Refuses(c) \/ RateLimited(c) \/ Repeats(c) \/ AbortReaches(c)
    BY <1>3
  <2>2. IInv' /\ op[c] # "queued"
    BY <2>1, RequestStep
  <2>3. UNCHANGED <<sends, answered>> /\ \A d \in Calls \ {c} : op'[d] = op[d]
    BY <2>1 DEF Accepts, Refuses, RateLimited, Repeats, AbortReaches, OperationEnds, store, IInv, TypeOK
  <2> QED BY <2>2, <2>3 DEF Calling
<1>4. CASE (\E a \in BOOLEAN : Resolve(a)) \/ Closed \/ Close
  <2>1. IInv'
    BY <1>4, ResolveStep, ClosedStep, CloseStep
  <2>2. UNCHANGED <<sends, answered, op>>
    BY <1>4 DEF Resolve, Closed, Close, provider, store
  <2> QED BY <2>1, <2>2 DEF Calling
<1>5. CASE Situation
  <2>1. IInv'
    BY <1>5, ReplaceStep, ToggleStep, AdapterStopsStep DEF Situation
  <2>2. UNCHANGED <<sends, answered>> /\ \A d \in Calls : op'[d] = op[d] \/ op'[d] = "settled"
    BY <1>5 DEF Situation, Toggle, ReplaceAgent, ReplaceObject, AdapterStops, Change, provider, store
  <2> QED BY <2>1, <2>2 DEF Calling
<1>6. CASE Restart
  <2>1. IInv'
    BY <1>6, RestartStep
  <2>2. UNCHANGED <<sends, answered>> /\ \A d \in Calls : op'[d] # "calling"
    BY <1>6 DEF Restart
  <2> QED BY <2>1, <2>2 DEF Calling
<1>7. CASE UNCHANGED vars
  BY <1>7, Stutter DEF vars, caller, provider, store, Calling
<1> QED BY <1>1, <1>2, <1>3, <1>4, <1>5, <1>6, <1>7 DEF Next, Operation

\* The invariant holds in every state.
THEOREM Invariance == Spec => []IInv
<1>1. IInv /\ [Next]_vars => IInv'
  BY NextStep
<1> QED BY Started, <1>1, PTL DEF Spec

\* The variables keep their types.
THEOREM TypesKept == Spec => []TypeOK
<1>1. IInv => TypeOK
  BY DEF IInv
<1> QED BY <1>1, Invariance, PTL

\* A request for a target means that the target is current: it was not replaced
\* since it was resolved, and the session can be delivered to.
LEMMA CurrentIsNotReplaced ==
  ASSUME IInv, NEW c \in Calls, Sends(c)
  PROVE  ~Replaced(c) /\ world.live /\ world.up /\ service = "open"
<1> DEFINE t == call[c].target
<1>1. service = "open" /\ world.live /\ world.up /\ t = Signed(world, t.forAssistant) /\ t \in targets
  BY DEF Sends, MaySend, Current, Verified, Usable
<1>2. t.process = process /\ t.agent = world.agent /\ t.objects = world.objects
  BY <1>1 DEF Signed
<1>3. world.agent \in Nat /\ world.objects \in Nat
  BY DEF IInv, TypeOK, World
<1>4. t \notin outdated
  BY <1>1, <1>2, <1>3 DEF IInv, Dates, Dated
<1> QED BY <1>1, <1>4 DEF Replaced

LEMMA FilesAreStaged == IInv => FileOutlivesSend
BY DEF IInv, Workers, Works, Working, FileOutlivesSend

LEMMA ClosedIsDrained == IInv => CloseDrains
<1> SUFFICES ASSUME IInv, service = "closed", NEW c \in Calls
             PROVE  Settled(c) /\ (op[c] \in Working => c \in aborted)
  BY DEF CloseDrains, Working
<1>1. Settled(c)
  <2> SUFFICES ASSUME ~Settled(c) PROVE FALSE
    OBVIOUS
  <2>1. call[c].id \in Ids /\ lock[call[c].id] # <<>>
    BY Waiting
  <2> QED BY <2>1 DEF IInv, Shutting
<1> QED BY <1>1 DEF IInv, Workers, Works, Settled

\* For any calls and ids: attachment delivery implements the ledger, the
\* provider is asked first for a current target whose file is still staged,
\* and the service closes behind the last delivery.
THEOREM Soundness == Spec => DeliveriesAreSound
<1>1. Init => Ledger!Init
  BY DEF Init, Ledger!Init
<1>2. IInv /\ [Next]_vars => [Ledger!Next]_<<sends, answered>>
  <2> SUFFICES ASSUME IInv, [Next]_vars PROVE [Ledger!Next]_<<sends, answered>>
    OBVIOUS
  <2>1. CASE UNCHANGED <<sends, answered>>
    BY <2>1
  <2>2. ASSUME NEW i \in Ids, Answers(i) PROVE Ledger!Next
    BY <2>2 DEF Answers, Ledger!Next, Ledger!Answer
  <2>3. ASSUME NEW c \in Calls, Sends(c) PROVE Ledger!Next
    BY <2>3 DEF Sends, Ledger!Next, Ledger!Send
  <2> QED BY <2>1, <2>2, <2>3, NextStep
<1>3. Spec => ImplementsDeliveryLedger
  BY <1>1, <1>2, Invariance, PTL DEF Spec, ImplementsDeliveryLedger, Ledger!Spec
<1>4. IInv /\ [Next]_vars => [\A c \in Calls : Calling(c, {"queued"}) =>
                                ~Replaced(c) /\ world.live /\ world.up /\ service = "open"]_vars
  BY NextStep, CurrentIsNotReplaced
<1>5. Spec => FirstSendIsCurrent
  BY <1>4, Invariance, PTL DEF Spec, FirstSendIsCurrent
<1>6. Spec => []FileOutlivesSend /\ []CloseDrains
  BY FilesAreStaged, ClosedIsDrained, Invariance, PTL
<1> QED BY <1>3, <1>5, <1>6, PTL DEF DeliveriesAreSound, SendsAreSound

=============================================================================
