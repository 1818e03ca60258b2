--------------------------- MODULE SessionStoreProofs ---------------------------
(***************************************************************************)
(* For any finite set of sessions and any values, SessionStore implements  *)
(* RecordStore. What makes it work is that the working view is always the  *)
(* replay of the pending mutations over the durable generation, so that    *)
(* dropping the mutation staged last restores the view before it.          *)
(***************************************************************************)
EXTENDS SessionStore, FiniteSetTheorems, TLAPS

USE StoreAssumption

(***************************************************************************)
(* The replay. That a record which is touched has a last touch is proved   *)
(* along with the invariant, one staged mutation at a time.                *)
(***************************************************************************)
Last(p, i, k) == k \in Touches(p, i) /\ \A l \in Touches(p, i) : l <= k

EveryTouchHasALast(p) == \A i \in Ids : Touches(p, i) # {} => \E k \in Nat : Last(p, i, k)

\* What a sequence of mutations names and writes.
LEMMA MutationsAreTyped ==
  ASSUME NEW p \in Seq(Mutation), NEW k \in DOMAIN p
  PROVE  k \in 1 .. Len(p) /\ k \in Nat /\ p[k].id \in Ids /\ p[k].value \in Values \cup {None}
<1>1. k \in 1 .. Len(p) /\ p[k] \in Mutation
  OBVIOUS
<1> QED BY <1>1 DEF Mutation

\* The mutation at the last touch is the one the replay takes.
LEMMA ReplayTakesLast ==
  ASSUME NEW p \in Seq(Mutation), NEW d, NEW i \in Ids, NEW k \in Nat, Last(p, i, k)
  PROVE  Replay(d, p)[i] = p[k].value
<1>1. LastTouch(p, i) = k
  <2>1. LastTouch(p, i) \in Touches(p, i) /\ \A l \in Touches(p, i) : l <= LastTouch(p, i)
    BY DEF Last, LastTouch
  <2>2. Touches(p, i) \subseteq Nat
    BY DEF Touches
  <2> QED BY <2>1, <2>2 DEF Last
<1> QED BY <1>1 DEF Replay, Last

\* A record nobody touched is the durable one.
LEMMA ReplayKeepsUntouched ==
  ASSUME NEW p, NEW d, NEW i \in Ids, Touches(p, i) = {}
  PROVE  Replay(d, p)[i] = d[i]
BY DEF Replay

\* The replay of nothing is the durable generation.
LEMMA ReplayOfNothing ==
  ASSUME NEW d \in View
  PROVE  Replay(d, <<>>) = d /\ EveryTouchHasALast(<<>>)
BY DEF Replay, Touches, View, EveryTouchHasALast

\* No mutation of q concerns record i.
Spares(q, i) == \A k \in DOMAIN q : q[k].id # i

\* A replay that was staged in two parts: the second, which touches no record
\* twice, overrides the first.
LEMMA ReplayOfConcatenation ==
  ASSUME NEW p \in Seq(Mutation), NEW q \in Seq(Mutation), NEW d,
         EveryTouchHasALast(p),
         \A k, l \in DOMAIN q : q[k].id = q[l].id => k = l
  PROVE  /\ EveryTouchHasALast(p \o q)
         /\ \A i \in Ids : Spares(q, i) => Replay(d, p \o q)[i] = Replay(d, p)[i]
         /\ \A k \in DOMAIN q : Replay(d, p \o q)[q[k].id] = q[k].value
<1> DEFINE r == p \o q
<1>1. /\ r \in Seq(Mutation) /\ Len(r) = Len(p) + Len(q)
      /\ Len(p) \in Nat /\ Len(q) \in Nat /\ DOMAIN q = 1 .. Len(q)
      /\ \A k \in 1 .. Len(p) : r[k] = p[k]
      /\ \A k \in 1 .. Len(q) : r[Len(p) + k] = q[k]
  OBVIOUS
<1> HIDE DEF r
<1>2. \A k \in 1 .. Len(r) : k \in 1 .. Len(p) \/ k - Len(p) \in 1 .. Len(q)
  BY <1>1
<1>3. ASSUME NEW k \in DOMAIN q
      PROVE  Last(r, q[k].id, Len(p) + k)
  <2>1. Len(p) + k \in Touches(r, q[k].id)
    BY <1>1 DEF Touches
  <2>2. ASSUME NEW l \in Touches(r, q[k].id) PROVE l <= Len(p) + k
    <3>1. CASE l \in 1 .. Len(p)
      BY <3>1, <1>1
    <3>2. CASE l - Len(p) \in 1 .. Len(q)
      <4>1. l = Len(p) + (l - Len(p)) /\ l \in Nat
        BY <1>1, <2>2 DEF Touches
      <4>2. q[l - Len(p)].id = q[k].id
        BY <1>1, <2>2, <3>2, <4>1 DEF Touches
      <4>3. l - Len(p) = k
        BY <4>2, <3>2, <1>1
      <4> QED BY <4>1, <4>3, <1>1
    <3> QED BY <3>1, <3>2, <1>2 DEF Touches
  <2> QED BY <2>1, <2>2 DEF Last
<1>4. ASSUME NEW i \in Ids, Spares(q, i)
      PROVE  Touches(r, i) = Touches(p, i)
  <2>1. \A k \in 1 .. Len(q) : q[k].id # i
    BY <1>1, <1>4 DEF Spares
  <2>2. ASSUME NEW k \in Touches(r, i) PROVE k \in Touches(p, i)
    <3>1. CASE k \in 1 .. Len(p)
      BY <3>1, <2>2, <1>1 DEF Touches
    <3>2. CASE k - Len(p) \in 1 .. Len(q)
      <4>1. k = Len(p) + (k - Len(p)) /\ k \in Nat
        BY <1>1, <2>2 DEF Touches
      <4>2. r[k] = q[k - Len(p)]
        BY <4>1, <3>2, <1>1
      <4>3. r[k].id = i
        BY <2>2 DEF Touches
      <4> QED BY <4>2, <4>3, <3>2, <2>1
    <3> QED BY <3>1, <3>2, <2>2, <1>2 DEF Touches
  <2>3. ASSUME NEW k \in Touches(p, i) PROVE k \in Touches(r, i)
    BY <2>3, <1>1 DEF Touches
  <2> QED BY <2>2, <2>3
<1>5. ASSUME NEW i \in Ids, Spares(q, i)
      PROVE  Replay(d, r)[i] = Replay(d, p)[i]
  <2>1. CASE Touches(p, i) = {}
    BY <2>1, <1>4, <1>5, ReplayKeepsUntouched
  <2>2. CASE Touches(p, i) # {}
    <3>1. PICK k \in Nat : Last(p, i, k)
      BY <2>2 DEF EveryTouchHasALast
    <3>2. Last(r, i, k)
      BY <3>1, <1>4, <1>5 DEF Last
    <3>3. p[k] = r[k]
      BY <3>1, <1>1 DEF Last, Touches
    <3>4. Replay(d, p)[i] = p[k].value
      BY <3>1, ReplayTakesLast
    <3>5. Replay(d, r)[i] = r[k].value
      BY <3>2, <1>1, ReplayTakesLast
    <3> QED BY <3>3, <3>4, <3>5
  <2> QED BY <2>1, <2>2
<1>6. ASSUME NEW k \in DOMAIN q
      PROVE  Replay(d, r)[q[k].id] = q[k].value
  <2>1. q[k].id \in Ids /\ Len(p) + k \in Nat
    BY <1>1, MutationsAreTyped
  <2>2. Last(r, q[k].id, Len(p) + k)
    BY <1>3
  <2>3. Replay(d, r)[q[k].id] = r[Len(p) + k].value
    BY <2>1, <2>2, <1>1, ReplayTakesLast
  <2> QED BY <2>3, <1>1
<1>7. EveryTouchHasALast(r)
  <2> SUFFICES ASSUME NEW i \in Ids, Touches(r, i) # {}
               PROVE  \E k \in Nat : Last(r, i, k)
    BY DEF EveryTouchHasALast
  <2>1. CASE ~Spares(q, i)
    <3>1. PICK k \in DOMAIN q : q[k].id = i
      BY <2>1 DEF Spares
    <3> QED BY <3>1, <1>3, <1>1
  <2>2. CASE Spares(q, i)
    BY <2>2, <1>4 DEF EveryTouchHasALast, Last
  <2> QED BY <2>1, <2>2
<1> QED BY <1>5, <1>6, <1>7 DEF r

\* One staged mutation changes its record and no other.
LEMMA ReplayOfStaged ==
  ASSUME NEW p \in Seq(Mutation), NEW d \in View, NEW i \in Ids, NEW v \in Values \cup {None},
         EveryTouchHasALast(p)
  PROVE  LET r == Append(p, [id |-> i, value |-> v]) IN
         /\ r \in Seq(Mutation) /\ EveryTouchHasALast(r)
         /\ Replay(d, r) = [Replay(d, p) EXCEPT ![i] = v]
<1> DEFINE q == <<[id |-> i, value |-> v]>>
<1>1. /\ q \in Seq(Mutation) /\ DOMAIN q = {1} /\ q[1].id = i /\ q[1].value = v
  BY DEF Mutation
<1>2. Append(p, [id |-> i, value |-> v]) = p \o q
  OBVIOUS
<1> HIDE DEF q
<1>3. /\ \A j \in Ids \ {i} : Spares(q, j)
      /\ \A k, l \in DOMAIN q : q[k].id = q[l].id => k = l
  BY <1>1 DEF Spares
<1>4. /\ EveryTouchHasALast(p \o q)
      /\ \A j \in Ids \ {i} : Replay(d, p \o q)[j] = Replay(d, p)[j]
      /\ Replay(d, p \o q)[i] = v
  BY <1>1, <1>3, ReplayOfConcatenation
<1>5. p \o q \in Seq(Mutation)
  BY <1>1
<1>6. Replay(d, p \o q) = [Replay(d, p) EXCEPT ![i] = v]
  BY <1>4 DEF Replay
<1> QED BY <1>2, <1>4, <1>5, <1>6

\* The removals of the records S name each of them once.
LEMMA RemovalsNameEachOnce ==
  ASSUME NEW S \in SUBSET Ids, NEW q \in Removals(S)
  PROVE  /\ q \in Seq(Mutation)
         /\ \A i \in S : \E k \in DOMAIN q : q[k].id = i
         /\ \A i \in Ids \ S : Spares(q, i)
         /\ \A k \in DOMAIN q : q[k].value = None
         /\ \A k, l \in DOMAIN q : q[k].id = q[l].id => k = l
         /\ S # {} => q # <<>>
<1> DEFINE n == Cardinality(S)
           f == [k \in 1 .. n |-> q[k].id]
<1>1. IsFiniteSet(S) /\ n \in Nat
  BY FS_Subset, FS_CardinalityType DEF StoreAssumption
<1> HIDE DEF n
<1>2. /\ q \in [1 .. n -> Mutation] /\ {q[k].id : k \in DOMAIN q} = S
      /\ \A k \in DOMAIN q : q[k].value = None
  BY DEF Removals, n
<1>3. f \in Surjection(1 .. n, S)
  <2>1. f \in [1 .. n -> S]
    BY <1>2
  <2>2. \A s \in S : \E k \in 1 .. n : f[k] = s
    BY <1>2
  <2> QED BY <2>1, <2>2 DEF Surjection
<1>4. IsFiniteSet(1 .. n) /\ Cardinality(1 .. n) = Cardinality(S)
  BY <1>1, FS_Interval DEF n
<1>5. f \in Injection(1 .. n, S)
  BY <1>3, <1>4, FS_SurjSameCardinalityImpliesInj
<1>6. \A k, l \in 1 .. n : q[k].id = q[l].id => k = l
  <2>1. \A k, l \in 1 .. n : f[k] = f[l] => k = l
    BY <1>5 DEF Injection, IsInjective
  <2> QED BY <2>1
<1>7. q \in Seq(Mutation) /\ DOMAIN q = 1 .. n
  BY <1>1, <1>2
<1>8. \A i \in S : \E k \in 1 .. n : q[k].id = i
  BY <1>2
<1>9. \A i \in Ids \ S : Spares(q, i)
  BY <1>2 DEF Spares
<1>10. S # {} => q # <<>>
  <2>1. <<>> \notin [1 .. n -> Mutation] \/ 1 .. n = {}
    OBVIOUS
  <2> QED BY <2>1, <1>2, <1>8
<1> QED BY <1>2, <1>6, <1>7, <1>8, <1>9, <1>10

\* A replay whose last part removes the records S.
LEMMA ReplayOfRemovals ==
  ASSUME NEW p \in Seq(Mutation), NEW d \in View, NEW S \in SUBSET Ids, NEW q \in Removals(S),
         EveryTouchHasALast(p)
  PROVE  /\ p \o q \in Seq(Mutation) /\ EveryTouchHasALast(p \o q)
         /\ Replay(d, p \o q) = Without(Replay(d, p), S)
<1>1. /\ q \in Seq(Mutation)
      /\ \A i \in S : \E k \in DOMAIN q : q[k].id = i
      /\ \A i \in Ids \ S : Spares(q, i)
      /\ \A k \in DOMAIN q : q[k].value = None
      /\ \A k, l \in DOMAIN q : q[k].id = q[l].id => k = l
  BY RemovalsNameEachOnce
<1>2. /\ EveryTouchHasALast(p \o q)
      /\ \A i \in Ids \ S : Replay(d, p \o q)[i] = Replay(d, p)[i]
      /\ \A k \in DOMAIN q : Replay(d, p \o q)[q[k].id] = q[k].value
  BY <1>1, ReplayOfConcatenation
<1>3. \A i \in S : Replay(d, p \o q)[i] = None
  BY <1>1, <1>2
<1>4. Replay(d, p \o q) = Without(Replay(d, p), S)
  BY <1>2, <1>3 DEF Replay, Without
<1> QED BY <1>1, <1>2, <1>4

(***************************************************************************)
(* The inductive invariant.                                                *)
(***************************************************************************)
LEMMA NothingIsPending == <<>> \in Seq(Mutation)
OBVIOUS

IInv == TypeOK /\ WorkingViewIsReplay /\ PendingIsScheduled /\ EveryTouchHasALast(pending)

LEMMA ReplayIsAView ==
  ASSUME NEW d \in View, NEW p \in Seq(Mutation), EveryTouchHasALast(p)
  PROVE  Replay(d, p) \in View
<1>1. ASSUME NEW i \in Ids PROVE Replay(d, p)[i] \in Values \cup {None}
  <2>1. CASE Touches(p, i) = {}
    BY <2>1, ReplayKeepsUntouched DEF View
  <2>2. CASE Touches(p, i) # {}
    <3>1. PICK k \in Nat : Last(p, i, k)
      BY <2>2 DEF EveryTouchHasALast
    <3>2. k \in DOMAIN p
      BY <3>1 DEF Last, Touches
    <3>3. p[k].value \in Values \cup {None}
      BY <3>2, MutationsAreTyped
    <3>4. Replay(d, p)[i] = p[k].value
      BY <3>1, ReplayTakesLast
    <3> QED BY <3>3, <3>4
  <2> QED BY <2>1, <2>2
<1> QED BY <1>1 DEF View, Replay

\* Dropping what was staged last gives the pending mutations before it.
LEMMA UnstagedIsPending ==
  ASSUME NEW i, NEW v, pending \in Seq(Mutation)
  PROVE  SubSeq(Staged(i, v), 1, Len(pending)) = pending
BY DEF Staged

LEMMA WithoutIsAView ==
  ASSUME NEW view \in View, NEW S PROVE Without(view, S) \in View
BY DEF Without, View

LEMMA Start == Init => IInv
<1> SUFFICES ASSUME Init PROVE IInv
  OBVIOUS
<1>1. TypeOK
  BY NothingIsPending DEF Init, TypeOK
<1>2. WorkingViewIsReplay /\ EveryTouchHasALast(pending)
  BY ReplayOfNothing DEF Init, WorkingViewIsReplay
<1>3. PendingIsScheduled
  BY DEF Init, PendingIsScheduled
<1> QED BY <1>1, <1>2, <1>3 DEF IInv

LEMMA Step == IInv /\ [Next]_vars => IInv'
<1> SUFFICES ASSUME IInv, [Next]_vars PROVE IInv'
  OBVIOUS
<1>1. /\ TypeOK /\ WorkingViewIsReplay /\ PendingIsScheduled /\ EveryTouchHasALast(pending)
      /\ records \in View /\ durable \in View /\ disk \in View /\ pending \in Seq(Mutation)
      /\ Empty \in View
  BY DEF IInv, TypeOK, View, Empty
<1>2. ASSUME NEW view \in View, Published(view), records' = view, UNCHANGED up,
             reply' \in {"none", "accepted", "durable", "rejected"}
      PROVE  IInv'
  BY <1>1, <1>2, ReplayOfNothing, NothingIsPending
     DEF IInv, TypeOK, Published, WorkingViewIsReplay, PendingIsScheduled
<1>3. ASSUME WriteFails, UNCHANGED <<up, reply>>
      PROVE  IInv'
  BY <1>1, <1>3 DEF IInv, TypeOK, WriteFails, ScheduleAfter, WorkingViewIsReplay, PendingIsScheduled
<1>4. CASE FlushNow
  BY <1>1, <1>2, <1>4 DEF FlushNow, TypeOK
<1>5. CASE FlushNowFails
  BY <1>3, <1>5 DEF FlushNowFails
<1>6. CASE TimerFlushes
  BY <1>1, <1>2, <1>6 DEF TimerFlushes, TypeOK
<1>7. CASE TimerFlushFails
  BY <1>3, <1>7 DEF TimerFlushFails
<1>8. CASE Crash
  BY <1>1, <1>8, ReplayOfNothing, NothingIsPending
     DEF Crash, IInv, TypeOK, WorkingViewIsReplay, PendingIsScheduled
<1>9. CASE LoadFails
  BY <1>1, <1>9, ReplayOfNothing, NothingIsPending
     DEF LoadFails, IInv, TypeOK, WorkingViewIsReplay, PendingIsScheduled
<1>10. ASSUME NEW S \in SUBSET Ids, Cleanup(S) PROVE IInv'
  <2>1. PICK q \in Removals(S) : pending' = pending \o q
    BY <1>10 DEF Cleanup
  <2>2. /\ pending' \in Seq(Mutation) /\ EveryTouchHasALast(pending')
        /\ Replay(durable, pending') = Without(records, S)
    BY <1>1, <2>1, ReplayOfRemovals DEF WorkingViewIsReplay
  <2>3. Without(records, S) \in View
    BY <1>1, WithoutIsAView
  <2> QED BY <1>1, <1>10, <2>2, <2>3
          DEF Cleanup, IInv, TypeOK, WorkingViewIsReplay, PendingIsScheduled
<1>11. ASSUME NEW S \in SUBSET Ids, Load(S) PROVE IInv'
  <2>1. /\ pending' \in Seq(Mutation)
        /\ pending' # <<>> => S # {}
    <3>1. pending' \in Removals(S)
      BY <1>11 DEF Load
    <3>2. ASSUME S = {} PROVE pending' = <<>>
      <4>1. Cardinality(S) = 0
        BY <3>2, FS_EmptySet
      <4> QED BY <4>1, <3>1 DEF Removals
    <3> QED BY <3>1, <3>2, RemovalsNameEachOnce
  <2>2. pending' = <<>> \o pending'
    BY <2>1
  <2>3. /\ EveryTouchHasALast(<<>> \o pending')
        /\ Replay(disk, <<>> \o pending') = Without(Replay(disk, <<>>), S)
    <3>1. pending' \in Removals(S)
      BY <1>11 DEF Load
    <3>2. EveryTouchHasALast(<<>>)
      BY <1>1, ReplayOfNothing
    <3> QED BY <1>1, <3>1, <3>2, NothingIsPending, ReplayOfRemovals
  <2>5. /\ EveryTouchHasALast(pending')
        /\ Replay(disk, pending') = Without(disk, S)
    BY <1>1, <2>2, <2>3, ReplayOfNothing
  <2>4. Without(disk, S) \in View
    BY <1>1, WithoutIsAView
  <2> QED BY <1>1, <1>11, <2>1, <2>4, <2>5
          DEF Load, IInv, TypeOK, WorkingViewIsReplay, PendingIsScheduled
<1>12. ASSUME NEW i \in Ids, NEW v \in Values \cup {None}, SaveLater(i, v) PROVE IInv'
  <2>1. /\ pending' \in Seq(Mutation) /\ EveryTouchHasALast(pending')
        /\ Replay(durable, pending') = [records EXCEPT ![i] = v]
    <3>1. pending' = Append(pending, [id |-> i, value |-> v])
      BY <1>12 DEF SaveLater, Staged
    <3>2. records = Replay(durable, pending)
      BY <1>1 DEF WorkingViewIsReplay
    <3> QED BY <1>1, <3>1, <3>2, ReplayOfStaged
  <2>2. [records EXCEPT ![i] = v] \in View
    BY <1>1 DEF View
  <2> QED BY <1>1, <1>12, <2>1, <2>2
          DEF SaveLater, IInv, TypeOK, WorkingViewIsReplay, PendingIsScheduled
<1>13. ASSUME NEW i \in Ids, NEW v \in Values \cup {None}, SaveNow(i, v) PROVE IInv'
  <2>1. [records EXCEPT ![i] = v] \in View
    BY <1>1 DEF View
  <2> QED BY <1>2, <1>13, <2>1 DEF SaveNow
<1>14. ASSUME NEW i \in Ids, NEW v \in Values \cup {None}, SaveNowFails(i, v) PROVE IInv'
  <2>1. pending' = pending /\ records' = records /\ timer' = ScheduleAfter(pending)
    BY <1>1, <1>14, UnstagedIsPending DEF SaveNowFails, WorkingViewIsReplay
  <2> QED BY <1>1, <1>14, <2>1
          DEF SaveNowFails, ScheduleAfter, IInv, TypeOK, WorkingViewIsReplay, PendingIsScheduled
<1>15. CASE UNCHANGED vars
  BY <1>1, <1>15 DEF vars, memory, IInv, TypeOK, WorkingViewIsReplay, PendingIsScheduled
<1> QED BY <1>4, <1>5, <1>6, <1>7, <1>8, <1>9, <1>10, <1>11, <1>12, <1>13, <1>14, <1>15 DEF Next

\* The types, the replay, the armed timer and the existence of last touches are
\* an inductive invariant.
THEOREM InductiveInvariant == Spec => []IInv
BY Start, Step, PTL DEF Spec

\* Every variable keeps its type.
THEOREM TypeCorrectness == Spec => []TypeOK
<1>1. IInv => TypeOK
  BY DEF IInv
<1> QED BY <1>1, InductiveInvariant, PTL

\* After any mutations, failed writes, rollbacks, expiries and restarts the
\* working view is the replay of the pending mutations.
THEOREM WorkingViewIsReplayHolds == Spec => []WorkingViewIsReplay
<1>1. IInv => WorkingViewIsReplay
  BY DEF IInv
<1> QED BY <1>1, InductiveInvariant, PTL

\* While something accepted is not on disk, a write is scheduled.
THEOREM PendingIsScheduledHolds == Spec => []PendingIsScheduled
<1>1. IInv => PendingIsScheduled
  BY DEF IInv
<1> QED BY <1>1, InductiveInvariant, PTL

(***************************************************************************)
(* The refinement.                                                         *)
(***************************************************************************)
LEMMA StartRefines == Init => Promise!Init
BY DEF Init, Promise!Init, View, Promise!View

LEMMA StepRefines ==
  IInv /\ [Next]_vars =>
    [Promise!Next]_<<IF up THEN records ELSE disk, disk, reply>>
<1> SUFFICES ASSUME IInv, [Next]_vars
             PROVE  Promise!Next \/ UNCHANGED <<IF up THEN records ELSE disk, disk, reply>>
  OBVIOUS
<1>1. /\ pending \in Seq(Mutation) /\ records = Replay(durable, pending)
      /\ up \in BOOLEAN
  BY DEF IInv, TypeOK, WorkingViewIsReplay
<1>2. CASE FlushNow \/ TimerFlushes
  <2>1. Promise!Publish
    BY <1>2 DEF FlushNow, TimerFlushes, Published, Promise!Publish
  <2> QED BY <2>1 DEF Promise!Next
<1>3. CASE FlushNowFails \/ TimerFlushFails
  BY <1>3 DEF FlushNowFails, TimerFlushFails, WriteFails
<1>4. CASE Crash
  <2>1. Promise!Crash
    BY <1>4 DEF Crash, Promise!Crash
  <2> QED BY <2>1 DEF Promise!Next
<1>5. CASE LoadFails
  <2>1. Promise!Lose
    BY <1>5 DEF LoadFails, Promise!Lose, Empty, Promise!Empty
  <2> QED BY <2>1 DEF Promise!Next
<1>6. ASSUME NEW S \in SUBSET Ids, Cleanup(S) \/ Load(S)
      PROVE  Promise!Next
  <2>1. Promise!Expire(S)
    BY <1>6 DEF Cleanup, Load, Promise!Expire, Without, Promise!Without
  <2> QED BY <2>1 DEF Promise!Next
<1>7. ASSUME NEW i \in Ids, NEW v \in Values \cup {None}, SaveLater(i, v)
      PROVE  Promise!Next
  <2>1. Promise!Accept(i, v)
    BY <1>7 DEF SaveLater, Promise!Accept
  <2> QED BY <2>1 DEF Promise!Next
<1>8. ASSUME NEW i \in Ids, NEW v \in Values \cup {None}, SaveNow(i, v)
      PROVE  Promise!Next
  <2>1. Promise!AcceptDurably(i, v)
    BY <1>8 DEF SaveNow, Published, Promise!AcceptDurably
  <2> QED BY <2>1 DEF Promise!Next
<1>9. ASSUME NEW i \in Ids, NEW v \in Values \cup {None}, SaveNowFails(i, v)
      PROVE  Promise!Next
  <2>1. Promise!Reject
    BY <1>1, <1>9, UnstagedIsPending DEF SaveNowFails, Promise!Reject
  <2> QED BY <2>1 DEF Promise!Next
<1>10. CASE UNCHANGED vars
  BY <1>10 DEF vars, memory
<1> QED BY <1>2, <1>3, <1>4, <1>5, <1>6, <1>7, <1>8, <1>9, <1>10 DEF Next

\* The store keeps the promise of RecordStore: an accepted mutation is visible
\* at once, a rejected one leaves no trace, a crash loses what was not written.
THEOREM StoreImplementsRecordStore == Spec => ImplementsRecordStore
BY StartRefines, StepRefines, InductiveInvariant, PTL DEF Spec, ImplementsRecordStore, Promise!Spec
=============================================================================
