--------------------------- MODULE AgentSwitchProofs ---------------------------
(***************************************************************************)
(* For any agents, adapters and number of switches, a switch is atomic:    *)
(* one agent process at a time, controls only for the agent the record     *)
(* names, bridges only of attached adapters, and nothing resurrected       *)
(* behind a cancellation.                                                  *)
(***************************************************************************)
EXTENDS AgentSwitch, FiniteSetTheorems, SequenceTheorems, TLAPS

USE SwitchAssumption

(***************************************************************************)
(* The inductive invariant.                                                *)
(***************************************************************************)
Alive(p) == proc[p] \in {"starting", "live"}

Factory == {"creating", "rbCreating"}

\* Where doSwitch() may stand while the installed agent works.
Serving == {"idle", "middleware", "cleanup", "patching", "patched", "rbPatching", "rbPatched"}

\* Where the record names what is installed.
Recorded == {"idle", "middleware", "cleanup", "patched", "rbPatched"}

\* A process that destroy() has returned for is dead, and nobody destroys one
\* that was not handed out.
Destroyed ==
  \A p \in Procs : /\ destroyOp[p] = "done" => proc[p] = "dead"
                   /\ proc[p] = "unborn" => destroyOp[p] = "none"
                   /\ proc[p] = "starting" /\ ~terminating => destroyOp[p] = "none"

\* The only process besides the installed agent is the one the last factory
\* makes, and by then the agent is dead.
Succession ==
  /\ proc[agent] \in {"live", "dead"}
  /\ \A p \in Procs \ {agent} :
       Alive(p) => proc[agent] = "dead" /\ p = frame.new /\ (terminating \/ pc \in Factory)

Served == ~terminating /\ pc \in Serving => proc[agent] = "live" /\ destroyOp[agent] = "none"

\* Controls are hidden from the first await of the switch to its last.
Hidden ==
  /\ terminating => suspended
  /\ ~terminating => (suspended <=> pc \notin {"idle", "middleware"})
  /\ pc \in {"rbDestroy", "rbRecord"} => terminating

Committed ==
  ~terminating /\ pc \in Recorded => record.agent = agent /\ record.name = name /\ record.history = history

OnceEach(s) == \A i, j \in 1 .. Len(s) : s[i] = s[j] => i = j

Bridged ==
  /\ OnceEach(attached) /\ OnceEach(frame.leases)
  /\ Leased \subseteq Attached
  /\ pc = "middleware" => ~frame.had
  /\ ~terminating /\ pc \in {"patching", "patched"} /\ frame.had => AllReachable /\ Leased \subseteq conn

Life    == Destroyed /\ Succession /\ Served
Control == Hidden /\ Committed
Bridges == Bridged /\ BridgesAreAttached

IInv == TypeOK /\ Life /\ Control /\ Bridges

(***************************************************************************)
(* What a step does at the terminal boundary, and at the end of a switch.  *)
(***************************************************************************)
Crossing ==
  terminating => /\ terminating' /\ suspended' /\ agent' = agent /\ name' = name
                 /\ conn' \subseteq conn
                 /\ record' \in {record, [record EXCEPT !.status = "cancelled"]}

Returned ==
  pc # "idle" /\ pc' = "idle" /\ ~terminating' /\ frame.had => Reconnected \subseteq conn'

-----------------------------------------------------------------------------
(* Sequences of adapters and names *)

LEMMA Elements ==
  ASSUME NEW S, NEW s \in Seq(S)
  PROVE  ToSet(s) = {s[i] : i \in 1 .. Len(s)} /\ ToSet(s) \subseteq S /\ Len(s) \in Nat
BY DEF ToSet

LEMMA FrontIsASequence == ASSUME NEW S, NEW s \in Seq(S) PROVE Front(s) \in Seq(S)
BY DEF Front

\* Without(s, a) drops a and nothing else.
LEMMA WithoutDrops ==
  ASSUME NEW S, NEW s \in Seq(S), OnceEach(s), NEW a
  PROVE  Without(s, a) \in Seq(S) /\ OnceEach(Without(s, a)) /\ ToSet(Without(s, a)) = ToSet(s) \ {a}
<1>1. ToSet(s) = {s[i] : i \in 1 .. Len(s)} /\ Len(s) \in Nat /\ DOMAIN s = 1 .. Len(s)
  BY Elements
<1>2. CASE a \notin ToSet(s)
  BY <1>1, <1>2 DEF Without
<1>3. CASE a \in ToSet(s)
  <2> DEFINE k == CHOOSE i \in DOMAIN s : s[i] = a
  <2> DEFINE r == SubSeq(s, 1, k - 1) \o SubSeq(s, k + 1, Len(s))
  <2>1. k \in 1 .. Len(s) /\ s[k] = a
    BY <1>1, <1>3
  <2>2. Without(s, a) = r
    BY <1>3 DEF Without, RemoveAt
  <2> HIDE DEF k
  <2>3. /\ r \in Seq(S) /\ Len(r) = Len(s) - 1
        /\ \A i \in 1 .. Len(s) - 1 : r[i] = IF i < k THEN s[i] ELSE s[i + 1]
    <3> DEFINE u == SubSeq(s, 1, k - 1)
    <3> DEFINE v == SubSeq(s, k + 1, Len(s))
    <3>1. k \in Int /\ k - 1 \in Int /\ k + 1 \in Int /\ Len(s) \in Nat /\ \A i \in 1 .. Len(s) : s[i] \in S
      BY <1>1, <2>1
    <3>2. u \in Seq(S) /\ Len(u) = k - 1 /\ \A i \in 1 .. k - 1 : u[i] = s[i]
      BY <2>1, <3>1, SubSeqProperties
    <3>3. v \in Seq(S) /\ Len(v) = Len(s) - k /\ \A i \in 1 .. Len(s) - k : v[i] = s[k + i]
      <4>1. \A i \in k + 1 .. Len(s) : s[i] \in S
        BY <2>1, <3>1
      <4>2. /\ v \in Seq(S) /\ Len(v) = IF k + 1 <= Len(s) THEN Len(s) - (k + 1) + 1 ELSE 0
            /\ \A i \in 1 .. Len(s) - (k + 1) + 1 : v[i] = s[k + 1 + i - 1]
        BY <3>1, <4>1, SubSeqProperties
      <4> HIDE DEF v
      <4> QED BY <2>1, <3>1, <4>2
    <3> HIDE DEF u, v
    <3>4. /\ u \o v \in Seq(S) /\ Len(u \o v) = Len(u) + Len(v)
          /\ \A i \in 1 .. Len(u) + Len(v) : (u \o v)[i] = IF i <= Len(u) THEN u[i] ELSE v[i - Len(u)]
      BY <3>2, <3>3, ConcatProperties
    <3>5. r = u \o v
      BY DEF u, v
    <3> HIDE DEF r
    <3>6. r \in Seq(S) /\ Len(r) = Len(s) - 1
      BY <2>1, <3>1, <3>2, <3>3, <3>4, <3>5
    <3>7. ASSUME NEW i \in 1 .. Len(s) - 1 PROVE r[i] = IF i < k THEN s[i] ELSE s[i + 1]
      <4>1. r[i] = IF i <= k - 1 THEN u[i] ELSE v[i - (k - 1)]
        BY <2>1, <3>1, <3>2, <3>3, <3>4, <3>5
      <4>2. CASE i < k
        BY <2>1, <3>1, <3>2, <4>1, <4>2
      <4>3. CASE i >= k
        <5>1. i - (k - 1) \in 1 .. Len(s) - k /\ k + (i - (k - 1)) = i + 1
          BY <2>1, <3>1, <4>3
        <5>2. v[i - (k - 1)] = s[i + 1]
          BY <3>3, <5>1
        <5> QED BY <2>1, <3>1, <4>1, <4>3, <5>2
      <4> QED BY <2>1, <3>1, <4>2, <4>3
    <3> QED BY <3>6, <3>7
  <2> HIDE DEF r
  <2>4. OnceEach(r)
    BY <1>1, <2>1, <2>3 DEF OnceEach
  <2>5. ToSet(r) = {r[i] : i \in 1 .. Len(r)}
    BY <2>3, Elements
  <2>6. ASSUME NEW x \in ToSet(r) PROVE x \in ToSet(s) \ {a}
    BY <1>1, <2>1, <2>3, <2>5 DEF OnceEach
  <2>7. ASSUME NEW x \in ToSet(s) \ {a} PROVE x \in ToSet(r)
    <3>1. PICK i \in 1 .. Len(s) : s[i] = x
      BY <1>1
    <3>2. i < k \/ i > k
      BY <2>1, <3>1
    <3>3. CASE i < k
      BY <1>1, <2>1, <2>3, <2>5, <3>1, <3>3
    <3>4. CASE i > k
      <4>1. i - 1 \in 1 .. Len(s) - 1 /\ r[i - 1] = s[i]
        BY <1>1, <2>1, <2>3, <3>1, <3>4
      <4> QED BY <2>3, <2>5, <3>1, <4>1
    <3> QED BY <3>2, <3>3, <3>4
  <2> QED BY <2>2, <2>3, <2>4, <2>6, <2>7
<1> QED BY <1>2, <1>3

LEMMA Appended ==
  ASSUME NEW S, NEW s \in Seq(S), OnceEach(s), NEW a \in S, a \notin ToSet(s)
  PROVE  Append(s, a) \in Seq(S) /\ OnceEach(Append(s, a)) /\ ToSet(Append(s, a)) = ToSet(s) \cup {a}
<1> DEFINE r == Append(s, a)
<1>1. ToSet(s) = {s[i] : i \in 1 .. Len(s)} /\ Len(s) \in Nat
  BY Elements
<1>2. r \in Seq(S) /\ Len(r) = Len(s) + 1 /\ r[Len(s) + 1] = a /\ \A i \in 1 .. Len(s) : r[i] = s[i]
  BY <1>1
<1>3. ToSet(r) = {r[i] : i \in 1 .. Len(r)}
  BY <1>2, Elements
<1> HIDE DEF r
<1>4. OnceEach(r)
  BY <1>1, <1>2 DEF OnceEach
<1>5. ToSet(r) = ToSet(s) \cup {a}
  <2>1. \A i \in 1 .. Len(r) : i \in 1 .. Len(s) \/ i = Len(s) + 1
    BY <1>1, <1>2
  <2>2. Len(s) + 1 \in 1 .. Len(r) /\ \A i \in 1 .. Len(s) : i \in 1 .. Len(r)
    BY <1>1, <1>2
  <2> QED BY <1>1, <1>2, <1>3, <2>1, <2>2
<1> QED BY <1>2, <1>4, <1>5 DEF r

-----------------------------------------------------------------------------
(* What a step keeps *)

Frames == [to : Agents, from : Agents, leases : Seq(Adapters),
           todo : SUBSET Adapters, had : BOOLEAN, failed : BOOLEAN, new : Procs]

\* The adapters of the session and of the switch.
LEMMA SetsOfAdapters ==
  ASSUME TypeOK
  PROVE  /\ Attached \subseteq Adapters /\ Leased \subseteq Adapters /\ Reconnected \subseteq Leased
         /\ AllReachable => Reconnected = Leased
<1>1. attached \in Seq(Adapters) /\ frame.leases \in Seq(Adapters)
  BY DEF TypeOK
<1>2. /\ Attached \subseteq Adapters /\ Leased \subseteq Adapters
      /\ Leased = {frame.leases[i] : i \in 1 .. Len(frame.leases)} /\ DOMAIN frame.leases = 1 .. Len(frame.leases)
  BY <1>1, Elements DEF Attached, Leased
<1>3. Reconnected \subseteq Leased
  BY <1>2 DEF Reconnected
<1>4. AllReachable => \A i \in DOMAIN frame.leases : \A j \in 1 .. i : frame.leases[j] \in available
  BY <1>1, <1>2 DEF AllReachable
<1>5. AllReachable => Leased \subseteq Reconnected
  BY <1>2, <1>4 DEF Reconnected
<1> QED BY <1>2, <1>3, <1>5

LEMMA FirstProcess == 1 \in Procs /\ Procs \subseteq Nat
BY DEF Procs

LEMMA NoFrameIsTyped == NoFrame \in Frames /\ NoFrame.leases = <<>> /\ ~NoFrame.had /\ NoFrame.new = 1
<1>1. <<>> \in Seq(Adapters) /\ {} \in SUBSET Adapters
  OBVIOUS
<1> QED BY <1>1, FirstProcess DEF NoFrame, Frames

\* The variables keep their types.
LEMMA Types == ASSUME IInv, [Next]_vars PROVE TypeOK'
<1> USE DEF IInv, TypeOK, session, Points
<1>1. ASSUME NEW to \in Agents, SwitchBegin(to) PROVE TypeOK'
  <2>1. frame' \in Frames
    <3>1. NoFrame \in Frames /\ name \in Agents
      BY NoFrameIsTyped
    <3> QED BY <1>1, <3>1 DEF SwitchBegin, Frames
  <2>2. switches' \in 0 .. MaxSwitches
    BY <1>1 DEF SwitchBegin
  <2> QED BY <1>1, <2>1, <2>2 DEF SwitchBegin, Frames
<1>2. ASSUME NEW allowed \in BOOLEAN, MiddlewareReturns(allowed) PROVE TypeOK'
  <2>1. Attached \subseteq Adapters /\ (conn # {}) \in BOOLEAN /\ frame \in Frames
    BY SetsOfAdapters DEF Frames
  <2> HIDE DEF Attached
  <2>2. ASSUME NEW h \in BOOLEAN, frame' = [frame EXCEPT !.leases = attached, !.todo = Attached, !.had = h]
        PROVE  frame' \in Frames
    <3>1. frame' = [to |-> frame.to, from |-> frame.from, leases |-> attached, todo |-> Attached,
                    had |-> h, failed |-> frame.failed, new |-> frame.new]
      BY <2>1, <2>2 DEF Frames
    <3> QED BY <2>1, <3>1 DEF Frames
  <2>3. \E h \in BOOLEAN : frame' = frame \/ frame' = [frame EXCEPT !.leases = attached, !.todo = Attached, !.had = h]
    <3>1. CASE terminating \/ ~allowed
      BY <1>2, <3>1 DEF MiddlewareReturns
    <3>2. CASE ~(terminating \/ ~allowed)
      <4>1. frame' = [frame EXCEPT !.leases = attached, !.todo = Attached, !.had = (conn # {})]
        BY <1>2, <3>2 DEF MiddlewareReturns
      <4> QED BY <4>1, Zenon
    <3> QED BY <3>1, <3>2
  <2>4. frame' \in Frames
    BY <2>1, <2>2, <2>3
  <2> QED BY <1>2, <2>4 DEF MiddlewareReturns, Frames
<1>3. ASSUME NEW a \in Adapters, NEW ok \in BOOLEAN, AdapterCleaned(a, ok) PROVE TypeOK'
  BY <1>3 DEF AdapterCleaned
<1>4. CASE CleanupFailed
  <2>1. conn \cup Reconnected \subseteq Adapters
    BY SetsOfAdapters
  <2> QED BY <1>4, <2>1 DEF CleanupFailed
<1>5. CASE CleanupStopped
  BY <1>5 DEF CleanupStopped
<1>6. CASE SwitchAgent
  BY <1>6 DEF SwitchAgent, Destroying
<1>7. CASE Quiesced
  BY <1>7 DEF Quiesced, QuiescedOf, StartsFactory
<1>8. CASE TerminationWins
  BY <1>8 DEF TerminationWins
<1>9. ASSUME NEW p \in Procs, LateAgent(p) PROVE TypeOK'
  BY <1>9 DEF LateAgent, ObserveReplacementCleanup
<1>10. ASSUME NEW p \in Procs, LateFailure(p) PROVE TypeOK'
  BY <1>10 DEF LateFailure
<1>11. ASSUME NEW p \in Procs, Installed(p) PROVE TypeOK'
  <2>1. conn \cup Leased \subseteq Adapters
    BY SetsOfAdapters
  <2>2. conn' \subseteq Adapters
    BY <1>11, <2>1 DEF Installed
  <2>3. destroyOp' \in [Procs -> {"none", "pending", "done", "failed"}]
    BY <1>11 DEF Installed
  <2>4. agent' \in Procs /\ name' \in Agents /\ pc' \in Points
    BY <1>11 DEF Installed
  <2> QED BY <1>11, <2>2, <2>3, <2>4 DEF Installed
<1>12. ASSUME NEW p \in Procs, FactoryFails(p) PROVE TypeOK'
  BY <1>12 DEF FactoryFails, EnterRollback, Destroying
<1>13. ASSUME NEW p \in Procs, RolledBack(p) PROVE TypeOK'
  <2>1. history' \in Seq(Agents)
    BY <1>13, FrontIsASequence DEF RolledBack
  <2> QED BY <1>13, <2>1 DEF RolledBack
<1>14. ASSUME NEW p \in Procs, RollbackFactoryFails(p) PROVE TypeOK'
  BY <1>14 DEF RollbackFactoryFails, RollbackFails, DestroySession, Destroying
<1>15. CASE PatchRuns
  BY <1>15 DEF PatchRuns, PatchRecord
<1>16. CASE PatchFails
  BY <1>16, SMTT(20) DEF PatchFails, EnterRollback, Destroying
<1>17. CASE SwitchCommits
  BY <1>17 DEF SwitchCommits
<1>18. CASE RollbackKilled
  BY <1>18, ZenonT(30) DEF RollbackKilled, StartsFactory
<1>19. CASE RollbackPatchRuns
  BY <1>19 DEF RollbackPatchRuns, PatchRecord
<1>20. CASE RollbackPatchFails
  BY <1>20 DEF RollbackPatchFails, RollbackFails, DestroySession, Destroying
<1>21. CASE RollbackCommits
  <2>1. conn \cup Leased \subseteq Adapters
    BY SetsOfAdapters
  <2>2. conn' \subseteq Adapters
    BY <1>21, <2>1 DEF RollbackCommits, RollbackFails, DestroySession
  <2>3. destroyOp' \in [Procs -> {"none", "pending", "done", "failed"}]
    BY <1>21 DEF RollbackCommits, RollbackFails, DestroySession, Destroying
  <2>4. pc' \in Points /\ terminating' \in BOOLEAN /\ suspended' \in BOOLEAN
    BY <1>21 DEF RollbackCommits, RollbackFails, DestroySession
  <2>5. teardown' \in {"none", "killing", "done", "failed"}
    BY <1>21 DEF RollbackCommits, RollbackFails, DestroySession
  <2> QED BY <1>21, <2>2, <2>3, <2>4, <2>5 DEF RollbackCommits
<1>22. CASE RollbackAbandoned
  BY <1>22 DEF RollbackAbandoned, PatchRecord
<1>23. ASSUME NEW p \in Procs, Killed(p) PROVE TypeOK'
  BY <1>23 DEF Killed
<1>24. ASSUME NEW p \in Procs, QuiesceKillFails(p) PROVE TypeOK'
  BY <1>24 DEF QuiesceKillFails, EnterRollback, Destroying
<1>25. ASSUME NEW p \in Procs, RollbackKillFails(p) PROVE TypeOK'
  BY <1>25 DEF RollbackKillFails, RollbackFails, DestroySession, Destroying
<1>26. ASSUME NEW p \in Procs, KillFails(p) PROVE TypeOK'
  BY <1>26 DEF KillFails
<1>27. CASE TeardownDone
  BY <1>27 DEF TeardownDone
<1>28. CASE Cancel
  BY <1>28 DEF Cancel
<1>29. CASE CancelPersists
  BY <1>29 DEF CancelPersists, DestroySession, Destroying
<1>29a. CASE CancelFails
  BY <1>29a DEF CancelFails
<1>30. CASE CancelAgain
  BY <1>30 DEF CancelAgain, DestroySession, Destroying
<1>31. ASSUME NEW a \in Adapters, Attach(a) PROVE TypeOK'
  BY <1>31 DEF Attach
<1>32. ASSUME NEW a \in Adapters, Detach(a) PROVE TypeOK'
  <2>1. Without(attached, a) \in Seq(Adapters) /\ Without(frame.leases, a) \in Seq(Adapters)
    BY WithoutDrops DEF Bridges, Bridged
  <2> QED BY <1>32, <2>1, ZenonT(30) DEF Detach
<1>33. CASE PromptStarts
  BY <1>33 DEF PromptStarts
<1>34. CASE PromptSettles
  BY <1>34 DEF PromptSettles
<1>35. CASE UNCHANGED vars
  BY <1>35 DEF vars
<1> HIDE DEF IInv, TypeOK, session, Points
<1> QED
  BY <1>1, <1>2, <1>3, <1>4, <1>5, <1>6, <1>7, <1>8, <1>9, <1>10, <1>11, <1>12, <1>13, <1>14,
     <1>15, <1>16, <1>17, <1>18, <1>19, <1>20, <1>21, <1>22, <1>23, <1>24, <1>25, <1>26, <1>27,
     <1>28, <1>29, <1>29a, <1>30, <1>31, <1>32, <1>33, <1>34, <1>35
  DEF Next

\* The next process starts only when the last one is dead.
LEMMA Lives == ASSUME IInv, [Next]_vars PROVE Life'
<1> USE DEF IInv, TypeOK, Life, Destroyed, Succession, Served, Alive, Factory, Serving, Control, Hidden, session
<1>1. ASSUME NEW to \in Agents, SwitchBegin(to) PROVE Life'
  BY <1>1 DEF SwitchBegin, NoFrame
<1>2. ASSUME NEW allowed \in BOOLEAN, MiddlewareReturns(allowed) PROVE Life'
  BY <1>2 DEF MiddlewareReturns
<1>3. ASSUME NEW a \in Adapters, NEW ok \in BOOLEAN, AdapterCleaned(a, ok) PROVE Life'
  BY <1>3 DEF AdapterCleaned
<1>4. CASE CleanupFailed
  BY <1>4 DEF CleanupFailed
<1>5. CASE CleanupStopped
  BY <1>5 DEF CleanupStopped
<1>6. CASE SwitchAgent
  BY <1>6 DEF SwitchAgent, Destroying
<1>7. CASE Quiesced
  BY <1>7 DEF Quiesced, QuiescedOf, StartsFactory
<1>8. CASE TerminationWins
  BY <1>8 DEF TerminationWins
<1>9. ASSUME NEW p \in Procs, LateAgent(p) PROVE Life'
  BY <1>9 DEF LateAgent, ObserveReplacementCleanup
<1>10. ASSUME NEW p \in Procs, LateFailure(p) PROVE Life'
  BY <1>10 DEF LateFailure
<1>11. ASSUME NEW p \in Procs, Installed(p) PROVE Life'
  BY <1>11 DEF Installed, MayInstall
<1>12. ASSUME NEW p \in Procs, FactoryFails(p) PROVE Life'
  BY <1>12 DEF FactoryFails, EnterRollback, Destroying
<1>13. ASSUME NEW p \in Procs, RolledBack(p) PROVE Life'
  BY <1>13 DEF RolledBack
<1>14. ASSUME NEW p \in Procs, RollbackFactoryFails(p) PROVE Life'
  BY <1>14 DEF RollbackFactoryFails, RollbackFails, DestroySession, Destroying
<1>15. CASE PatchRuns
  BY <1>15 DEF PatchRuns, PatchRecord
<1>16. CASE PatchFails
  BY <1>16 DEF PatchFails, EnterRollback, Destroying
<1>17. CASE SwitchCommits
  BY <1>17 DEF SwitchCommits
<1>18. CASE RollbackKilled
  BY <1>18 DEF RollbackKilled, StartsFactory
<1>19. CASE RollbackPatchRuns
  BY <1>19 DEF RollbackPatchRuns, PatchRecord
<1>20. CASE RollbackPatchFails
  BY <1>20 DEF RollbackPatchFails, RollbackFails, DestroySession, Destroying
<1>21. CASE RollbackCommits
  BY <1>21 DEF RollbackCommits, RollbackFails, DestroySession, Destroying
<1>22. CASE RollbackAbandoned
  BY <1>22 DEF RollbackAbandoned, PatchRecord
<1>23. ASSUME NEW p \in Procs, Killed(p) PROVE Life'
  BY <1>23 DEF Killed
<1>24. ASSUME NEW p \in Procs, QuiesceKillFails(p) PROVE Life'
  BY <1>24 DEF QuiesceKillFails, EnterRollback, Destroying
<1>25. ASSUME NEW p \in Procs, RollbackKillFails(p) PROVE Life'
  BY <1>25 DEF RollbackKillFails, RollbackFails, DestroySession, Destroying
<1>26. ASSUME NEW p \in Procs, KillFails(p) PROVE Life'
  BY <1>26 DEF KillFails
<1>27. CASE TeardownDone
  BY <1>27 DEF TeardownDone
<1>28. CASE Cancel
  BY <1>28 DEF Cancel
<1>29. CASE CancelPersists
  BY <1>29 DEF CancelPersists, DestroySession, Destroying
<1>29a. CASE CancelFails
  BY <1>29a DEF CancelFails
<1>30. CASE CancelAgain
  BY <1>30 DEF CancelAgain, DestroySession, Destroying
<1>31. ASSUME NEW a \in Adapters, Attach(a) PROVE Life'
  BY <1>31 DEF Attach
<1>32. ASSUME NEW a \in Adapters, Detach(a) PROVE Life'
  BY <1>32 DEF Detach
<1>33. CASE PromptStarts
  BY <1>33 DEF PromptStarts
<1>34. CASE PromptSettles
  BY <1>34 DEF PromptSettles
<1>35. CASE UNCHANGED vars
  BY <1>35 DEF vars
<1> HIDE DEF IInv, TypeOK, Life, Destroyed, Succession, Served, Alive, Factory, Serving, Control, Hidden, session
<1> QED
  BY <1>1, <1>2, <1>3, <1>4, <1>5, <1>6, <1>7, <1>8, <1>9, <1>10, <1>11, <1>12, <1>13, <1>14,
     <1>15, <1>16, <1>17, <1>18, <1>19, <1>20, <1>21, <1>22, <1>23, <1>24, <1>25, <1>26, <1>27,
     <1>28, <1>29, <1>29a, <1>30, <1>31, <1>32, <1>33, <1>34, <1>35
  DEF Next

\* Controls stay hidden until the record follows.
LEMMA Controls == ASSUME IInv, [Next]_vars PROVE Control'
<1> USE DEF IInv, TypeOK, Control, Hidden, Committed, Recorded, session
<1>1. ASSUME NEW to \in Agents, SwitchBegin(to) PROVE Control'
  BY <1>1 DEF SwitchBegin, NoFrame
<1>2. ASSUME NEW allowed \in BOOLEAN, MiddlewareReturns(allowed) PROVE Control'
  BY <1>2 DEF MiddlewareReturns
<1>3. ASSUME NEW a \in Adapters, NEW ok \in BOOLEAN, AdapterCleaned(a, ok) PROVE Control'
  BY <1>3 DEF AdapterCleaned
<1>4. CASE CleanupFailed
  BY <1>4 DEF CleanupFailed
<1>5. CASE CleanupStopped
  BY <1>5 DEF CleanupStopped
<1>6. CASE SwitchAgent
  BY <1>6 DEF SwitchAgent, Destroying
<1>7. CASE Quiesced
  BY <1>7 DEF Quiesced, QuiescedOf, StartsFactory
<1>8. CASE TerminationWins
  BY <1>8 DEF TerminationWins
<1>9. ASSUME NEW p \in Procs, LateAgent(p) PROVE Control'
  BY <1>9 DEF LateAgent, ObserveReplacementCleanup
<1>10. ASSUME NEW p \in Procs, LateFailure(p) PROVE Control'
  BY <1>10 DEF LateFailure
<1>11. ASSUME NEW p \in Procs, Installed(p) PROVE Control'
  BY <1>11 DEF Installed, MayInstall
<1>12. ASSUME NEW p \in Procs, FactoryFails(p) PROVE Control'
  BY <1>12 DEF FactoryFails, EnterRollback, Destroying
<1>13. ASSUME NEW p \in Procs, RolledBack(p) PROVE Control'
  BY <1>13 DEF RolledBack
<1>14. ASSUME NEW p \in Procs, RollbackFactoryFails(p) PROVE Control'
  BY <1>14 DEF RollbackFactoryFails, RollbackFails, DestroySession, Destroying
<1>15. CASE PatchRuns
  BY <1>15 DEF PatchRuns, PatchRecord
<1>16. CASE PatchFails
  BY <1>16 DEF PatchFails, EnterRollback, Destroying
<1>17. CASE SwitchCommits
  BY <1>17 DEF SwitchCommits
<1>18. CASE RollbackKilled
  BY <1>18 DEF RollbackKilled, StartsFactory
<1>19. CASE RollbackPatchRuns
  BY <1>19 DEF RollbackPatchRuns, PatchRecord
<1>20. CASE RollbackPatchFails
  BY <1>20 DEF RollbackPatchFails, RollbackFails, DestroySession, Destroying
<1>21. CASE RollbackCommits
  BY <1>21 DEF RollbackCommits, RollbackFails, DestroySession, Destroying
<1>22. CASE RollbackAbandoned
  BY <1>22 DEF RollbackAbandoned, PatchRecord
<1>23. ASSUME NEW p \in Procs, Killed(p) PROVE Control'
  BY <1>23 DEF Killed
<1>24. ASSUME NEW p \in Procs, QuiesceKillFails(p) PROVE Control'
  BY <1>24 DEF QuiesceKillFails, EnterRollback, Destroying
<1>25. ASSUME NEW p \in Procs, RollbackKillFails(p) PROVE Control'
  BY <1>25 DEF RollbackKillFails, RollbackFails, DestroySession, Destroying
<1>26. ASSUME NEW p \in Procs, KillFails(p) PROVE Control'
  BY <1>26 DEF KillFails
<1>27. CASE TeardownDone
  BY <1>27 DEF TeardownDone
<1>28. CASE Cancel
  BY <1>28 DEF Cancel
<1>29. CASE CancelPersists
  BY <1>29 DEF CancelPersists, DestroySession, Destroying
<1>29a. CASE CancelFails
  BY <1>29a DEF CancelFails
<1>30. CASE CancelAgain
  BY <1>30 DEF CancelAgain, DestroySession, Destroying
<1>31. ASSUME NEW a \in Adapters, Attach(a) PROVE Control'
  BY <1>31 DEF Attach
<1>32. ASSUME NEW a \in Adapters, Detach(a) PROVE Control'
  BY <1>32 DEF Detach
<1>33. CASE PromptStarts
  BY <1>33 DEF PromptStarts
<1>34. CASE PromptSettles
  BY <1>34 DEF PromptSettles
<1>35. CASE UNCHANGED vars
  BY <1>35 DEF vars
<1> HIDE DEF IInv, TypeOK, Control, Hidden, Committed, Recorded, session
<1> QED
  BY <1>1, <1>2, <1>3, <1>4, <1>5, <1>6, <1>7, <1>8, <1>9, <1>10, <1>11, <1>12, <1>13, <1>14,
     <1>15, <1>16, <1>17, <1>18, <1>19, <1>20, <1>21, <1>22, <1>23, <1>24, <1>25, <1>26, <1>27,
     <1>28, <1>29, <1>29a, <1>30, <1>31, <1>32, <1>33, <1>34, <1>35
  DEF Next

\* Bridges follow the attachments.
LEMMA Bridging == ASSUME IInv, [Next]_vars PROVE Bridges'
<1> USE DEF IInv, TypeOK, Bridges, Bridged, BridgesAreAttached, Attached, Leased, AllReachable
<1>1. ASSUME NEW to \in Agents, SwitchBegin(to) PROVE Bridges'
  <2>1. frame'.leases = <<>> /\ ~frame'.had
    BY <1>1, NoFrameIsTyped DEF SwitchBegin, Frames
  <2>2. Leased' = {} /\ OnceEach(frame'.leases)
    BY <2>1 DEF ToSet, OnceEach
  <2> QED BY <1>1, <2>1, <2>2 DEF SwitchBegin
<1>2. ASSUME NEW allowed \in BOOLEAN, MiddlewareReturns(allowed) PROVE Bridges'
  BY <1>2, ZenonT(30) DEF MiddlewareReturns
<1>3. ASSUME NEW a \in Adapters, NEW ok \in BOOLEAN, AdapterCleaned(a, ok) PROVE Bridges'
  BY <1>3 DEF AdapterCleaned
<1>4. CASE CleanupFailed
  <2>1. Reconnected \subseteq Attached
    BY SetsOfAdapters
  <2> QED BY <1>4, <2>1 DEF CleanupFailed
<1>5. CASE CleanupStopped
  BY <1>5 DEF CleanupStopped
<1>6. CASE SwitchAgent
  BY <1>6 DEF SwitchAgent, Destroying
<1>7. CASE Quiesced
  BY <1>7 DEF Quiesced, QuiescedOf, StartsFactory
<1>8. CASE TerminationWins
  BY <1>8 DEF TerminationWins
<1>9. ASSUME NEW p \in Procs, LateAgent(p) PROVE Bridges'
  BY <1>9 DEF LateAgent, ObserveReplacementCleanup
<1>10. ASSUME NEW p \in Procs, LateFailure(p) PROVE Bridges'
  BY <1>10 DEF LateFailure
<1>11. ASSUME NEW p \in Procs, Installed(p) PROVE Bridges'
  BY <1>11 DEF Installed, MayInstall
<1>12. ASSUME NEW p \in Procs, FactoryFails(p) PROVE Bridges'
  BY <1>12 DEF FactoryFails, EnterRollback, Destroying
<1>13. ASSUME NEW p \in Procs, RolledBack(p) PROVE Bridges'
  BY <1>13 DEF RolledBack
<1>14. ASSUME NEW p \in Procs, RollbackFactoryFails(p) PROVE Bridges'
  BY <1>14 DEF RollbackFactoryFails, RollbackFails, DestroySession, Destroying
<1>15. CASE PatchRuns
  BY <1>15 DEF PatchRuns, PatchRecord
<1>16. CASE PatchFails
  BY <1>16 DEF PatchFails, EnterRollback, Destroying
<1>17. CASE SwitchCommits
  BY <1>17 DEF SwitchCommits
<1>18. CASE RollbackKilled
  BY <1>18 DEF RollbackKilled, StartsFactory
<1>19. CASE RollbackPatchRuns
  BY <1>19 DEF RollbackPatchRuns, PatchRecord
<1>20. CASE RollbackPatchFails
  BY <1>20 DEF RollbackPatchFails, RollbackFails, DestroySession, Destroying
<1>21. CASE RollbackCommits
  BY <1>21 DEF RollbackCommits, RollbackFails, DestroySession, Destroying
<1>22. CASE RollbackAbandoned
  BY <1>22 DEF RollbackAbandoned, PatchRecord
<1>23. ASSUME NEW p \in Procs, Killed(p) PROVE Bridges'
  BY <1>23 DEF Killed
<1>24. ASSUME NEW p \in Procs, QuiesceKillFails(p) PROVE Bridges'
  BY <1>24 DEF QuiesceKillFails, EnterRollback, Destroying
<1>25. ASSUME NEW p \in Procs, RollbackKillFails(p) PROVE Bridges'
  BY <1>25 DEF RollbackKillFails, RollbackFails, DestroySession, Destroying
<1>26. ASSUME NEW p \in Procs, KillFails(p) PROVE Bridges'
  BY <1>26 DEF KillFails
<1>27. CASE TeardownDone
  BY <1>27 DEF TeardownDone
<1>28. CASE Cancel
  BY <1>28 DEF Cancel
<1>29. CASE CancelPersists
  BY <1>29 DEF CancelPersists, DestroySession, Destroying
<1>29a. CASE CancelFails
  BY <1>29a DEF CancelFails
<1>30. CASE CancelAgain
  BY <1>30 DEF CancelAgain, DestroySession, Destroying
<1>31. ASSUME NEW a \in Adapters, Attach(a) PROVE Bridges'
  <2>1. Attached' = Attached \cup {a} /\ OnceEach(attached')
    BY <1>31, Appended DEF Attach
  <2> QED BY <1>31, <2>1 DEF Attach
<1>32. ASSUME NEW a \in Adapters, Detach(a) PROVE Bridges'
  <2>1. frame'.leases = Without(frame.leases, a) /\ frame'.had = frame.had
    BY <1>32 DEF Detach
  <2>2. Attached' = Attached \ {a} /\ OnceEach(attached')
    BY <1>32, WithoutDrops DEF Detach
  <2>3. Leased' = Leased \ {a} /\ OnceEach(frame'.leases)
    BY <2>1, WithoutDrops
  <2> HIDE DEF Attached, Leased
  <2> QED BY <1>32, <2>1, <2>2, <2>3 DEF Detach
<1>33. CASE PromptStarts
  BY <1>33 DEF PromptStarts
<1>34. CASE PromptSettles
  BY <1>34 DEF PromptSettles
<1>35. CASE UNCHANGED vars
  BY <1>35 DEF vars
<1> HIDE DEF IInv, TypeOK, Bridges, Bridged, BridgesAreAttached, Attached, Leased, AllReachable
<1> QED
  BY <1>1, <1>2, <1>3, <1>4, <1>5, <1>6, <1>7, <1>8, <1>9, <1>10, <1>11, <1>12, <1>13, <1>14,
     <1>15, <1>16, <1>17, <1>18, <1>19, <1>20, <1>21, <1>22, <1>23, <1>24, <1>25, <1>26, <1>27,
     <1>28, <1>29, <1>29a, <1>30, <1>31, <1>32, <1>33, <1>34, <1>35
  DEF Next

\* Nothing comes back behind the terminal boundary.
LEMMA Crosses == ASSUME IInv, [Next]_vars PROVE Crossing
<1> USE DEF IInv, Control, Hidden, Bridges, BridgesAreAttached, Crossing, session
<1>1. ASSUME NEW to \in Agents, SwitchBegin(to) PROVE Crossing
  BY <1>1 DEF SwitchBegin, NoFrame
<1>2. ASSUME NEW allowed \in BOOLEAN, MiddlewareReturns(allowed) PROVE Crossing
  BY <1>2 DEF MiddlewareReturns
<1>3. ASSUME NEW a \in Adapters, NEW ok \in BOOLEAN, AdapterCleaned(a, ok) PROVE Crossing
  BY <1>3 DEF AdapterCleaned
<1>4. CASE CleanupFailed
  BY <1>4 DEF CleanupFailed
<1>5. CASE CleanupStopped
  BY <1>5 DEF CleanupStopped
<1>6. CASE SwitchAgent
  BY <1>6 DEF SwitchAgent, Destroying
<1>7. CASE Quiesced
  BY <1>7 DEF Quiesced, QuiescedOf, StartsFactory
<1>8. CASE TerminationWins
  BY <1>8 DEF TerminationWins
<1>9. ASSUME NEW p \in Procs, LateAgent(p) PROVE Crossing
  BY <1>9 DEF LateAgent, ObserveReplacementCleanup
<1>10. ASSUME NEW p \in Procs, LateFailure(p) PROVE Crossing
  BY <1>10 DEF LateFailure
<1>11. ASSUME NEW p \in Procs, Installed(p) PROVE Crossing
  BY <1>11 DEF Installed, MayInstall
<1>12. ASSUME NEW p \in Procs, FactoryFails(p) PROVE Crossing
  BY <1>12 DEF FactoryFails, EnterRollback, Destroying
<1>13. ASSUME NEW p \in Procs, RolledBack(p) PROVE Crossing
  BY <1>13 DEF RolledBack
<1>14. ASSUME NEW p \in Procs, RollbackFactoryFails(p) PROVE Crossing
  BY <1>14 DEF RollbackFactoryFails, RollbackFails, DestroySession, Destroying
<1>15. CASE PatchRuns
  BY <1>15 DEF PatchRuns, PatchRecord
<1>16. CASE PatchFails
  BY <1>16 DEF PatchFails, EnterRollback, Destroying
<1>17. CASE SwitchCommits
  BY <1>17 DEF SwitchCommits
<1>18. CASE RollbackKilled
  BY <1>18 DEF RollbackKilled, StartsFactory
<1>19. CASE RollbackPatchRuns
  BY <1>19 DEF RollbackPatchRuns, PatchRecord
<1>20. CASE RollbackPatchFails
  BY <1>20 DEF RollbackPatchFails, RollbackFails, DestroySession, Destroying
<1>21. CASE RollbackCommits
  BY <1>21 DEF RollbackCommits, RollbackFails, DestroySession, Destroying
<1>22. CASE RollbackAbandoned
  BY <1>22 DEF RollbackAbandoned, PatchRecord
<1>23. ASSUME NEW p \in Procs, Killed(p) PROVE Crossing
  BY <1>23 DEF Killed
<1>24. ASSUME NEW p \in Procs, QuiesceKillFails(p) PROVE Crossing
  BY <1>24 DEF QuiesceKillFails, EnterRollback, Destroying
<1>25. ASSUME NEW p \in Procs, RollbackKillFails(p) PROVE Crossing
  BY <1>25 DEF RollbackKillFails, RollbackFails, DestroySession, Destroying
<1>26. ASSUME NEW p \in Procs, KillFails(p) PROVE Crossing
  BY <1>26 DEF KillFails
<1>27. CASE TeardownDone
  BY <1>27 DEF TeardownDone
<1>28. CASE Cancel
  BY <1>28 DEF Cancel
<1>29. CASE CancelPersists
  BY <1>29 DEF CancelPersists, DestroySession, Destroying
<1>29a. CASE CancelFails
  BY <1>29a DEF CancelFails
<1>30. CASE CancelAgain
  BY <1>30 DEF CancelAgain, DestroySession, Destroying
<1>31. ASSUME NEW a \in Adapters, Attach(a) PROVE Crossing
  BY <1>31 DEF Attach
<1>32. ASSUME NEW a \in Adapters, Detach(a) PROVE Crossing
  BY <1>32 DEF Detach
<1>33. CASE PromptStarts
  BY <1>33 DEF PromptStarts
<1>34. CASE PromptSettles
  BY <1>34 DEF PromptSettles
<1>35. CASE UNCHANGED vars
  BY <1>35 DEF vars
<1> HIDE DEF IInv, Control, Hidden, Bridges, BridgesAreAttached, Crossing, session
<1> QED
  BY <1>1, <1>2, <1>3, <1>4, <1>5, <1>6, <1>7, <1>8, <1>9, <1>10, <1>11, <1>12, <1>13, <1>14,
     <1>15, <1>16, <1>17, <1>18, <1>19, <1>20, <1>21, <1>22, <1>23, <1>24, <1>25, <1>26, <1>27,
     <1>28, <1>29, <1>29a, <1>30, <1>31, <1>32, <1>33, <1>34, <1>35
  DEF Next

\* A switch that ends has given the bridges back.
LEMMA Returns == ASSUME IInv, [Next]_vars PROVE Returned
<1> USE DEF IInv, Control, Hidden, Bridges, Bridged, Reconnected, AllReachable, Leased, session, Returned
<1>1. ASSUME NEW to \in Agents, SwitchBegin(to) PROVE Returned
  BY <1>1 DEF SwitchBegin, NoFrame
<1>2. ASSUME NEW allowed \in BOOLEAN, MiddlewareReturns(allowed) PROVE Returned
  BY <1>2 DEF MiddlewareReturns
<1>3. ASSUME NEW a \in Adapters, NEW ok \in BOOLEAN, AdapterCleaned(a, ok) PROVE Returned
  BY <1>3 DEF AdapterCleaned
<1>4. CASE CleanupFailed
  BY <1>4 DEF CleanupFailed
<1>5. CASE CleanupStopped
  BY <1>5 DEF CleanupStopped
<1>6. CASE SwitchAgent
  BY <1>6 DEF SwitchAgent, Destroying
<1>7. CASE Quiesced
  BY <1>7 DEF Quiesced, QuiescedOf, StartsFactory
<1>8. CASE TerminationWins
  BY <1>8 DEF TerminationWins
<1>9. ASSUME NEW p \in Procs, LateAgent(p) PROVE Returned
  BY <1>9 DEF LateAgent, ObserveReplacementCleanup
<1>10. ASSUME NEW p \in Procs, LateFailure(p) PROVE Returned
  BY <1>10 DEF LateFailure
<1>11. ASSUME NEW p \in Procs, Installed(p) PROVE Returned
  BY <1>11 DEF Installed, MayInstall
<1>12. ASSUME NEW p \in Procs, FactoryFails(p) PROVE Returned
  BY <1>12 DEF FactoryFails, EnterRollback, Destroying
<1>13. ASSUME NEW p \in Procs, RolledBack(p) PROVE Returned
  BY <1>13 DEF RolledBack
<1>14. ASSUME NEW p \in Procs, RollbackFactoryFails(p) PROVE Returned
  BY <1>14 DEF RollbackFactoryFails, RollbackFails, DestroySession, Destroying
<1>15. CASE PatchRuns
  BY <1>15 DEF PatchRuns, PatchRecord
<1>16. CASE PatchFails
  BY <1>16 DEF PatchFails, EnterRollback, Destroying
<1>17. CASE SwitchCommits
  <2>1. Reconnected \subseteq Leased
    BY SetsOfAdapters
  <2> QED BY <1>17, <2>1 DEF SwitchCommits
<1>18. CASE RollbackKilled
  BY <1>18 DEF RollbackKilled, StartsFactory
<1>19. CASE RollbackPatchRuns
  BY <1>19 DEF RollbackPatchRuns, PatchRecord
<1>20. CASE RollbackPatchFails
  BY <1>20 DEF RollbackPatchFails, RollbackFails, DestroySession, Destroying
<1>21. CASE RollbackCommits
  <2>1. Reconnected \subseteq Leased
    BY SetsOfAdapters
  <2>2. pc' = "idle" /\ ~terminating' /\ frame.had => Leased \subseteq conn'
    BY <1>21 DEF RollbackCommits, RollbackFails, DestroySession
  <2> QED BY <2>1, <2>2
<1>22. CASE RollbackAbandoned
  BY <1>22 DEF RollbackAbandoned, PatchRecord
<1>23. ASSUME NEW p \in Procs, Killed(p) PROVE Returned
  BY <1>23 DEF Killed
<1>24. ASSUME NEW p \in Procs, QuiesceKillFails(p) PROVE Returned
  BY <1>24 DEF QuiesceKillFails, EnterRollback, Destroying
<1>25. ASSUME NEW p \in Procs, RollbackKillFails(p) PROVE Returned
  BY <1>25 DEF RollbackKillFails, RollbackFails, DestroySession, Destroying
<1>26. ASSUME NEW p \in Procs, KillFails(p) PROVE Returned
  BY <1>26 DEF KillFails
<1>27. CASE TeardownDone
  BY <1>27 DEF TeardownDone
<1>28. CASE Cancel
  BY <1>28 DEF Cancel
<1>29. CASE CancelPersists
  BY <1>29 DEF CancelPersists, DestroySession, Destroying
<1>29a. CASE CancelFails
  BY <1>29a DEF CancelFails
<1>30. CASE CancelAgain
  BY <1>30 DEF CancelAgain, DestroySession, Destroying
<1>31. ASSUME NEW a \in Adapters, Attach(a) PROVE Returned
  BY <1>31 DEF Attach
<1>32. ASSUME NEW a \in Adapters, Detach(a) PROVE Returned
  BY <1>32 DEF Detach
<1>33. CASE PromptStarts
  BY <1>33 DEF PromptStarts
<1>34. CASE PromptSettles
  BY <1>34 DEF PromptSettles
<1>35. CASE UNCHANGED vars
  BY <1>35 DEF vars
<1> HIDE DEF IInv, Control, Hidden, Bridges, Bridged, Reconnected, AllReachable, Leased, session, Returned
<1> QED
  BY <1>1, <1>2, <1>3, <1>4, <1>5, <1>6, <1>7, <1>8, <1>9, <1>10, <1>11, <1>12, <1>13, <1>14,
     <1>15, <1>16, <1>17, <1>18, <1>19, <1>20, <1>21, <1>22, <1>23, <1>24, <1>25, <1>26, <1>27,
     <1>28, <1>29, <1>29a, <1>30, <1>31, <1>32, <1>33, <1>34, <1>35
  DEF Next

-----------------------------------------------------------------------------
(* All steps *)

\* A session starts with one live process, and an adapter in its sequence once.
LEMMA Started == Init => IInv
<1> SUFFICES ASSUME Init PROVE IInv
  OBVIOUS
<1>1. NoFrame \in Frames /\ frame = NoFrame /\ frame.leases = <<>> /\ ~frame.had
  BY NoFrameIsTyped DEF Init
<1>2. 1 \in Procs
  BY FirstProcess
<1>3. attached \in Seq(Adapters) /\ OnceEach(attached) /\ Channel \in Attached
  <2>1. CASE attached = <<Channel>>
    BY <2>1 DEF OnceEach, Attached, ToSet
  <2>2. ASSUME NEW a \in Adapters \ {Channel}, attached = <<Channel, a>>
        PROVE  attached \in Seq(Adapters) /\ OnceEach(attached) /\ Channel \in Attached
    BY <2>2 DEF OnceEach, Attached, ToSet
  <2> QED BY <2>1, <2>2 DEF Init
<1>4. TypeOK
  <2>1. history \in Seq(Agents) /\ record \in [name : Agents, agent : Procs, history : Seq(Agents),
                                               status : {"active", "cancelled"}]
    BY <1>2 DEF Init
  <2>2. frame \in [to : Agents, from : Agents, leases : Seq(Adapters), todo : SUBSET Adapters,
                   had : BOOLEAN, failed : BOOLEAN, new : Procs]
    BY <1>1 DEF Frames
  <2>3. available \subseteq Adapters /\ conn \subseteq Adapters /\ switches \in 0 .. MaxSwitches
    BY DEF Init
  <2>4. /\ proc \in [Procs -> {"unborn", "starting", "live", "dead"}]
        /\ destroyOp \in [Procs -> {"none", "pending", "done", "failed"}]
    BY DEF Init
  <2> QED BY <1>2, <1>3, <2>1, <2>2, <2>3, <2>4 DEF Init, TypeOK, Points
<1>5. Life
  BY <1>2 DEF Init, Life, Destroyed, Succession, Served, Alive
<1>6. Control
  BY DEF Init, Control, Hidden, Committed
<1>7. Bridges
  <2>1. Leased = {} /\ OnceEach(frame.leases)
    BY <1>1 DEF Leased, ToSet, OnceEach
  <2>2. conn \subseteq Attached /\ ~terminating /\ pc = "idle"
    BY <1>3 DEF Init
  <2> QED BY <1>3, <2>1, <2>2 DEF Bridges, Bridged, BridgesAreAttached
<1> QED BY <1>4, <1>5, <1>6, <1>7 DEF IInv

\* The invariant holds in every state.
THEOREM Invariance == Spec => []IInv
<1>1. IInv /\ [Next]_vars => IInv'
  BY Types, Lives, Controls, Bridging DEF IInv
<1> QED BY Started, <1>1, PTL DEF Spec

\* The variables keep their types.
THEOREM TypesKept == Spec => []TypeOK
<1>1. IInv => TypeOK
  BY DEF IInv
<1> QED BY <1>1, Invariance, PTL

\* Of all the processes only the installed agent or its successor is alive.
LEMMA AtMostOneRuntime == IInv => OneRuntime
<1> SUFFICES ASSUME IInv PROVE OneRuntime
  OBVIOUS
<1> DEFINE A == {p \in Procs : proc[p] \in {"starting", "live"}}
<1>1. \A p, q \in A : p = q
  BY DEF IInv, Life, Succession, Alive, TypeOK
<1>2. CASE A = {}
  BY <1>2, FS_EmptySet DEF OneRuntime
<1>3. CASE A # {}
  <2>1. PICK p \in A : TRUE
    BY <1>3
  <2>2. A = {p}
    BY <1>1, <2>1
  <2> HIDE DEF A
  <2>3. Cardinality(A) = 1
    BY <2>2, FS_Singleton
  <2> QED BY <2>3 DEF OneRuntime, A
<1> QED BY <1>2, <1>3

LEMMA StatesAreAtomic ==
  IInv => OneRuntime /\ ControlsAreCommitted /\ SwitchLeavesAgent /\ BridgesAreAttached
<1> SUFFICES ASSUME IInv PROVE ControlsAreCommitted /\ SwitchLeavesAgent /\ BridgesAreAttached
  BY AtMostOneRuntime
<1>1. ControlsAreCommitted
  BY DEF IInv, Control, Hidden, Committed, Recorded, ControlsAreCommitted
<1>2. SwitchLeavesAgent
  BY DEF IInv, Life, Served, Serving, Control, Hidden, SwitchLeavesAgent
<1> QED BY <1>1, <1>2 DEF IInv, Bridges

\* For any agents, adapters and number of switches: one process at a time,
\* controls and bridges only for what is installed and recorded, and nothing
\* resurrected behind a cancellation.
THEOREM Atomicity == Spec => SwitchIsAtomic
<1>1. Spec => [](OneRuntime /\ ControlsAreCommitted /\ SwitchLeavesAgent /\ BridgesAreAttached)
  BY StatesAreAtomic, Invariance, PTL
<1>2. IInv /\ [Next]_vars =>
        [pc # "idle" /\ pc' = "idle" /\ ~terminating' /\ frame.had => Reconnected \subseteq conn']_vars
  BY Returns DEF Returned
<1>3. Spec => LeasedBridgesReturn
  BY <1>2, Invariance, PTL DEF Spec, LeasedBridgesReturn
<1>4. IInv /\ [Next]_vars =>
        [terminating => /\ terminating' /\ suspended' /\ agent' = agent /\ name' = name
                        /\ conn' \subseteq conn
                        /\ record' \in {record, [record EXCEPT !.status = "cancelled"]}]_vars
  BY Crosses DEF Crossing
<1>5. Spec => TerminalBoundaryHolds
  BY <1>4, Invariance, PTL DEF Spec, TerminalBoundaryHolds
<1> QED BY <1>1, <1>3, <1>5, PTL DEF SwitchIsAtomic

=============================================================================
