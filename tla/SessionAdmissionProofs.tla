-------------------------- MODULE SessionAdmissionProofs --------------------------
(***************************************************************************)
(* The session limit for any number of sessions and prompts and any        *)
(* limits: a session runs only with a slot of its own and used capacity    *)
(* never exceeds the highest limit configured, but for the resumed         *)
(* sessions that failed and that the factory activated without asking.     *)
(***************************************************************************)
EXTENDS SessionAdmission, FiniteSetTheorems, TLAPS

(***************************************************************************)
(* The inductive invariant.                                                *)
(***************************************************************************)
Distinct(q) == \A i, j \in 1 .. Len(q) : q[i] = q[j] => i = j

\* Everybody in line is there once, and is at the await that waits for it.
WaitersWait ==
  /\ Distinct(line)
  /\ \A p \in Prompts : p \in ToSet(line) => pc[p] \in {"asking", "recheck"}
  /\ \A s \in Sessions : s \in ToSet(line) => status[s] = "asking"

\* A creation that spawns its agent has a reservation, a slot belongs to a
\* registered session.
SlotsAndReservationsApart ==
  /\ \A s \in Sessions : s \in reserved <=> status[s] = "spawning"
  /\ \A s \in registered \cup terminating : status[s] \notin Creation
  /\ owners \subseteq registered

\* A claim is held between the guard and what comes right after it, on a
\* session that owns a slot.
ClaimsAreHeld ==
  \A p \in claims : of[p] \in owners /\ pc[p] \in {"granted", "regranted"}

\* A prompt at work belongs to a session that was registered, the queue of a
\* session starts one at a time, and the one that is about to bring a failed
\* session back holds a claim, unless the factory brought it back before.
PromptsAtWork ==
  /\ \A p \in Prompts : pc[p] # "idle" => of[p] \in registered \cup terminating
  /\ \A p, q \in Prompts : of[p] = of[q] /\ p # q =>
       pc[p] \notin {"recheck", "regranted", "running"}
       \/ pc[q] \notin {"recheck", "regranted", "running"}
  /\ \A p \in Prompts : pc[p] \in {"recheck", "regranted"} /\ ~Over(of[p]) =>
       status[of[p]] = "error" \/ of[p] \in revived
  /\ \A p \in Prompts : pc[p] = "regranted" /\ ~Over(of[p]) =>
       p \in claims \/ of[p] \in revived

\* The limit the holder of the lock has read was configured before.
ReadingsAreConfigured ==
  /\ limit <= highest
  /\ reading # Unread => reading <= highest

SInv ==
  /\ TypeOK
  /\ WaitersWait
  /\ SlotsAndReservationsApart
  /\ ClaimsAreHeld
  /\ PromptsAtWork
  /\ ReadingsAreConfigured
  /\ RunningSessionsOwnASlot

IInv == SInv /\ CapacityNeverExceeded

USE AdmissionAssumption

(***************************************************************************)
(* The line.                                                               *)
(***************************************************************************)
\* Appending somebody who is not in line.
LEMMA AppendToLine ==
  ASSUME NEW S, NEW q \in Seq(S), NEW t \in S, Distinct(q), t \notin ToSet(q)
  PROVE  /\ Append(q, t) \in Seq(S) /\ Distinct(Append(q, t))
         /\ ToSet(Append(q, t)) = ToSet(q) \cup {t}
<1>1. /\ Append(q, t) \in Seq(S) /\ Len(Append(q, t)) = Len(q) + 1
      /\ \A i \in 1 .. Len(q) + 1 : Append(q, t)[i] = IF i <= Len(q) THEN q[i] ELSE t
  OBVIOUS
<1>2. DOMAIN q = 1 .. Len(q) /\ DOMAIN Append(q, t) = 1 .. Len(q) + 1 /\ Len(q) \in Nat
  BY <1>1
<1>3. \A i \in 1 .. Len(q) : q[i] \in ToSet(q)
  BY <1>2 DEF ToSet
<1>4. Distinct(Append(q, t))
  BY <1>1, <1>2, <1>3 DEF Distinct
<1>5. ToSet(Append(q, t)) \subseteq ToSet(q) \cup {t}
  BY <1>1, <1>2, <1>3 DEF ToSet
<1>6. ToSet(q) \subseteq ToSet(Append(q, t))
  <2> SUFFICES ASSUME NEW x \in ToSet(q) PROVE x \in ToSet(Append(q, t))
    OBVIOUS
  <2>1. PICK i \in 1 .. Len(q) : q[i] = x
    BY <1>2 DEF ToSet
  <2>2. Append(q, t)[i] = x /\ i \in DOMAIN Append(q, t)
    BY <1>1, <1>2, <2>1
  <2> QED BY <2>2 DEF ToSet
<1>7. t \in ToSet(Append(q, t))
  <2>1. Append(q, t)[Len(q) + 1] = t /\ Len(q) + 1 \in DOMAIN Append(q, t)
    BY <1>1, <1>2
  <2> QED BY <2>1 DEF ToSet
<1> QED BY <1>1, <1>4, <1>5, <1>6, <1>7

\* The head leaves, and nobody else.
LEMMA TailOfLine ==
  ASSUME NEW S, NEW q \in Seq(S), q # <<>>, Distinct(q)
  PROVE  /\ Tail(q) \in Seq(S) /\ Distinct(Tail(q)) /\ Head(q) \in ToSet(q)
         /\ ToSet(Tail(q)) = ToSet(q) \ {Head(q)}
<1>1. /\ Tail(q) \in Seq(S) /\ Len(Tail(q)) = Len(q) - 1 /\ Len(q) \in Nat \ {0}
      /\ \A i \in 1 .. Len(q) - 1 : Tail(q)[i] = q[i + 1]
      /\ Head(q) = q[1]
  OBVIOUS
<1>2. DOMAIN q = 1 .. Len(q) /\ DOMAIN Tail(q) = 1 .. Len(q) - 1
  BY <1>1
<1>3. Distinct(Tail(q))
  BY <1>1, <1>2 DEF Distinct
<1>4. Head(q) \in ToSet(q)
  <2>1. 1 \in DOMAIN q
    BY <1>1, <1>2
  <2> QED BY <1>1, <2>1 DEF ToSet
<1>5. ToSet(Tail(q)) \subseteq ToSet(q) \ {Head(q)}
  <2> SUFFICES ASSUME NEW i \in DOMAIN Tail(q) PROVE Tail(q)[i] \in ToSet(q) \ {Head(q)}
    BY DEF ToSet
  <2>1. i + 1 \in DOMAIN q /\ Tail(q)[i] = q[i + 1] /\ i + 1 # 1 /\ 1 \in 1 .. Len(q)
    BY <1>1, <1>2
  <2>2. q[i + 1] # q[1]
    BY <1>2, <2>1 DEF Distinct
  <2> QED BY <1>1, <2>1, <2>2 DEF ToSet
<1>6. ToSet(q) \ {Head(q)} \subseteq ToSet(Tail(q))
  <2> SUFFICES ASSUME NEW i \in DOMAIN q, q[i] # Head(q) PROVE q[i] \in ToSet(Tail(q))
    BY DEF ToSet
  <2>1. i - 1 \in DOMAIN Tail(q) /\ Tail(q)[i - 1] = q[i]
    BY <1>1, <1>2
  <2> QED BY <2>1 DEF ToSet
<1> QED BY <1>1, <1>3, <1>4, <1>5, <1>6

(***************************************************************************)
(* One lemma for every action: what it keeps of the invariant.             *)
(***************************************************************************)
\* The limit is read.
LEMMA ReadLimitKeeps ==
  ASSUME SInv, ReadLimit
  PROVE  SInv'
<1>1. line' = line
  BY DEF ReadLimit, Waits, NeedsLimit, lease, config, resumed
<1>2. TypeOK'
  BY <1>1 DEF SInv, TypeOK, Creation, Running, Ended, Stages, ReadLimit, Waits, NeedsLimit, lease, config, resumed
<1>3. WaitersWait'
  BY <1>1 DEF SInv, TypeOK, WaitersWait, Creation, Running, Ended, ReadLimit, Waits, NeedsLimit, lease, config, resumed
<1>4. SlotsAndReservationsApart'
  BY <1>1 DEF SInv, TypeOK, SlotsAndReservationsApart, Creation, Running, Ended, ReadLimit, Waits, NeedsLimit, lease, config, resumed
<1>5. ClaimsAreHeld'
  BY <1>1 DEF SInv, TypeOK, SlotsAndReservationsApart, ClaimsAreHeld, Creation, Running, Ended, ReadLimit, Waits, NeedsLimit, lease, config, resumed
<1>6. PromptsAtWork'
  BY <1>1 DEF SInv, TypeOK, SlotsAndReservationsApart, ClaimsAreHeld, PromptsAtWork, Over, Creation, Running, Ended, ReadLimit, Waits, NeedsLimit, lease, config, resumed
<1>7. ReadingsAreConfigured'
  BY <1>1 DEF SInv, TypeOK, ReadingsAreConfigured, ReadLimit, Waits, NeedsLimit, lease, config, resumed
<1>8. RunningSessionsOwnASlot'
  BY <1>1 DEF SInv, TypeOK, SlotsAndReservationsApart, ClaimsAreHeld, PromptsAtWork, Over, RunningSessionsOwnASlot, Creation, Running, Ended, ReadLimit, Waits, NeedsLimit, lease, config, resumed
<1> QED BY <1>2, <1>3, <1>4, <1>5, <1>6, <1>7, <1>8 DEF SInv

\* The limit cannot be read.
LEMMA ReadFailsKeeps ==
  ASSUME SInv, ReadFails
  PROVE  SInv'
<1>1. /\ line' = Tail(line) /\ line # <<>> /\ line' \in Seq(Sessions \cup Prompts) /\ Distinct(line')
      /\ Head(line) \in ToSet(line) /\ Head(line) \in Sessions \cup Prompts
      /\ ToSet(line') = ToSet(line) \ {Head(line)}
  <2>1. /\ line' = Tail(line) /\ line # <<>>
        /\ line \in Seq(Sessions \cup Prompts) /\ Distinct(line)
    BY DEF SInv, TypeOK, WaitersWait, ReadFails, Waits, NeedsLimit, LeaveAfterFailure, Leave, lease, config, resumed, CurrentLive
  <2>2. Head(line) \in Sessions \cup Prompts
    BY <2>1
  <2> QED BY <2>1, <2>2, TailOfLine
<1>2. TypeOK'
  BY <1>1 DEF SInv, TypeOK, Creation, Running, Ended, Stages, ReadFails, Waits, NeedsLimit, LeaveAfterFailure, Leave, lease, config, resumed, CurrentLive
<1>3. WaitersWait'
  BY <1>1 DEF SInv, TypeOK, WaitersWait, Creation, Running, Ended, ReadFails, Waits, NeedsLimit, LeaveAfterFailure, Leave, lease, config, resumed, CurrentLive
<1>4. SlotsAndReservationsApart'
  BY <1>1 DEF SInv, WaitersWait, TypeOK, SlotsAndReservationsApart, Creation, Running, Ended, ReadFails, Waits, NeedsLimit, LeaveAfterFailure, Leave, lease, config, resumed, CurrentLive
<1>5. ClaimsAreHeld'
  BY <1>1 DEF SInv, WaitersWait, TypeOK, SlotsAndReservationsApart, ClaimsAreHeld, Creation, Running, Ended, ReadFails, Waits, NeedsLimit, LeaveAfterFailure, Leave, lease, config, resumed, CurrentLive
<1>6. PromptsAtWork'
  BY <1>1 DEF SInv, WaitersWait, TypeOK, SlotsAndReservationsApart, ClaimsAreHeld, PromptsAtWork, Over, Creation, Running, Ended, ReadFails, Waits, NeedsLimit, LeaveAfterFailure, Leave, lease, config, resumed, CurrentLive
<1>7. ReadingsAreConfigured'
  BY <1>1 DEF SInv, TypeOK, ReadingsAreConfigured, ReadFails, Waits, NeedsLimit, LeaveAfterFailure, Leave, lease, config, resumed, CurrentLive
<1>8. RunningSessionsOwnASlot'
  BY <1>1 DEF SInv, WaitersWait, TypeOK, SlotsAndReservationsApart, ClaimsAreHeld, PromptsAtWork, Over, RunningSessionsOwnASlot, Creation, Running, Ended, ReadFails, Waits, NeedsLimit, LeaveAfterFailure, Leave, lease, config, resumed, CurrentLive
<1> QED BY <1>2, <1>3, <1>4, <1>5, <1>6, <1>7, <1>8 DEF SInv

\* A creation gets in line.
LEMMA AskCreationKeeps ==
  ASSUME SInv, NEW s \in Sessions, AskCreation(s)
  PROVE  SInv'
<1>1. /\ line' \in Seq(Sessions \cup Prompts) /\ Distinct(line')
      /\ ToSet(line') = ToSet(line) \cup {s}
  <2>1. /\ line' = Append(line, s) /\ s \in Sessions \cup Prompts /\ s \notin ToSet(line)
        /\ line \in Seq(Sessions \cup Prompts) /\ Distinct(line)
    BY DEF SInv, TypeOK, WaitersWait, AskCreation, Enter, lease, config, resumed
  <2> QED BY <2>1, AppendToLine
<1>2. TypeOK'
  BY <1>1 DEF SInv, TypeOK, Creation, Running, Ended, Stages, AskCreation, Enter, lease, config, resumed
<1>3. WaitersWait'
  BY <1>1 DEF SInv, TypeOK, WaitersWait, Creation, Running, Ended, AskCreation, Enter, lease, config, resumed
<1>4. SlotsAndReservationsApart'
  BY <1>1 DEF SInv, TypeOK, SlotsAndReservationsApart, Creation, Running, Ended, AskCreation, Enter, lease, config, resumed
<1>5. ClaimsAreHeld'
  BY <1>1 DEF SInv, TypeOK, SlotsAndReservationsApart, ClaimsAreHeld, Creation, Running, Ended, AskCreation, Enter, lease, config, resumed
<1>6. PromptsAtWork'
  BY <1>1 DEF SInv, TypeOK, SlotsAndReservationsApart, ClaimsAreHeld, PromptsAtWork, Over, Creation, Running, Ended, AskCreation, Enter, lease, config, resumed
<1>7. ReadingsAreConfigured'
  BY <1>1 DEF SInv, TypeOK, ReadingsAreConfigured, AskCreation, Enter, lease, config, resumed
<1>8. RunningSessionsOwnASlot'
  BY <1>1 DEF SInv, TypeOK, SlotsAndReservationsApart, ClaimsAreHeld, PromptsAtWork, Over, RunningSessionsOwnASlot, Creation, Running, Ended, AskCreation, Enter, lease, config, resumed
<1> QED BY <1>2, <1>3, <1>4, <1>5, <1>6, <1>7, <1>8 DEF SInv

\* A creation reserves a slot.
LEMMA ReserveKeeps ==
  ASSUME SInv, NEW s \in Sessions, Reserve(s)
  PROVE  SInv'
<1>1. /\ line' = Tail(line) /\ line # <<>> /\ line' \in Seq(Sessions \cup Prompts) /\ Distinct(line')
      /\ Head(line) \in ToSet(line) /\ Head(line) \in Sessions \cup Prompts
      /\ ToSet(line') = ToSet(line) \ {Head(line)}
  <2>1. /\ line' = Tail(line) /\ line # <<>>
        /\ line \in Seq(Sessions \cup Prompts) /\ Distinct(line)
    BY DEF SInv, TypeOK, WaitersWait, Reserve, Leave, lease, config, resumed
  <2>2. Head(line) \in Sessions \cup Prompts
    BY <2>1
  <2> QED BY <2>1, <2>2, TailOfLine
<1>2. TypeOK'
  BY <1>1 DEF SInv, TypeOK, Creation, Running, Ended, Stages, Reserve, Leave, lease, config, resumed
<1>3. WaitersWait'
  BY <1>1 DEF SInv, TypeOK, WaitersWait, Creation, Running, Ended, Reserve, Leave, lease, config, resumed
<1>4. SlotsAndReservationsApart'
  BY <1>1 DEF SInv, WaitersWait, TypeOK, SlotsAndReservationsApart, Creation, Running, Ended, Reserve, Leave, lease, config, resumed
<1>5. ClaimsAreHeld'
  BY <1>1 DEF SInv, WaitersWait, TypeOK, SlotsAndReservationsApart, ClaimsAreHeld, Creation, Running, Ended, Reserve, Leave, lease, config, resumed
<1>6. PromptsAtWork'
  BY <1>1 DEF SInv, WaitersWait, TypeOK, SlotsAndReservationsApart, ClaimsAreHeld, PromptsAtWork, Over, Creation, Running, Ended, Reserve, Leave, lease, config, resumed
<1>7. ReadingsAreConfigured'
  BY <1>1 DEF SInv, TypeOK, ReadingsAreConfigured, Reserve, Leave, lease, config, resumed
<1>8. RunningSessionsOwnASlot'
  BY <1>1 DEF SInv, WaitersWait, TypeOK, SlotsAndReservationsApart, ClaimsAreHeld, PromptsAtWork, Over, RunningSessionsOwnASlot, Creation, Running, Ended, Reserve, Leave, lease, config, resumed
<1> QED BY <1>2, <1>3, <1>4, <1>5, <1>6, <1>7, <1>8 DEF SInv

\* A creation is refused.
LEMMA RefuseCreationKeeps ==
  ASSUME SInv, NEW s \in Sessions, RefuseCreation(s)
  PROVE  SInv'
<1>1. /\ line' = Tail(line) /\ line # <<>> /\ line' \in Seq(Sessions \cup Prompts) /\ Distinct(line')
      /\ Head(line) \in ToSet(line) /\ Head(line) \in Sessions \cup Prompts
      /\ ToSet(line') = ToSet(line) \ {Head(line)}
  <2>1. /\ line' = Tail(line) /\ line # <<>>
        /\ line \in Seq(Sessions \cup Prompts) /\ Distinct(line)
    BY DEF SInv, TypeOK, WaitersWait, RefuseCreation, Leave, lease, config, resumed
  <2>2. Head(line) \in Sessions \cup Prompts
    BY <2>1
  <2> QED BY <2>1, <2>2, TailOfLine
<1>2. TypeOK'
  BY <1>1 DEF SInv, TypeOK, Creation, Running, Ended, Stages, RefuseCreation, Leave, lease, config, resumed
<1>3. WaitersWait'
  BY <1>1 DEF SInv, TypeOK, WaitersWait, Creation, Running, Ended, RefuseCreation, Leave, lease, config, resumed
<1>4. SlotsAndReservationsApart'
  BY <1>1 DEF SInv, WaitersWait, TypeOK, SlotsAndReservationsApart, Creation, Running, Ended, RefuseCreation, Leave, lease, config, resumed
<1>5. ClaimsAreHeld'
  BY <1>1 DEF SInv, WaitersWait, TypeOK, SlotsAndReservationsApart, ClaimsAreHeld, Creation, Running, Ended, RefuseCreation, Leave, lease, config, resumed
<1>6. PromptsAtWork'
  BY <1>1 DEF SInv, WaitersWait, TypeOK, SlotsAndReservationsApart, ClaimsAreHeld, PromptsAtWork, Over, Creation, Running, Ended, RefuseCreation, Leave, lease, config, resumed
<1>7. ReadingsAreConfigured'
  BY <1>1 DEF SInv, TypeOK, ReadingsAreConfigured, RefuseCreation, Leave, lease, config, resumed
<1>8. RunningSessionsOwnASlot'
  BY <1>1 DEF SInv, WaitersWait, TypeOK, SlotsAndReservationsApart, ClaimsAreHeld, PromptsAtWork, Over, RunningSessionsOwnASlot, Creation, Running, Ended, RefuseCreation, Leave, lease, config, resumed
<1> QED BY <1>2, <1>3, <1>4, <1>5, <1>6, <1>7, <1>8 DEF SInv

\* A reservation becomes a slot.
LEMMA RegisterKeeps ==
  ASSUME SInv, NEW s \in Sessions, Register(s)
  PROVE  SInv'
<1>1. line' = line
  BY DEF Register, lock, config, resumed
<1>2. TypeOK'
  BY <1>1 DEF SInv, TypeOK, Creation, Running, Ended, Stages, Register, lock, config, resumed
<1>3. WaitersWait'
  BY <1>1 DEF SInv, TypeOK, WaitersWait, Creation, Running, Ended, Register, lock, config, resumed
<1>4. SlotsAndReservationsApart'
  BY <1>1 DEF SInv, TypeOK, SlotsAndReservationsApart, Creation, Running, Ended, Register, lock, config, resumed
<1>5. ClaimsAreHeld'
  BY <1>1 DEF SInv, TypeOK, SlotsAndReservationsApart, ClaimsAreHeld, Creation, Running, Ended, Register, lock, config, resumed
<1>6. PromptsAtWork'
  BY <1>1 DEF SInv, TypeOK, SlotsAndReservationsApart, ClaimsAreHeld, PromptsAtWork, Over, Creation, Running, Ended, Register, lock, config, resumed
<1>7. ReadingsAreConfigured'
  BY <1>1 DEF SInv, TypeOK, ReadingsAreConfigured, Register, lock, config, resumed
<1>8. RunningSessionsOwnASlot'
  BY <1>1 DEF SInv, TypeOK, SlotsAndReservationsApart, ClaimsAreHeld, PromptsAtWork, Over, RunningSessionsOwnASlot, Creation, Running, Ended, Register, lock, config, resumed
<1> QED BY <1>2, <1>3, <1>4, <1>5, <1>6, <1>7, <1>8 DEF SInv

\* A creation gives its reservation back.
LEMMA CreationFailsKeeps ==
  ASSUME SInv, NEW s \in Sessions, CreationFails(s)
  PROVE  SInv'
<1>1. line' = line
  BY DEF CreationFails, lock, config, resumed
<1>2. TypeOK'
  BY <1>1 DEF SInv, TypeOK, Creation, Running, Ended, Stages, CreationFails, lock, config, resumed
<1>3. WaitersWait'
  BY <1>1 DEF SInv, TypeOK, WaitersWait, Creation, Running, Ended, CreationFails, lock, config, resumed
<1>4. SlotsAndReservationsApart'
  BY <1>1 DEF SInv, TypeOK, SlotsAndReservationsApart, Creation, Running, Ended, CreationFails, lock, config, resumed
<1>5. ClaimsAreHeld'
  BY <1>1 DEF SInv, TypeOK, SlotsAndReservationsApart, ClaimsAreHeld, Creation, Running, Ended, CreationFails, lock, config, resumed
<1>6. PromptsAtWork'
  BY <1>1 DEF SInv, TypeOK, SlotsAndReservationsApart, ClaimsAreHeld, PromptsAtWork, Over, Creation, Running, Ended, CreationFails, lock, config, resumed
<1>7. ReadingsAreConfigured'
  BY <1>1 DEF SInv, TypeOK, ReadingsAreConfigured, CreationFails, lock, config, resumed
<1>8. RunningSessionsOwnASlot'
  BY <1>1 DEF SInv, TypeOK, SlotsAndReservationsApart, ClaimsAreHeld, PromptsAtWork, Over, RunningSessionsOwnASlot, Creation, Running, Ended, CreationFails, lock, config, resumed
<1> QED BY <1>2, <1>3, <1>4, <1>5, <1>6, <1>7, <1>8 DEF SInv

\* A resumed session is activated.
LEMMA ActivateResumedKeeps ==
  ASSUME SInv, NEW s \in Sessions, ActivateResumed(s)
  PROVE  SInv'
<1>1. line' = line
  BY DEF ActivateResumed, CurrentLive, lease, lock, config, resumed
<1>2. TypeOK'
  BY <1>1 DEF SInv, TypeOK, Creation, Running, Ended, Stages, ActivateResumed, CurrentLive, lease, lock, config, resumed
<1>3. WaitersWait'
  BY <1>1 DEF SInv, TypeOK, WaitersWait, Creation, Running, Ended, ActivateResumed, CurrentLive, lease, lock, config, resumed
<1>4. SlotsAndReservationsApart'
  BY <1>1 DEF SInv, TypeOK, SlotsAndReservationsApart, Creation, Running, Ended, ActivateResumed, CurrentLive, lease, lock, config, resumed
<1>5. ClaimsAreHeld'
  BY <1>1 DEF SInv, TypeOK, SlotsAndReservationsApart, ClaimsAreHeld, Creation, Running, Ended, ActivateResumed, CurrentLive, lease, lock, config, resumed
<1>6. PromptsAtWork'
  BY <1>1 DEF SInv, TypeOK, SlotsAndReservationsApart, ClaimsAreHeld, PromptsAtWork, Over, Creation, Running, Ended, ActivateResumed, CurrentLive, lease, lock, config, resumed
<1>7. ReadingsAreConfigured'
  BY <1>1 DEF SInv, TypeOK, ReadingsAreConfigured, ActivateResumed, CurrentLive, lease, lock, config, resumed
<1>8. RunningSessionsOwnASlot'
  BY <1>1 DEF SInv, TypeOK, SlotsAndReservationsApart, ClaimsAreHeld, PromptsAtWork, Over, RunningSessionsOwnASlot, Creation, Running, Ended, ActivateResumed, CurrentLive, lease, lock, config, resumed
<1> QED BY <1>2, <1>3, <1>4, <1>5, <1>6, <1>7, <1>8 DEF SInv

\* A session fails.
LEMMA SessionFailsKeeps ==
  ASSUME SInv, NEW s \in Sessions, SessionFails(s)
  PROVE  SInv'
<1>1. line' = line
  BY DEF SessionFails, StatusChange, Release, CurrentLive, lock, config, resumed
<1>2. TypeOK'
  BY <1>1 DEF SInv, TypeOK, Creation, Running, Ended, Stages, SessionFails, StatusChange, Release, CurrentLive, lock, config, resumed
<1>3. WaitersWait'
  BY <1>1 DEF SInv, TypeOK, WaitersWait, Creation, Running, Ended, SessionFails, StatusChange, Release, CurrentLive, lock, config, resumed
<1>4. SlotsAndReservationsApart'
  BY <1>1 DEF SInv, TypeOK, SlotsAndReservationsApart, Creation, Running, Ended, SessionFails, StatusChange, Release, CurrentLive, lock, config, resumed
<1>5. ClaimsAreHeld'
  BY <1>1 DEF SInv, TypeOK, SlotsAndReservationsApart, ClaimsAreHeld, Creation, Running, Ended, SessionFails, StatusChange, Release, CurrentLive, lock, config, resumed
<1>6. PromptsAtWork'
  BY <1>1 DEF SInv, TypeOK, SlotsAndReservationsApart, ClaimsAreHeld, PromptsAtWork, Over, Creation, Running, Ended, SessionFails, StatusChange, Release, CurrentLive, lock, config, resumed
<1>7. ReadingsAreConfigured'
  BY <1>1 DEF SInv, TypeOK, ReadingsAreConfigured, SessionFails, StatusChange, Release, CurrentLive, lock, config, resumed
<1>8. RunningSessionsOwnASlot'
  BY <1>1 DEF SInv, TypeOK, SlotsAndReservationsApart, ClaimsAreHeld, PromptsAtWork, Over, RunningSessionsOwnASlot, Creation, Running, Ended, SessionFails, StatusChange, Release, CurrentLive, lock, config, resumed
<1> QED BY <1>2, <1>3, <1>4, <1>5, <1>6, <1>7, <1>8 DEF SInv

\* A session finishes.
LEMMA FinishKeeps ==
  ASSUME SInv, NEW s \in Sessions, Finish(s)
  PROVE  SInv'
<1>1. line' = line
  BY DEF Finish, StatusChange, Release, CurrentLive, lock, config, resumed
<1>2. TypeOK'
  BY <1>1 DEF SInv, TypeOK, Creation, Running, Ended, Stages, Finish, StatusChange, Release, CurrentLive, lock, config, resumed
<1>3. WaitersWait'
  BY <1>1 DEF SInv, TypeOK, WaitersWait, Creation, Running, Ended, Finish, StatusChange, Release, CurrentLive, lock, config, resumed
<1>4. SlotsAndReservationsApart'
  BY <1>1 DEF SInv, TypeOK, SlotsAndReservationsApart, Creation, Running, Ended, Finish, StatusChange, Release, CurrentLive, lock, config, resumed
<1>5. ClaimsAreHeld'
  BY <1>1 DEF SInv, TypeOK, SlotsAndReservationsApart, ClaimsAreHeld, Creation, Running, Ended, Finish, StatusChange, Release, CurrentLive, lock, config, resumed
<1>6. PromptsAtWork'
  BY <1>1 DEF SInv, TypeOK, SlotsAndReservationsApart, ClaimsAreHeld, PromptsAtWork, Over, Creation, Running, Ended, Finish, StatusChange, Release, CurrentLive, lock, config, resumed
<1>7. ReadingsAreConfigured'
  BY <1>1 DEF SInv, TypeOK, ReadingsAreConfigured, Finish, StatusChange, Release, CurrentLive, lock, config, resumed
<1>8. RunningSessionsOwnASlot'
  BY <1>1 DEF SInv, TypeOK, SlotsAndReservationsApart, ClaimsAreHeld, PromptsAtWork, Over, RunningSessionsOwnASlot, Creation, Running, Ended, Finish, StatusChange, Release, CurrentLive, lock, config, resumed
<1> QED BY <1>2, <1>3, <1>4, <1>5, <1>6, <1>7, <1>8 DEF SInv

\* A session is marked cancelled.
LEMMA MarkCancelledKeeps ==
  ASSUME SInv, NEW s \in Sessions, MarkCancelled(s)
  PROVE  SInv'
<1>1. line' = line
  BY DEF MarkCancelled, StatusChange, Release, lock, config, resumed
<1>2. TypeOK'
  BY <1>1 DEF SInv, TypeOK, Creation, Running, Ended, Stages, MarkCancelled, StatusChange, Release, lock, config, resumed
<1>3. WaitersWait'
  BY <1>1 DEF SInv, TypeOK, WaitersWait, Creation, Running, Ended, MarkCancelled, StatusChange, Release, lock, config, resumed
<1>4. SlotsAndReservationsApart'
  BY <1>1 DEF SInv, TypeOK, SlotsAndReservationsApart, Creation, Running, Ended, MarkCancelled, StatusChange, Release, lock, config, resumed
<1>5. ClaimsAreHeld'
  BY <1>1 DEF SInv, TypeOK, SlotsAndReservationsApart, ClaimsAreHeld, Creation, Running, Ended, MarkCancelled, StatusChange, Release, lock, config, resumed
<1>6. PromptsAtWork'
  BY <1>1 DEF SInv, TypeOK, SlotsAndReservationsApart, ClaimsAreHeld, PromptsAtWork, Over, Creation, Running, Ended, MarkCancelled, StatusChange, Release, lock, config, resumed
<1>7. ReadingsAreConfigured'
  BY <1>1 DEF SInv, TypeOK, ReadingsAreConfigured, MarkCancelled, StatusChange, Release, lock, config, resumed
<1>8. RunningSessionsOwnASlot'
  BY <1>1 DEF SInv, TypeOK, SlotsAndReservationsApart, ClaimsAreHeld, PromptsAtWork, Over, RunningSessionsOwnASlot, Creation, Running, Ended, MarkCancelled, StatusChange, Release, lock, config, resumed
<1> QED BY <1>2, <1>3, <1>4, <1>5, <1>6, <1>7, <1>8 DEF SInv

\* A session crosses the terminal boundary.
LEMMA TerminateKeeps ==
  ASSUME SInv, NEW s \in Sessions, Terminate(s)
  PROVE  SInv'
<1>1. line' = line
  BY DEF Terminate, CurrentLive, lease, lock, config, resumed
<1>2. TypeOK'
  BY <1>1 DEF SInv, TypeOK, Creation, Running, Ended, Stages, Terminate, CurrentLive, lease, lock, config, resumed
<1>3. WaitersWait'
  BY <1>1 DEF SInv, TypeOK, WaitersWait, Creation, Running, Ended, Terminate, CurrentLive, lease, lock, config, resumed
<1>4. SlotsAndReservationsApart'
  BY <1>1 DEF SInv, TypeOK, SlotsAndReservationsApart, Creation, Running, Ended, Terminate, CurrentLive, lease, lock, config, resumed
<1>5. ClaimsAreHeld'
  BY <1>1 DEF SInv, TypeOK, SlotsAndReservationsApart, ClaimsAreHeld, Creation, Running, Ended, Terminate, CurrentLive, lease, lock, config, resumed
<1>6. PromptsAtWork'
  BY <1>1 DEF SInv, TypeOK, SlotsAndReservationsApart, ClaimsAreHeld, PromptsAtWork, Over, Creation, Running, Ended, Terminate, CurrentLive, lease, lock, config, resumed
<1>7. ReadingsAreConfigured'
  BY <1>1 DEF SInv, TypeOK, ReadingsAreConfigured, Terminate, CurrentLive, lease, lock, config, resumed
<1>8. RunningSessionsOwnASlot'
  BY <1>1 DEF SInv, TypeOK, SlotsAndReservationsApart, ClaimsAreHeld, PromptsAtWork, Over, RunningSessionsOwnASlot, Creation, Running, Ended, Terminate, CurrentLive, lease, lock, config, resumed
<1> QED BY <1>2, <1>3, <1>4, <1>5, <1>6, <1>7, <1>8 DEF SInv

\* A session is torn down.
LEMMA TeardownKeeps ==
  ASSUME SInv, NEW s \in Sessions, Teardown(s)
  PROVE  SInv'
<1>1. line' = line
  BY DEF Teardown, StatusChange, Release, lock, config, resumed
<1>2. TypeOK'
  BY <1>1 DEF SInv, TypeOK, Creation, Running, Ended, Stages, Teardown, StatusChange, Release, lock, config, resumed
<1>3. WaitersWait'
  BY <1>1 DEF SInv, SlotsAndReservationsApart, TypeOK, WaitersWait, Creation, Running, Ended, Teardown, StatusChange, Release, lock, config, resumed
<1>4. SlotsAndReservationsApart'
  BY <1>1 DEF SInv, TypeOK, SlotsAndReservationsApart, Creation, Running, Ended, Teardown, StatusChange, Release, lock, config, resumed
<1>5. ClaimsAreHeld'
  BY <1>1 DEF SInv, TypeOK, SlotsAndReservationsApart, ClaimsAreHeld, Creation, Running, Ended, Teardown, StatusChange, Release, lock, config, resumed
<1>6. PromptsAtWork'
  BY <1>1 DEF SInv, TypeOK, SlotsAndReservationsApart, ClaimsAreHeld, PromptsAtWork, Over, Creation, Running, Ended, Teardown, StatusChange, Release, lock, config, resumed
<1>7. ReadingsAreConfigured'
  BY <1>1 DEF SInv, TypeOK, ReadingsAreConfigured, Teardown, StatusChange, Release, lock, config, resumed
<1>8. RunningSessionsOwnASlot'
  BY <1>1 DEF SInv, TypeOK, SlotsAndReservationsApart, ClaimsAreHeld, PromptsAtWork, Over, RunningSessionsOwnASlot, Creation, Running, Ended, Teardown, StatusChange, Release, lock, config, resumed
<1> QED BY <1>2, <1>3, <1>4, <1>5, <1>6, <1>7, <1>8 DEF SInv

\* The manager closes.
LEMMA CloseKeeps ==
  ASSUME SInv, Close
  PROVE  SInv'
<1>1. line' = line
  BY DEF Close, Release, lock, config, resumed
<1>2. TypeOK'
  BY <1>1 DEF SInv, TypeOK, Creation, Running, Ended, Stages, Close, Release, lock, config, resumed
<1>3. WaitersWait'
  BY <1>1 DEF SInv, TypeOK, WaitersWait, Creation, Running, Ended, Close, Release, lock, config, resumed
<1>4. SlotsAndReservationsApart'
  BY <1>1 DEF SInv, TypeOK, SlotsAndReservationsApart, Creation, Running, Ended, Close, Release, lock, config, resumed
<1>5. ClaimsAreHeld'
  BY <1>1 DEF SInv, TypeOK, SlotsAndReservationsApart, ClaimsAreHeld, Creation, Running, Ended, Close, Release, lock, config, resumed
<1>6. PromptsAtWork'
  BY <1>1 DEF SInv, TypeOK, SlotsAndReservationsApart, ClaimsAreHeld, PromptsAtWork, Over, Creation, Running, Ended, Close, Release, lock, config, resumed
<1>7. ReadingsAreConfigured'
  BY <1>1 DEF SInv, TypeOK, ReadingsAreConfigured, Close, Release, lock, config, resumed
<1>8. RunningSessionsOwnASlot'
  BY <1>1 DEF SInv, TypeOK, SlotsAndReservationsApart, ClaimsAreHeld, PromptsAtWork, Over, RunningSessionsOwnASlot, Creation, Running, Ended, Close, Release, lock, config, resumed
<1> QED BY <1>2, <1>3, <1>4, <1>5, <1>6, <1>7, <1>8 DEF SInv

\* A prompt gets in line.
LEMMA SubmitKeeps ==
  ASSUME SInv, NEW p \in Prompts, NEW s \in Sessions, Submit(p, s)
  PROVE  SInv'
<1>1. /\ line' \in Seq(Sessions \cup Prompts) /\ Distinct(line')
      /\ ToSet(line') = ToSet(line) \cup {p}
  <2>1. /\ line' = Append(line, p) /\ p \in Sessions \cup Prompts /\ p \notin ToSet(line)
        /\ line \in Seq(Sessions \cup Prompts) /\ Distinct(line)
    BY DEF SInv, TypeOK, WaitersWait, Submit, Enter, CurrentLive, lease, config, resumed
  <2> QED BY <2>1, AppendToLine
<1>2. TypeOK'
  BY <1>1 DEF SInv, TypeOK, Creation, Running, Ended, Stages, Submit, Enter, CurrentLive, lease, config, resumed
<1>3. WaitersWait'
  BY <1>1 DEF SInv, TypeOK, WaitersWait, Creation, Running, Ended, Submit, Enter, CurrentLive, lease, config, resumed
<1>4. SlotsAndReservationsApart'
  BY <1>1 DEF SInv, TypeOK, SlotsAndReservationsApart, Creation, Running, Ended, Submit, Enter, CurrentLive, lease, config, resumed
<1>5. ClaimsAreHeld'
  BY <1>1 DEF SInv, TypeOK, SlotsAndReservationsApart, ClaimsAreHeld, Creation, Running, Ended, Submit, Enter, CurrentLive, lease, config, resumed
<1>6. PromptsAtWork'
  BY <1>1 DEF SInv, TypeOK, SlotsAndReservationsApart, ClaimsAreHeld, PromptsAtWork, Over, Creation, Running, Ended, Submit, Enter, CurrentLive, lease, config, resumed
<1>7. ReadingsAreConfigured'
  BY <1>1 DEF SInv, TypeOK, ReadingsAreConfigured, Submit, Enter, CurrentLive, lease, config, resumed
<1>8. RunningSessionsOwnASlot'
  BY <1>1 DEF SInv, TypeOK, SlotsAndReservationsApart, ClaimsAreHeld, PromptsAtWork, Over, RunningSessionsOwnASlot, Creation, Running, Ended, Submit, Enter, CurrentLive, lease, config, resumed
<1> QED BY <1>2, <1>3, <1>4, <1>5, <1>6, <1>7, <1>8 DEF SInv

\* A prompt of a running session.
LEMMA GrantRunningKeeps ==
  ASSUME SInv, NEW p \in Prompts, GrantRunning(p)
  PROVE  SInv'
<1>1. /\ line' = Tail(line) /\ line # <<>> /\ line' \in Seq(Sessions \cup Prompts) /\ Distinct(line')
      /\ Head(line) \in ToSet(line) /\ Head(line) \in Sessions \cup Prompts
      /\ ToSet(line') = ToSet(line) \ {Head(line)}
  <2>1. /\ line' = Tail(line) /\ line # <<>>
        /\ line \in Seq(Sessions \cup Prompts) /\ Distinct(line)
    BY DEF SInv, TypeOK, WaitersWait, GrantRunning, Holds, Granted, Leave, CurrentLive, lease, config, resumed
  <2>2. Head(line) \in Sessions \cup Prompts
    BY <2>1
  <2> QED BY <2>1, <2>2, TailOfLine
<1>2. TypeOK'
  BY <1>1 DEF SInv, TypeOK, Creation, Running, Ended, Stages, GrantRunning, Holds, Granted, Leave, CurrentLive, lease, config, resumed
<1>3. WaitersWait'
  BY <1>1 DEF SInv, TypeOK, WaitersWait, Creation, Running, Ended, GrantRunning, Holds, Granted, Leave, CurrentLive, lease, config, resumed
<1>4. SlotsAndReservationsApart'
  BY <1>1 DEF SInv, WaitersWait, TypeOK, SlotsAndReservationsApart, Creation, Running, Ended, GrantRunning, Holds, Granted, Leave, CurrentLive, lease, config, resumed
<1>5. ClaimsAreHeld'
  BY <1>1 DEF SInv, WaitersWait, TypeOK, SlotsAndReservationsApart, ClaimsAreHeld, Creation, Running, Ended, GrantRunning, Holds, Granted, Leave, CurrentLive, lease, config, resumed
<1>6. PromptsAtWork'
  BY <1>1 DEF SInv, WaitersWait, TypeOK, SlotsAndReservationsApart, ClaimsAreHeld, PromptsAtWork, Over, Creation, Running, Ended, GrantRunning, Holds, Granted, Leave, CurrentLive, lease, config, resumed
<1>7. ReadingsAreConfigured'
  BY <1>1 DEF SInv, TypeOK, ReadingsAreConfigured, GrantRunning, Holds, Granted, Leave, CurrentLive, lease, config, resumed
<1>8. RunningSessionsOwnASlot'
  BY <1>1 DEF SInv, WaitersWait, TypeOK, SlotsAndReservationsApart, ClaimsAreHeld, PromptsAtWork, Over, RunningSessionsOwnASlot, Creation, Running, Ended, GrantRunning, Holds, Granted, Leave, CurrentLive, lease, config, resumed
<1> QED BY <1>2, <1>3, <1>4, <1>5, <1>6, <1>7, <1>8 DEF SInv

\* A prompt shares the slot of its failed session.
LEMMA ShareSlotKeeps ==
  ASSUME SInv, NEW p \in Prompts, ShareSlot(p)
  PROVE  SInv'
<1>1. /\ line' = Tail(line) /\ line # <<>> /\ line' \in Seq(Sessions \cup Prompts) /\ Distinct(line')
      /\ Head(line) \in ToSet(line) /\ Head(line) \in Sessions \cup Prompts
      /\ ToSet(line') = ToSet(line) \ {Head(line)}
  <2>1. /\ line' = Tail(line) /\ line # <<>>
        /\ line \in Seq(Sessions \cup Prompts) /\ Distinct(line)
    BY DEF SInv, TypeOK, WaitersWait, ShareSlot, Holds, Granted, Leave, CurrentLive, config, resumed
  <2>2. Head(line) \in Sessions \cup Prompts
    BY <2>1
  <2> QED BY <2>1, <2>2, TailOfLine
<1>2. TypeOK'
  BY <1>1 DEF SInv, TypeOK, Creation, Running, Ended, Stages, ShareSlot, Holds, Granted, Leave, CurrentLive, config, resumed
<1>3. WaitersWait'
  BY <1>1 DEF SInv, TypeOK, WaitersWait, Creation, Running, Ended, ShareSlot, Holds, Granted, Leave, CurrentLive, config, resumed
<1>4. SlotsAndReservationsApart'
  BY <1>1 DEF SInv, WaitersWait, TypeOK, SlotsAndReservationsApart, Creation, Running, Ended, ShareSlot, Holds, Granted, Leave, CurrentLive, config, resumed
<1>5. ClaimsAreHeld'
  BY <1>1 DEF SInv, WaitersWait, TypeOK, SlotsAndReservationsApart, ClaimsAreHeld, Creation, Running, Ended, ShareSlot, Holds, Granted, Leave, CurrentLive, config, resumed
<1>6. PromptsAtWork'
  BY <1>1 DEF SInv, WaitersWait, TypeOK, SlotsAndReservationsApart, ClaimsAreHeld, PromptsAtWork, Over, Creation, Running, Ended, ShareSlot, Holds, Granted, Leave, CurrentLive, config, resumed
<1>7. ReadingsAreConfigured'
  BY <1>1 DEF SInv, TypeOK, ReadingsAreConfigured, ShareSlot, Holds, Granted, Leave, CurrentLive, config, resumed
<1>8. RunningSessionsOwnASlot'
  BY <1>1 DEF SInv, WaitersWait, TypeOK, SlotsAndReservationsApart, ClaimsAreHeld, PromptsAtWork, Over, RunningSessionsOwnASlot, Creation, Running, Ended, ShareSlot, Holds, Granted, Leave, CurrentLive, config, resumed
<1> QED BY <1>2, <1>3, <1>4, <1>5, <1>6, <1>7, <1>8 DEF SInv

\* A prompt takes a slot for its failed session.
LEMMA TakeSlotKeeps ==
  ASSUME SInv, NEW p \in Prompts, TakeSlot(p)
  PROVE  SInv'
<1>1. /\ line' = Tail(line) /\ line # <<>> /\ line' \in Seq(Sessions \cup Prompts) /\ Distinct(line')
      /\ Head(line) \in ToSet(line) /\ Head(line) \in Sessions \cup Prompts
      /\ ToSet(line') = ToSet(line) \ {Head(line)}
  <2>1. /\ line' = Tail(line) /\ line # <<>>
        /\ line \in Seq(Sessions \cup Prompts) /\ Distinct(line)
    BY DEF SInv, TypeOK, WaitersWait, TakeSlot, Holds, Granted, Leave, CurrentLive, config, resumed
  <2>2. Head(line) \in Sessions \cup Prompts
    BY <2>1
  <2> QED BY <2>1, <2>2, TailOfLine
<1>2. TypeOK'
  BY <1>1 DEF SInv, TypeOK, Creation, Running, Ended, Stages, TakeSlot, Holds, Granted, Leave, CurrentLive, config, resumed
<1>3. WaitersWait'
  BY <1>1 DEF SInv, TypeOK, WaitersWait, Creation, Running, Ended, TakeSlot, Holds, Granted, Leave, CurrentLive, config, resumed
<1>4. SlotsAndReservationsApart'
  BY <1>1 DEF SInv, WaitersWait, TypeOK, SlotsAndReservationsApart, Creation, Running, Ended, TakeSlot, Holds, Granted, Leave, CurrentLive, config, resumed
<1>5. ClaimsAreHeld'
  BY <1>1 DEF SInv, WaitersWait, TypeOK, SlotsAndReservationsApart, ClaimsAreHeld, Creation, Running, Ended, TakeSlot, Holds, Granted, Leave, CurrentLive, config, resumed
<1>6. PromptsAtWork'
  BY <1>1 DEF SInv, WaitersWait, TypeOK, SlotsAndReservationsApart, ClaimsAreHeld, PromptsAtWork, Over, Creation, Running, Ended, TakeSlot, Holds, Granted, Leave, CurrentLive, config, resumed
<1>7. ReadingsAreConfigured'
  BY <1>1 DEF SInv, TypeOK, ReadingsAreConfigured, TakeSlot, Holds, Granted, Leave, CurrentLive, config, resumed
<1>8. RunningSessionsOwnASlot'
  BY <1>1 DEF SInv, WaitersWait, TypeOK, SlotsAndReservationsApart, ClaimsAreHeld, PromptsAtWork, Over, RunningSessionsOwnASlot, Creation, Running, Ended, TakeSlot, Holds, Granted, Leave, CurrentLive, config, resumed
<1> QED BY <1>2, <1>3, <1>4, <1>5, <1>6, <1>7, <1>8 DEF SInv

\* A prompt is refused.
LEMMA RefusePromptKeeps ==
  ASSUME SInv, NEW p \in Prompts, RefusePrompt(p)
  PROVE  SInv'
<1>1. /\ line' = Tail(line) /\ line # <<>> /\ line' \in Seq(Sessions \cup Prompts) /\ Distinct(line')
      /\ Head(line) \in ToSet(line) /\ Head(line) \in Sessions \cup Prompts
      /\ ToSet(line') = ToSet(line) \ {Head(line)}
  <2>1. /\ line' = Tail(line) /\ line # <<>>
        /\ line \in Seq(Sessions \cup Prompts) /\ Distinct(line)
    BY DEF SInv, TypeOK, WaitersWait, RefusePrompt, Holds, Leave, CurrentLive, lease, config, resumed
  <2>2. Head(line) \in Sessions \cup Prompts
    BY <2>1
  <2> QED BY <2>1, <2>2, TailOfLine
<1>2. TypeOK'
  BY <1>1 DEF SInv, TypeOK, Creation, Running, Ended, Stages, RefusePrompt, Holds, Leave, CurrentLive, lease, config, resumed
<1>3. WaitersWait'
  BY <1>1 DEF SInv, TypeOK, WaitersWait, Creation, Running, Ended, RefusePrompt, Holds, Leave, CurrentLive, lease, config, resumed
<1>4. SlotsAndReservationsApart'
  BY <1>1 DEF SInv, WaitersWait, TypeOK, SlotsAndReservationsApart, Creation, Running, Ended, RefusePrompt, Holds, Leave, CurrentLive, lease, config, resumed
<1>5. ClaimsAreHeld'
  BY <1>1 DEF SInv, WaitersWait, TypeOK, SlotsAndReservationsApart, ClaimsAreHeld, Creation, Running, Ended, RefusePrompt, Holds, Leave, CurrentLive, lease, config, resumed
<1>6. PromptsAtWork'
  BY <1>1 DEF SInv, WaitersWait, TypeOK, SlotsAndReservationsApart, ClaimsAreHeld, PromptsAtWork, Over, Creation, Running, Ended, RefusePrompt, Holds, Leave, CurrentLive, lease, config, resumed
<1>7. ReadingsAreConfigured'
  BY <1>1 DEF SInv, TypeOK, ReadingsAreConfigured, RefusePrompt, Holds, Leave, CurrentLive, lease, config, resumed
<1>8. RunningSessionsOwnASlot'
  BY <1>1 DEF SInv, WaitersWait, TypeOK, SlotsAndReservationsApart, ClaimsAreHeld, PromptsAtWork, Over, RunningSessionsOwnASlot, Creation, Running, Ended, RefusePrompt, Holds, Leave, CurrentLive, lease, config, resumed
<1> QED BY <1>2, <1>3, <1>4, <1>5, <1>6, <1>7, <1>8 DEF SInv

\* A prompt is queued.
LEMMA AcceptKeeps ==
  ASSUME SInv, NEW p \in Prompts, Accept(p)
  PROVE  SInv'
<1>1. line' = line
  BY DEF Accept, Commit, Over, lock, config, resumed
<1>2. TypeOK'
  BY <1>1 DEF SInv, ClaimsAreHeld, TypeOK, Creation, Running, Ended, Stages, Accept, Commit, Over, lock, config, resumed
<1>3. WaitersWait'
  BY <1>1 DEF SInv, TypeOK, WaitersWait, Creation, Running, Ended, Accept, Commit, Over, lock, config, resumed
<1>4. SlotsAndReservationsApart'
  BY <1>1 DEF SInv, TypeOK, SlotsAndReservationsApart, Creation, Running, Ended, Accept, Commit, Over, lock, config, resumed
<1>5. ClaimsAreHeld'
  BY <1>1 DEF SInv, TypeOK, SlotsAndReservationsApart, ClaimsAreHeld, Creation, Running, Ended, Accept, Commit, Over, lock, config, resumed
<1>6. PromptsAtWork'
  BY <1>1 DEF SInv, TypeOK, SlotsAndReservationsApart, ClaimsAreHeld, PromptsAtWork, Over, Creation, Running, Ended, Accept, Commit, lock, config, resumed
<1>7. ReadingsAreConfigured'
  BY <1>1 DEF SInv, TypeOK, ReadingsAreConfigured, Accept, Commit, Over, lock, config, resumed
<1>8. RunningSessionsOwnASlot'
  BY <1>1 DEF SInv, TypeOK, SlotsAndReservationsApart, ClaimsAreHeld, PromptsAtWork, Over, RunningSessionsOwnASlot, Creation, Running, Ended, Accept, Commit, lock, config, resumed
<1> QED BY <1>2, <1>3, <1>4, <1>5, <1>6, <1>7, <1>8 DEF SInv

\* A granted prompt is rejected.
LEMMA RejectGrantedKeeps ==
  ASSUME SInv, NEW p \in Prompts, RejectGranted(p)
  PROVE  SInv'
<1>1. line' = line
  BY DEF RejectGranted, Rollback, Release, lock, config, resumed
<1>2. TypeOK'
  BY <1>1 DEF SInv, TypeOK, Creation, Running, Ended, Stages, RejectGranted, Rollback, Release, lock, config, resumed
<1>3. WaitersWait'
  BY <1>1 DEF SInv, TypeOK, WaitersWait, Creation, Running, Ended, RejectGranted, Rollback, Release, lock, config, resumed
<1>4. SlotsAndReservationsApart'
  BY <1>1 DEF SInv, TypeOK, SlotsAndReservationsApart, Creation, Running, Ended, RejectGranted, Rollback, Release, lock, config, resumed
<1>5. ClaimsAreHeld'
  BY <1>1 DEF SInv, TypeOK, SlotsAndReservationsApart, ClaimsAreHeld, Creation, Running, Ended, RejectGranted, Rollback, Release, lock, config, resumed
<1>6. PromptsAtWork'
  BY <1>1 DEF SInv, TypeOK, SlotsAndReservationsApart, ClaimsAreHeld, PromptsAtWork, Over, Creation, Running, Ended, RejectGranted, Rollback, Release, lock, config, resumed
<1>7. ReadingsAreConfigured'
  BY <1>1 DEF SInv, TypeOK, ReadingsAreConfigured, RejectGranted, Rollback, Release, lock, config, resumed
<1>8. RunningSessionsOwnASlot'
  BY <1>1 DEF SInv, TypeOK, SlotsAndReservationsApart, ClaimsAreHeld, PromptsAtWork, Over, RunningSessionsOwnASlot, Creation, Running, Ended, RejectGranted, Rollback, Release, lock, config, resumed
<1> QED BY <1>2, <1>3, <1>4, <1>5, <1>6, <1>7, <1>8 DEF SInv

\* A prompt starts.
LEMMA StartPromptKeeps ==
  ASSUME SInv, NEW p \in Prompts, StartPrompt(p)
  PROVE  SInv'
<1>1. line' = line
  BY DEF StartPrompt, Idle, Over, lease, lock, config, resumed
<1>2. TypeOK'
  BY <1>1 DEF SInv, TypeOK, Creation, Running, Ended, Stages, StartPrompt, Idle, Over, lease, lock, config, resumed
<1>3. WaitersWait'
  BY <1>1 DEF SInv, TypeOK, WaitersWait, Creation, Running, Ended, StartPrompt, Idle, Over, lease, lock, config, resumed
<1>4. SlotsAndReservationsApart'
  BY <1>1 DEF SInv, TypeOK, SlotsAndReservationsApart, Creation, Running, Ended, StartPrompt, Idle, Over, lease, lock, config, resumed
<1>5. ClaimsAreHeld'
  BY <1>1 DEF SInv, TypeOK, SlotsAndReservationsApart, ClaimsAreHeld, Creation, Running, Ended, StartPrompt, Idle, Over, lease, lock, config, resumed
<1>6. PromptsAtWork'
  BY <1>1 DEF SInv, TypeOK, SlotsAndReservationsApart, ClaimsAreHeld, PromptsAtWork, Over, Creation, Running, Ended, StartPrompt, Idle, lease, lock, config, resumed
<1>7. ReadingsAreConfigured'
  BY <1>1 DEF SInv, TypeOK, ReadingsAreConfigured, StartPrompt, Idle, Over, lease, lock, config, resumed
<1>8. RunningSessionsOwnASlot'
  BY <1>1 DEF SInv, TypeOK, SlotsAndReservationsApart, ClaimsAreHeld, PromptsAtWork, Over, RunningSessionsOwnASlot, Creation, Running, Ended, StartPrompt, Idle, lease, lock, config, resumed
<1> QED BY <1>2, <1>3, <1>4, <1>5, <1>6, <1>7, <1>8 DEF SInv

\* A queued prompt of a failed session asks again.
LEMMA RecheckKeeps ==
  ASSUME SInv, NEW p \in Prompts, Recheck(p)
  PROVE  SInv'
<1>1. /\ line' \in Seq(Sessions \cup Prompts) /\ Distinct(line')
      /\ ToSet(line') = ToSet(line) \cup {p}
  <2>1. /\ line' = Append(line, p) /\ p \in Sessions \cup Prompts /\ p \notin ToSet(line)
        /\ line \in Seq(Sessions \cup Prompts) /\ Distinct(line)
    BY DEF SInv, TypeOK, WaitersWait, Recheck, Idle, Over, Enter, lease, config, resumed
  <2> QED BY <2>1, AppendToLine
<1>2. TypeOK'
  BY <1>1 DEF SInv, TypeOK, Creation, Running, Ended, Stages, Recheck, Idle, Over, Enter, lease, config, resumed
<1>3. WaitersWait'
  BY <1>1 DEF SInv, TypeOK, WaitersWait, Creation, Running, Ended, Recheck, Idle, Over, Enter, lease, config, resumed
<1>4. SlotsAndReservationsApart'
  BY <1>1 DEF SInv, WaitersWait, TypeOK, SlotsAndReservationsApart, Creation, Running, Ended, Recheck, Idle, Over, Enter, lease, config, resumed
<1>5. ClaimsAreHeld'
  BY <1>1 DEF SInv, WaitersWait, TypeOK, SlotsAndReservationsApart, ClaimsAreHeld, Creation, Running, Ended, Recheck, Idle, Over, Enter, lease, config, resumed
<1>6. PromptsAtWork'
  BY <1>1 DEF SInv, WaitersWait, TypeOK, SlotsAndReservationsApart, ClaimsAreHeld, PromptsAtWork, Over, Creation, Running, Ended, Recheck, Idle, Enter, lease, config, resumed
<1>7. ReadingsAreConfigured'
  BY <1>1 DEF SInv, TypeOK, ReadingsAreConfigured, Recheck, Idle, Over, Enter, lease, config, resumed
<1>8. RunningSessionsOwnASlot'
  BY <1>1 DEF SInv, WaitersWait, TypeOK, SlotsAndReservationsApart, ClaimsAreHeld, PromptsAtWork, Over, RunningSessionsOwnASlot, Creation, Running, Ended, Recheck, Idle, Enter, lease, config, resumed
<1> QED BY <1>2, <1>3, <1>4, <1>5, <1>6, <1>7, <1>8 DEF SInv

\* A prompt brings its session back.
LEMMA ReactivateKeeps ==
  ASSUME SInv, NEW p \in Prompts, Reactivate(p)
  PROVE  SInv'
<1>1. line' = line
  BY DEF Reactivate, Commit, Over, lock, config, resumed
<1>2. TypeOK'
  BY <1>1 DEF SInv, ClaimsAreHeld, TypeOK, Creation, Running, Ended, Stages, Reactivate, Commit, Over, lock, config, resumed
<1>3. WaitersWait'
  BY <1>1 DEF SInv, SlotsAndReservationsApart, PromptsAtWork, TypeOK, WaitersWait, Creation, Running, Ended, Reactivate, Commit, Over, lock, config, resumed
<1>4. SlotsAndReservationsApart'
  BY <1>1 DEF SInv, SlotsAndReservationsApart, PromptsAtWork, TypeOK, Creation, Running, Ended, Reactivate, Commit, Over, lock, config, resumed
<1>5. ClaimsAreHeld'
  BY <1>1 DEF SInv, TypeOK, SlotsAndReservationsApart, ClaimsAreHeld, Creation, Running, Ended, Reactivate, Commit, Over, lock, config, resumed
<1>6. PromptsAtWork'
  BY <1>1 DEF SInv, TypeOK, SlotsAndReservationsApart, ClaimsAreHeld, PromptsAtWork, Over, Creation, Running, Ended, Reactivate, Commit, lock, config, resumed
<1>7. ReadingsAreConfigured'
  BY <1>1 DEF SInv, TypeOK, ReadingsAreConfigured, Reactivate, Commit, Over, lock, config, resumed
<1>8. RunningSessionsOwnASlot'
  BY <1>1 DEF SInv, TypeOK, SlotsAndReservationsApart, ClaimsAreHeld, PromptsAtWork, Over, RunningSessionsOwnASlot, Creation, Running, Ended, Reactivate, Commit, lock, config, resumed
<1> QED BY <1>2, <1>3, <1>4, <1>5, <1>6, <1>7, <1>8 DEF SInv

\* A prompt of a session that is over gives up.
LEMMA AbandonRegrantedKeeps ==
  ASSUME SInv, NEW p \in Prompts, AbandonRegranted(p)
  PROVE  SInv'
<1>1. line' = line
  BY DEF AbandonRegranted, Rollback, Release, Over, lock, config, resumed
<1>2. TypeOK'
  BY <1>1 DEF SInv, TypeOK, Creation, Running, Ended, Stages, AbandonRegranted, Rollback, Release, Over, lock, config, resumed
<1>3. WaitersWait'
  BY <1>1 DEF SInv, TypeOK, WaitersWait, Creation, Running, Ended, AbandonRegranted, Rollback, Release, Over, lock, config, resumed
<1>4. SlotsAndReservationsApart'
  BY <1>1 DEF SInv, TypeOK, SlotsAndReservationsApart, Creation, Running, Ended, AbandonRegranted, Rollback, Release, Over, lock, config, resumed
<1>5. ClaimsAreHeld'
  BY <1>1 DEF SInv, TypeOK, SlotsAndReservationsApart, ClaimsAreHeld, Creation, Running, Ended, AbandonRegranted, Rollback, Release, Over, lock, config, resumed
<1>6. PromptsAtWork'
  BY <1>1 DEF SInv, TypeOK, SlotsAndReservationsApart, ClaimsAreHeld, PromptsAtWork, Over, Creation, Running, Ended, AbandonRegranted, Rollback, Release, lock, config, resumed
<1>7. ReadingsAreConfigured'
  BY <1>1 DEF SInv, TypeOK, ReadingsAreConfigured, AbandonRegranted, Rollback, Release, Over, lock, config, resumed
<1>8. RunningSessionsOwnASlot'
  BY <1>1 DEF SInv, TypeOK, SlotsAndReservationsApart, ClaimsAreHeld, PromptsAtWork, Over, RunningSessionsOwnASlot, Creation, Running, Ended, AbandonRegranted, Rollback, Release, lock, config, resumed
<1> QED BY <1>2, <1>3, <1>4, <1>5, <1>6, <1>7, <1>8 DEF SInv

\* A prompt ends.
LEMMA DropKeeps ==
  ASSUME SInv, NEW p \in Prompts, Drop(p)
  PROVE  SInv'
<1>1. line' = line
  BY DEF Drop, lease, lock, config, resumed
<1>2. TypeOK'
  BY <1>1 DEF SInv, TypeOK, Creation, Running, Ended, Stages, Drop, lease, lock, config, resumed
<1>3. WaitersWait'
  BY <1>1 DEF SInv, TypeOK, WaitersWait, Creation, Running, Ended, Drop, lease, lock, config, resumed
<1>4. SlotsAndReservationsApart'
  BY <1>1 DEF SInv, TypeOK, SlotsAndReservationsApart, Creation, Running, Ended, Drop, lease, lock, config, resumed
<1>5. ClaimsAreHeld'
  BY <1>1 DEF SInv, TypeOK, SlotsAndReservationsApart, ClaimsAreHeld, Creation, Running, Ended, Drop, lease, lock, config, resumed
<1>6. PromptsAtWork'
  BY <1>1 DEF SInv, TypeOK, SlotsAndReservationsApart, ClaimsAreHeld, PromptsAtWork, Over, Creation, Running, Ended, Drop, lease, lock, config, resumed
<1>7. ReadingsAreConfigured'
  BY <1>1 DEF SInv, TypeOK, ReadingsAreConfigured, Drop, lease, lock, config, resumed
<1>8. RunningSessionsOwnASlot'
  BY <1>1 DEF SInv, TypeOK, SlotsAndReservationsApart, ClaimsAreHeld, PromptsAtWork, Over, RunningSessionsOwnASlot, Creation, Running, Ended, Drop, lease, lock, config, resumed
<1> QED BY <1>2, <1>3, <1>4, <1>5, <1>6, <1>7, <1>8 DEF SInv

\* The limit changes.
LEMMA ChangeLimitKeeps ==
  ASSUME SInv, NEW n \in Limits, ChangeLimit(n)
  PROVE  SInv'
<1>1. line' = line
  BY DEF ChangeLimit, lease, lock, resumed
<1>2. TypeOK'
  BY <1>1 DEF SInv, TypeOK, Creation, Running, Ended, Stages, ChangeLimit, lease, lock, resumed
<1>3. WaitersWait'
  BY <1>1 DEF SInv, TypeOK, WaitersWait, Creation, Running, Ended, ChangeLimit, lease, lock, resumed
<1>4. SlotsAndReservationsApart'
  BY <1>1 DEF SInv, TypeOK, SlotsAndReservationsApart, Creation, Running, Ended, ChangeLimit, lease, lock, resumed
<1>5. ClaimsAreHeld'
  BY <1>1 DEF SInv, TypeOK, SlotsAndReservationsApart, ClaimsAreHeld, Creation, Running, Ended, ChangeLimit, lease, lock, resumed
<1>6. PromptsAtWork'
  BY <1>1 DEF SInv, TypeOK, SlotsAndReservationsApart, ClaimsAreHeld, PromptsAtWork, Over, Creation, Running, Ended, ChangeLimit, lease, lock, resumed
<1>7. ReadingsAreConfigured'
  BY <1>1 DEF SInv, TypeOK, ReadingsAreConfigured, ChangeLimit, lease, lock, resumed
<1>8. RunningSessionsOwnASlot'
  BY <1>1 DEF SInv, TypeOK, SlotsAndReservationsApart, ClaimsAreHeld, PromptsAtWork, Over, RunningSessionsOwnASlot, Creation, Running, Ended, ChangeLimit, lease, lock, resumed
<1> QED BY <1>2, <1>3, <1>4, <1>5, <1>6, <1>7, <1>8 DEF SInv


(***************************************************************************)
(* Counting. The three kinds of slots are disjoint, so that the used       *)
(* capacity is the size of the set of sessions that take one.              *)
(***************************************************************************)
Taken == owners \cup reserved \cup Unowned

UsedCountsTaken == IsFiniteSet(Taken) /\ Used = Cardinality(Taken) /\ Used \in Nat

\* The used capacity is the number of sessions that take a slot.
LEMMA UsedIsTaken == SInv => UsedCountsTaken
<1> SUFFICES ASSUME SInv PROVE UsedCountsTaken
  OBVIOUS
<1>1. owners \subseteq Sessions /\ reserved \subseteq Sessions /\ Unowned \subseteq Sessions
  BY DEF SInv, TypeOK, Unowned
<1>2. IsFiniteSet(owners) /\ IsFiniteSet(reserved) /\ IsFiniteSet(Unowned)
  BY <1>1, FS_Subset
<1>3. owners \cap reserved = {}
  BY DEF SInv, TypeOK, SlotsAndReservationsApart, Creation
<1>4. (owners \cup reserved) \cap Unowned = {}
  BY DEF SInv, TypeOK, SlotsAndReservationsApart, Unowned, Creation, Running
<1>5. /\ IsFiniteSet(owners \cup reserved)
      /\ Cardinality(owners \cup reserved) = Cardinality(owners) + Cardinality(reserved)
  <2>1. Cardinality({}) = 0
    BY FS_EmptySet
  <2>2. Cardinality(owners) \in Nat /\ Cardinality(reserved) \in Nat
    BY <1>2, FS_CardinalityType
  <2>3. /\ IsFiniteSet(owners \cup reserved)
        /\ Cardinality(owners \cup reserved) =
             Cardinality(owners) + Cardinality(reserved) - Cardinality(owners \cap reserved)
    BY <1>2, FS_Union
  <2>4. Cardinality(owners \cap reserved) = 0
    BY <1>3, <2>1
  <2> QED BY <2>2, <2>3, <2>4
<1>6. /\ IsFiniteSet(Taken)
      /\ Cardinality(Taken) = Cardinality(owners \cup reserved) + Cardinality(Unowned)
  <2>1. Cardinality({}) = 0
    BY FS_EmptySet
  <2>2. Cardinality(owners \cup reserved) \in Nat /\ Cardinality(Unowned) \in Nat
    BY <1>2, <1>5, FS_CardinalityType
  <2>3. Cardinality((owners \cup reserved) \cap Unowned) = 0
    BY <1>4, <2>1
  <2>4. /\ IsFiniteSet((owners \cup reserved) \cup Unowned)
        /\ Cardinality((owners \cup reserved) \cup Unowned) =
             Cardinality(owners \cup reserved) + Cardinality(Unowned)
               - Cardinality((owners \cup reserved) \cap Unowned)
    BY <1>2, <1>5, FS_Union
  <2> QED BY <2>2, <2>3, <2>4 DEF Taken
<1> QED BY <1>5, <1>6, FS_CardinalityType DEF Used, UsedCountsTaken

\* The running sessions that the factory brought back without a slot are in
\* excess, the others count against the limit.
Excess  == Unowned \cap revived
Counted == owners \cup reserved \cup (Unowned \ revived)

UsedSplits ==
  /\ IsFiniteSet(Counted) /\ Cardinality(Counted) \in Nat /\ Cardinality(Excess) \in Nat
  /\ Used = Cardinality(Counted) + Cardinality(Excess)

\* The used capacity is what counts and what is in excess.
LEMMA UsedIsSplit == SInv => UsedSplits
<1> SUFFICES ASSUME SInv PROVE UsedSplits
  OBVIOUS
<1>1. IsFiniteSet(Taken) /\ Used = Cardinality(Taken)
  BY UsedIsTaken DEF UsedCountsTaken
<1>2. /\ Taken = Counted \cup Excess /\ Counted \subseteq Taken /\ Excess \subseteq Taken
      /\ Counted \cap Excess = {}
  BY DEF SInv, TypeOK, SlotsAndReservationsApart, Taken, Counted, Excess, Unowned, Creation, Running
<1>3. IsFiniteSet(Counted) /\ IsFiniteSet(Excess)
  BY <1>1, <1>2, FS_Subset
<1>4. Cardinality(Counted) \in Nat /\ Cardinality(Excess) \in Nat
  BY <1>3, FS_CardinalityType
<1>5. Cardinality(Counted \cap Excess) = 0
  BY <1>2, FS_EmptySet
<1>6. Cardinality(Taken) = Cardinality(Counted) + Cardinality(Excess) - Cardinality(Counted \cap Excess)
  BY <1>2, <1>3, FS_Union
<1> QED BY <1>1, <1>3, <1>4, <1>5, <1>6 DEF UsedSplits

\* The limit holds for what counts.
Within == CapacityNeverExceeded <=> Cardinality(Counted) <= highest

LEMMA WithinTheLimit == SInv => Within
<1> SUFFICES ASSUME SInv PROVE Within
  OBVIOUS
<1>1. /\ Cardinality(Counted) \in Nat /\ Cardinality(Excess) \in Nat
      /\ Used = Cardinality(Counted) + Cardinality(Excess)
  BY UsedIsSplit DEF UsedSplits
<1>2. highest \in Nat
  BY DEF SInv, TypeOK
<1> QED BY <1>1, <1>2 DEF Within, CapacityNeverExceeded, Excess

\* A step that takes no slot keeps within the limit.
LEMMA NoSlotTaken ==
  ASSUME IInv, SInv', Counted' \subseteq Counted, highest' >= highest
  PROVE  CapacityNeverExceeded'
<1>1. IsFiniteSet(Counted) /\ Cardinality(Counted) \in Nat /\ Cardinality(Counted) <= highest
  BY UsedIsSplit, WithinTheLimit DEF IInv, UsedSplits, Within
<1>2. Cardinality(Counted') \in Nat /\ Cardinality(Counted') <= Cardinality(Counted)
  BY <1>1, FS_Subset, FS_CardinalityType
<1>3. highest \in Nat /\ highest' \in Nat
  BY DEF IInv, SInv, TypeOK
<1>4. CapacityNeverExceeded' <=> Cardinality(Counted') <= highest'
  <2>1. Within'
    BY WithinTheLimit, PTL
  <2> QED BY <2>1 DEF Within
<1> QED BY <1>1, <1>2, <1>3, <1>4

\* A step that takes one slot below a limit that was configured.
LEMMA OneSlotTaken ==
  ASSUME IInv, SInv', NEW s, Counted' \subseteq Counted \cup {s}, highest' = highest,
         reading \in Nat, ~Full(reading)
  PROVE  CapacityNeverExceeded'
<1>1. /\ IsFiniteSet(Counted) /\ Cardinality(Counted) \in Nat /\ Cardinality(Excess) \in Nat
      /\ Used = Cardinality(Counted) + Cardinality(Excess)
  BY UsedIsSplit DEF IInv, UsedSplits
<1>2. /\ IsFiniteSet(Counted \cup {s})
      /\ Cardinality(Counted \cup {s}) =
           IF s \in Counted THEN Cardinality(Counted) ELSE Cardinality(Counted) + 1
  BY <1>1, FS_AddElement
<1>3. Cardinality(Counted') \in Nat /\ Cardinality(Counted') <= Cardinality(Counted \cup {s})
  BY <1>2, FS_Subset, FS_CardinalityType
<1>4. reading <= highest /\ highest \in Nat
  BY AdmissionAssumption DEF IInv, SInv, TypeOK, ReadingsAreConfigured
<1>5. Used < reading
  BY <1>1 DEF Full
<1>6. CapacityNeverExceeded' <=> Cardinality(Counted') <= highest'
  <2>1. Within'
    BY WithinTheLimit, PTL
  <2> QED BY <2>1 DEF Within
<1> QED BY <1>1, <1>2, <1>3, <1>4, <1>5, <1>6

(***************************************************************************)
(* The invariant.                                                          *)
(***************************************************************************)
\* It holds when the manager is made.
LEMMA InitIInv == Init => IInv
<1> SUFFICES ASSUME Init PROVE IInv
  OBVIOUS
<1>1. TypeOK
  <2>1. (CHOOSE s \in Sessions : TRUE) \in Sessions
    OBVIOUS
  <2>2. of \in [Prompts -> Sessions] /\ limit \in Nat
    BY <2>1 DEF Init
  <2>3. /\ status \in [Sessions -> Creation] /\ pc \in [Prompts -> Stages]
        /\ line \in Seq(Sessions \cup Prompts)
    BY DEF Init, Creation, Stages
  <2>4. status \in [Sessions -> Creation \cup Running \cup Ended \cup {"error"}]
    BY <2>3
  <2> QED BY <2>2, <2>3, <2>4 DEF Init, TypeOK
<1>2. ToSet(line) = {} /\ Distinct(line)
  BY DEF Init, ToSet, Distinct
<1>3. SInv
  BY <1>1, <1>2 DEF Init, SInv, TypeOK, WaitersWait, SlotsAndReservationsApart, ClaimsAreHeld,
    PromptsAtWork, ReadingsAreConfigured, RunningSessionsOwnASlot, Stages
<1>4. Taken = {} /\ Unowned \cap revived = {} /\ highest \in Nat
  BY <1>1 DEF Init, Taken, Unowned, TypeOK
<1>5. Used = 0
  BY <1>3, <1>4, UsedIsTaken, FS_EmptySet DEF UsedCountsTaken
<1>6. Cardinality(Unowned \cap revived) = 0
  BY <1>4, FS_EmptySet
<1> QED BY <1>3, <1>4, <1>5, <1>6 DEF IInv, CapacityNeverExceeded

\* What the limit is about: it holds after every step of the manager.
LEMMA NextIInv == IInv /\ [Next]_vars => IInv'
<1> SUFFICES ASSUME IInv, [Next]_vars PROVE IInv'
  OBVIOUS
<1>0. SInv
  BY DEF IInv
<1>1. CASE ReadLimit
  <2>1. SInv'
    BY <1>0, <1>1, ReadLimitKeeps
  <2>2. Counted' \subseteq Counted /\ highest' >= highest
    BY <1>0, <1>1 DEF SInv, TypeOK, Counted, Unowned, ReadLimit, Waits, NeedsLimit, lease, config, resumed
  <2>3. CapacityNeverExceeded'
    BY <2>1, <2>2, NoSlotTaken
  <2> QED BY <2>1, <2>3 DEF IInv
<1>2. CASE ReadFails
  <2>1. SInv'
    BY <1>0, <1>2, ReadFailsKeeps
  <2>2. Counted' \subseteq Counted /\ highest' >= highest
    BY <1>0, <1>2 DEF SInv, TypeOK, WaitersWait, SlotsAndReservationsApart, Creation, Running, Counted, Unowned, ReadFails, Waits, NeedsLimit, LeaveAfterFailure, Leave, lease, config, resumed, CurrentLive
  <2>3. CapacityNeverExceeded'
    BY <2>1, <2>2, NoSlotTaken
  <2> QED BY <2>1, <2>3 DEF IInv
<1>3. ASSUME NEW s \in Sessions, AskCreation(s) PROVE IInv'
  <2>1. SInv'
    BY <1>0, <1>3, AskCreationKeeps
  <2>2. Counted' \subseteq Counted /\ highest' >= highest
    BY <1>0, <1>3 DEF SInv, TypeOK, SlotsAndReservationsApart, Creation, Running, Counted, Unowned, AskCreation, Enter, lease, config, resumed
  <2>3. CapacityNeverExceeded'
    BY <2>1, <2>2, NoSlotTaken
  <2> QED BY <2>1, <2>3 DEF IInv
<1>4. ASSUME NEW s \in Sessions, Reserve(s) PROVE IInv'
  <2>1. SInv'
    BY <1>0, <1>4, ReserveKeeps
  <2>2. Counted' \subseteq Counted \cup {s} /\ highest' = highest
    BY <1>0, <1>4 DEF SInv, TypeOK, Running, Counted, Unowned, Reserve, Leave, lease, config, resumed
  <2>3. reading \in Nat /\ ~Full(reading)
    BY <1>0, <1>4 DEF SInv, TypeOK, Reserve
  <2>4. CapacityNeverExceeded'
    BY <2>1, <2>2, <2>3, OneSlotTaken
  <2> QED BY <2>1, <2>4 DEF IInv
<1>5. ASSUME NEW s \in Sessions, RefuseCreation(s) PROVE IInv'
  <2>1. SInv'
    BY <1>0, <1>5, RefuseCreationKeeps
  <2>2. Counted' \subseteq Counted /\ highest' >= highest
    BY <1>0, <1>5 DEF SInv, TypeOK, Running, Creation, Counted, Unowned, RefuseCreation, Leave, lease, config, resumed
  <2>3. CapacityNeverExceeded'
    BY <2>1, <2>2, NoSlotTaken
  <2> QED BY <2>1, <2>3 DEF IInv
<1>6. ASSUME NEW s \in Sessions, Register(s) PROVE IInv'
  <2>1. SInv'
    BY <1>0, <1>6, RegisterKeeps
  <2>2. Counted' \subseteq Counted /\ highest' >= highest
    BY <1>0, <1>6 DEF SInv, TypeOK, SlotsAndReservationsApart, Running, Creation, Counted, Unowned, Register, lock, config, resumed
  <2>3. CapacityNeverExceeded'
    BY <2>1, <2>2, NoSlotTaken
  <2> QED BY <2>1, <2>3 DEF IInv
<1>7. ASSUME NEW s \in Sessions, CreationFails(s) PROVE IInv'
  <2>1. SInv'
    BY <1>0, <1>7, CreationFailsKeeps
  <2>2. Counted' \subseteq Counted /\ highest' >= highest
    BY <1>0, <1>7 DEF SInv, TypeOK, SlotsAndReservationsApart, Creation, Running, Counted, Unowned, CreationFails, lock, config, resumed
  <2>3. CapacityNeverExceeded'
    BY <2>1, <2>2, NoSlotTaken
  <2> QED BY <2>1, <2>3 DEF IInv
<1>8. ASSUME NEW s \in Sessions, ActivateResumed(s) PROVE IInv'
  <2>1. SInv'
    BY <1>0, <1>8, ActivateResumedKeeps
  <2>2. Counted' \subseteq Counted /\ highest' >= highest
    BY <1>0, <1>8 DEF SInv, TypeOK, RunningSessionsOwnASlot, Running, CurrentLive, Counted, Unowned, ActivateResumed, lease, lock, config, resumed
  <2>3. CapacityNeverExceeded'
    BY <2>1, <2>2, NoSlotTaken
  <2> QED BY <2>1, <2>3 DEF IInv
<1>9. ASSUME NEW s \in Sessions, SessionFails(s) PROVE IInv'
  <2>1. SInv'
    BY <1>0, <1>9, SessionFailsKeeps
  <2>2. Counted' \subseteq Counted /\ highest' >= highest
    BY <1>0, <1>9 DEF SInv, TypeOK, Running, Ended, Counted, Unowned, SessionFails, StatusChange, Release, CurrentLive, lock, config, resumed
  <2>3. CapacityNeverExceeded'
    BY <2>1, <2>2, NoSlotTaken
  <2> QED BY <2>1, <2>3 DEF IInv
<1>10. ASSUME NEW s \in Sessions, Finish(s) PROVE IInv'
  <2>1. SInv'
    BY <1>0, <1>10, FinishKeeps
  <2>2. Counted' \subseteq Counted /\ highest' >= highest
    BY <1>0, <1>10 DEF SInv, TypeOK, Running, Ended, Counted, Unowned, Finish, StatusChange, Release, CurrentLive, lock, config, resumed
  <2>3. CapacityNeverExceeded'
    BY <2>1, <2>2, NoSlotTaken
  <2> QED BY <2>1, <2>3 DEF IInv
<1>11. ASSUME NEW s \in Sessions, MarkCancelled(s) PROVE IInv'
  <2>1. SInv'
    BY <1>0, <1>11, MarkCancelledKeeps
  <2>2. Counted' \subseteq Counted /\ highest' >= highest
    BY <1>0, <1>11 DEF SInv, TypeOK, Running, Ended, Counted, Unowned, MarkCancelled, StatusChange, Release, lock, config, resumed
  <2>3. CapacityNeverExceeded'
    BY <2>1, <2>2, NoSlotTaken
  <2> QED BY <2>1, <2>3 DEF IInv
<1>12. ASSUME NEW s \in Sessions, Terminate(s) PROVE IInv'
  <2>1. SInv'
    BY <1>0, <1>12, TerminateKeeps
  <2>2. Counted' \subseteq Counted /\ highest' >= highest
    BY <1>0, <1>12 DEF SInv, TypeOK, Counted, Unowned, Terminate, CurrentLive, lease, lock, config, resumed
  <2>3. CapacityNeverExceeded'
    BY <2>1, <2>2, NoSlotTaken
  <2> QED BY <2>1, <2>3 DEF IInv
<1>13. ASSUME NEW s \in Sessions, Teardown(s) PROVE IInv'
  <2>1. SInv'
    BY <1>0, <1>13, TeardownKeeps
  <2>2. Counted' \subseteq Counted /\ highest' >= highest
    BY <1>0, <1>13 DEF SInv, TypeOK, Running, Ended, Counted, Unowned, Teardown, StatusChange, Release, lock, config, resumed
  <2>3. CapacityNeverExceeded'
    BY <2>1, <2>2, NoSlotTaken
  <2> QED BY <2>1, <2>3 DEF IInv
<1>14. CASE Close
  <2>1. SInv'
    BY <1>0, <1>14, CloseKeeps
  <2>2. Counted' \subseteq Counted /\ highest' >= highest
    BY <1>0, <1>14 DEF SInv, TypeOK, RunningSessionsOwnASlot, Counted, Unowned, Close, Release, lock, config, resumed
  <2>3. CapacityNeverExceeded'
    BY <2>1, <2>2, NoSlotTaken
  <2> QED BY <2>1, <2>3 DEF IInv
<1>15. ASSUME NEW p \in Prompts, NEW s \in Sessions, Submit(p, s) PROVE IInv'
  <2>1. SInv'
    BY <1>0, <1>15, SubmitKeeps
  <2>2. Counted' \subseteq Counted /\ highest' >= highest
    BY <1>0, <1>15 DEF SInv, TypeOK, Counted, Unowned, Submit, Enter, CurrentLive, lease, config, resumed
  <2>3. CapacityNeverExceeded'
    BY <2>1, <2>2, NoSlotTaken
  <2> QED BY <2>1, <2>3 DEF IInv
<1>16. ASSUME NEW p \in Prompts, GrantRunning(p) PROVE IInv'
  <2>1. SInv'
    BY <1>0, <1>16, GrantRunningKeeps
  <2>2. Counted' \subseteq Counted /\ highest' >= highest
    BY <1>0, <1>16 DEF SInv, TypeOK, Counted, Unowned, GrantRunning, Holds, Granted, Leave, CurrentLive, lease, config, resumed
  <2>3. CapacityNeverExceeded'
    BY <2>1, <2>2, NoSlotTaken
  <2> QED BY <2>1, <2>3 DEF IInv
<1>17. ASSUME NEW p \in Prompts, ShareSlot(p) PROVE IInv'
  <2>1. SInv'
    BY <1>0, <1>17, ShareSlotKeeps
  <2>2. Counted' \subseteq Counted /\ highest' >= highest
    BY <1>0, <1>17 DEF SInv, TypeOK, Counted, Unowned, ShareSlot, Holds, Granted, Leave, CurrentLive, config, resumed
  <2>3. CapacityNeverExceeded'
    BY <2>1, <2>2, NoSlotTaken
  <2> QED BY <2>1, <2>3 DEF IInv
<1>18. ASSUME NEW p \in Prompts, TakeSlot(p) PROVE IInv'
  <2>1. SInv'
    BY <1>0, <1>18, TakeSlotKeeps
  <2>2. Counted' \subseteq Counted \cup {of[p]} /\ highest' = highest
    BY <1>0, <1>18 DEF Counted, Unowned, TakeSlot, Holds, Granted, Leave, CurrentLive, config, resumed
  <2>3. reading \in Nat /\ ~Full(reading)
    BY <1>0, <1>18 DEF SInv, TypeOK, TakeSlot
  <2>4. CapacityNeverExceeded'
    BY <2>1, <2>2, <2>3, OneSlotTaken
  <2> QED BY <2>1, <2>4 DEF IInv
<1>19. ASSUME NEW p \in Prompts, RefusePrompt(p) PROVE IInv'
  <2>1. SInv'
    BY <1>0, <1>19, RefusePromptKeeps
  <2>2. Counted' \subseteq Counted /\ highest' >= highest
    BY <1>0, <1>19 DEF SInv, TypeOK, Counted, Unowned, RefusePrompt, Holds, Leave, CurrentLive, lease, config, resumed
  <2>3. CapacityNeverExceeded'
    BY <2>1, <2>2, NoSlotTaken
  <2> QED BY <2>1, <2>3 DEF IInv
<1>20. ASSUME NEW p \in Prompts, Accept(p) PROVE IInv'
  <2>1. SInv'
    BY <1>0, <1>20, AcceptKeeps
  <2>2. Counted' \subseteq Counted /\ highest' >= highest
    BY <1>0, <1>20 DEF SInv, TypeOK, Counted, Unowned, Accept, Commit, Over, lock, config, resumed
  <2>3. CapacityNeverExceeded'
    BY <2>1, <2>2, NoSlotTaken
  <2> QED BY <2>1, <2>3 DEF IInv
<1>21. ASSUME NEW p \in Prompts, RejectGranted(p) PROVE IInv'
  <2>1. SInv'
    BY <1>0, <1>21, RejectGrantedKeeps
  <2>2. Counted' \subseteq Counted /\ highest' >= highest
    BY <1>0, <1>21 DEF SInv, TypeOK, Counted, Unowned, RejectGranted, Rollback, Release, lock, config, resumed
  <2>3. CapacityNeverExceeded'
    BY <2>1, <2>2, NoSlotTaken
  <2> QED BY <2>1, <2>3 DEF IInv
<1>22. ASSUME NEW p \in Prompts, StartPrompt(p) PROVE IInv'
  <2>1. SInv'
    BY <1>0, <1>22, StartPromptKeeps
  <2>2. Counted' \subseteq Counted /\ highest' >= highest
    BY <1>0, <1>22 DEF SInv, TypeOK, Running, Counted, Unowned, StartPrompt, Idle, Over, lease, lock, config, resumed
  <2>3. CapacityNeverExceeded'
    BY <2>1, <2>2, NoSlotTaken
  <2> QED BY <2>1, <2>3 DEF IInv
<1>23. ASSUME NEW p \in Prompts, Recheck(p) PROVE IInv'
  <2>1. SInv'
    BY <1>0, <1>23, RecheckKeeps
  <2>2. Counted' \subseteq Counted /\ highest' >= highest
    BY <1>0, <1>23 DEF SInv, TypeOK, Counted, Unowned, Recheck, Idle, Over, Enter, lease, config, resumed
  <2>3. CapacityNeverExceeded'
    BY <2>1, <2>2, NoSlotTaken
  <2> QED BY <2>1, <2>3 DEF IInv
<1>24. ASSUME NEW p \in Prompts, Reactivate(p) PROVE IInv'
  <2>1. SInv'
    BY <1>0, <1>24, ReactivateKeeps
  <2>2. Counted' \subseteq Counted /\ highest' >= highest
    BY <1>0, <1>24 DEF SInv, TypeOK, PromptsAtWork, ClaimsAreHeld, Running, Counted, Unowned, Reactivate, Commit, Over, lock, config, resumed
  <2>3. CapacityNeverExceeded'
    BY <2>1, <2>2, NoSlotTaken
  <2> QED BY <2>1, <2>3 DEF IInv
<1>25. ASSUME NEW p \in Prompts, AbandonRegranted(p) PROVE IInv'
  <2>1. SInv'
    BY <1>0, <1>25, AbandonRegrantedKeeps
  <2>2. Counted' \subseteq Counted /\ highest' >= highest
    BY <1>0, <1>25 DEF SInv, TypeOK, Counted, Unowned, AbandonRegranted, Rollback, Release, Over, lock, config, resumed
  <2>3. CapacityNeverExceeded'
    BY <2>1, <2>2, NoSlotTaken
  <2> QED BY <2>1, <2>3 DEF IInv
<1>26. ASSUME NEW p \in Prompts, Drop(p) PROVE IInv'
  <2>1. SInv'
    BY <1>0, <1>26, DropKeeps
  <2>2. Counted' \subseteq Counted /\ highest' >= highest
    BY <1>0, <1>26 DEF SInv, TypeOK, Counted, Unowned, Drop, lease, lock, config, resumed
  <2>3. CapacityNeverExceeded'
    BY <2>1, <2>2, NoSlotTaken
  <2> QED BY <2>1, <2>3 DEF IInv
<1>27. ASSUME NEW n \in Limits, ChangeLimit(n) PROVE IInv'
  <2>1. SInv'
    BY <1>0, <1>27, ChangeLimitKeeps
  <2>2. Counted' \subseteq Counted /\ highest' >= highest
    BY <1>0, <1>27 DEF SInv, TypeOK, Counted, Unowned, ChangeLimit, lease, lock, resumed
  <2>3. CapacityNeverExceeded'
    BY <2>1, <2>2, NoSlotTaken
  <2> QED BY <2>1, <2>3 DEF IInv
<1>s. CASE UNCHANGED vars
  <2>1. SInv'
    BY <1>0, <1>s DEF vars, lease, lock, config, resumed, SInv, TypeOK, WaitersWait, Distinct, ToSet,
      SlotsAndReservationsApart, ClaimsAreHeld, PromptsAtWork, Over, ReadingsAreConfigured,
      RunningSessionsOwnASlot
  <2>2. CapacityNeverExceeded'
    BY <1>s DEF IInv, vars, lease, lock, config, resumed, CapacityNeverExceeded, Used, Unowned
  <2> QED BY <2>1, <2>2 DEF IInv
<1> QED
  BY <1>1, <1>2, <1>3, <1>4, <1>5, <1>6, <1>7, <1>8, <1>9, <1>10, <1>11, <1>12, <1>13, <1>14, <1>15, <1>16, <1>17, <1>18, <1>19, <1>20, <1>21, <1>22, <1>23, <1>24, <1>25, <1>26, <1>27, <1>s DEF Next

(***************************************************************************)
(* The theorems.                                                           *)
(***************************************************************************)
\* The manager keeps the invariant.
THEOREM InductiveInvariant == Spec => []IInv
<1> QED BY InitIInv, NextIInv, PTL DEF Spec

\* The variables keep their types; in particular a committed lease is a slot
\* the session owns.
THEOREM TypeCorrectness == Spec => []TypeOK
<1>1. IInv => TypeOK
  BY DEF IInv, SInv
<1> QED BY <1>1, InductiveInvariant, PTL

\* However many creations, resumptions and reactivations race, and however the
\* limit is changed under them: only resumed sessions that the factory activated
\* after they had failed run beyond the highest limit configured.
THEOREM CapacityHolds == Spec => []CapacityNeverExceeded
<1>1. IInv => CapacityNeverExceeded
  BY DEF IInv
<1> QED BY <1>1, InductiveInvariant, PTL

\* A session that runs owns a slot, also one that failed and was brought back
\* by a queued prompt, unless the factory activated it after a failure.
THEOREM RunningSessionsOwnASlotHolds == Spec => []RunningSessionsOwnASlot
<1>1. IInv => RunningSessionsOwnASlot
  BY DEF IInv, SInv
<1> QED BY <1>1, InductiveInvariant, PTL

=============================================================================
