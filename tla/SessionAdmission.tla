---------------------------- MODULE SessionAdmission ----------------------------
(***************************************************************************)
(* The slots that bound how many sessions run at once                      *)
(* (session-manager.ts): a creation reserves a slot before its agent is    *)
(* spawned, the registered session owns it until it fails or ends, and a   *)
(* prompt that would bring a failed session back needs a new one. The      *)
(* factory activates a resumed session without asking for any.             *)
(* Checks go through one lock, and await the configured limit inside it.   *)
(***************************************************************************)
EXTENDS Naturals, Sequences, FiniteSets, SequencesExt

CONSTANTS
  Sessions,   \* the sessions that are created or resumed
  Resumed,    \* those resumed from their record
  Prompts,    \* the prompts users submit, again and again
  Limits,     \* the values the hot-reloadable limit takes
  Unread      \* the holder of the lock has not read the limit

ASSUME AdmissionAssumption ==
  /\ IsFiniteSet(Sessions) /\ Sessions \cap Prompts = {}
  /\ Sessions # {} /\ Resumed \subseteq Sessions /\ Limits \subseteq Nat /\ Unread \notin Nat

VARIABLES
  status,       \* where a session is: its creation, or Session._status
  registered,   \* SessionManager.sessions
  terminating,  \* the sessions past beginTermination()
  reserved,     \* admissionReservations, by the session being created
  owners,       \* sessionAdmissionOwners
  committed,    \* the owners whose lease has promptCommitted
  line,         \* who is in withAdmissionLock(); the head holds the lock
  reading,      \* the limit the holder has read
  limit,        \* the configured limit
  pc,           \* where a prompt is
  of,           \* the session of a prompt
  claims,       \* the prompts counted by promptClaims of a current lease
  closing,      \* SessionManager._closing
  highest,      \* history: the highest limit configured so far
  resuming,     \* the registered sessions the factory has still to activate
  revived       \* history: the sessions it activated from "error"

lock    == <<line, reading>>
lease   == <<reserved, owners, committed, claims>>
config  == <<limit, highest>>
resumed == <<resuming, revived>>
vars    == <<status, registered, terminating, lease, lock, pc, of, closing, config,
             resumed>>

Creation == {"absent", "asking", "spawning"}
Running  == {"initializing", "active"}
Ended    == {"finished", "cancelled"}
Stages   == {"idle", "asking", "granted", "queued", "recheck", "regranted", "running"}

Init ==
  /\ status = [s \in Sessions |-> "absent"] /\ registered = {} /\ terminating = {}
  /\ reserved = {} /\ owners = {} /\ committed = {} /\ claims = {}
  /\ line = <<>> /\ reading = Unread /\ limit \in Limits /\ highest = limit
  /\ pc = [p \in Prompts |-> "idle"] /\ closing = FALSE
  /\ of = [p \in Prompts |-> CHOOSE s \in Sessions : TRUE]
  /\ resuming = {} /\ revived = {}

(***************************************************************************)
(* What counts.                                                            *)
(***************************************************************************)
CurrentLive(s) == s \in registered \ terminating

\* Sessions registered without an admission count while they run.
Unowned == {s \in registered : status[s] \in Running} \ owners

\* usedSessionCapacity()
Used == Cardinality(owners) + Cardinality(reserved) + Cardinality(Unowned)

\* Reservations in flight are not counted.
MutantFull(n) == Cardinality(owners) + Cardinality(Unowned) >= n

Full(n) == Used >= n

(***************************************************************************)
(* Leases.                                                                 *)
(***************************************************************************)
\* releaseOwnedSessionAdmission(): the claims of the lease are void.
Release(S) ==
  /\ owners' = owners \ S /\ committed' = committed \ S
  /\ claims' = {p \in claims : of[p] \notin S}

\* A claim on a lease released meanwhile marks the session all the same.
MutantCommitsReleased(p) ==
  committed' = committed \cup {of[p]} /\ claims' = claims \ {p}

\* commit() of a prompt's admission.
Commit(p) ==
  /\ committed' = IF p \in claims THEN committed \cup {of[p]} ELSE committed
  /\ claims' = claims \ {p}

\* rollback(): the last claim on an uncommitted lease gives the slot back.
Rollback(p) ==
  IF p \in claims /\ of[p] \notin committed /\ status[of[p]] = "error"
     /\ \A q \in claims \ {p} : of[q] # of[p]
  THEN Release({of[p]})
  ELSE claims' = claims \ {p} /\ UNCHANGED <<owners, committed>>

(***************************************************************************)
(* The admission lock.                                                     *)
(***************************************************************************)
Enter(t) == line' = Append(line, t) /\ UNCHANGED reading
Leave    == line' = Tail(line) /\ reading' = Unread

\* The failed read keeps the lock.
MutantKeepsLock == UNCHANGED line /\ reading' = Unread

LeaveAfterFailure == Leave

\* A holder needs the limit unless its session already runs or owns a slot.
NeedsLimit(t) ==
  IF t \in Sessions THEN TRUE
  ELSE CurrentLive(of[t]) /\ status[of[t]] = "error" /\ of[t] \notin owners

Waits == /\ line # <<>> /\ reading = Unread /\ ~closing /\ NeedsLimit(Head(line))

ReadLimit ==
  /\ Waits /\ reading' = limit
  /\ UNCHANGED <<status, registered, terminating, lease, line, pc, of, closing,
                 config, resumed>>

\* The settings cannot be read: the caller gets the error.
ReadFails ==
  /\ Waits /\ LeaveAfterFailure
  /\ LET t == Head(line) IN
     IF t \in Sessions
     THEN status' = [status EXCEPT ![t] = "absent"] /\ UNCHANGED pc
     ELSE pc' = [pc EXCEPT ![t] = "idle"] /\ UNCHANGED status
  /\ UNCHANGED <<registered, terminating, lease, of, closing, config, resumed>>

(***************************************************************************)
(* Creating and resuming sessions.                                         *)
(***************************************************************************)
AskCreation(s) ==
  /\ status[s] = "absent" /\ ~closing
  /\ status' = [status EXCEPT ![s] = "asking"] /\ Enter(s)
  /\ UNCHANGED <<registered, terminating, lease, pc, of, closing, config, resumed>>

\* reserveSessionAdmission() checks and reserves in one step.
Reserve(s) ==
  /\ line # <<>> /\ Head(line) = s /\ reading # Unread /\ ~closing /\ ~Full(reading)
  /\ reserved' = reserved \cup {s} /\ status' = [status EXCEPT ![s] = "spawning"] /\ Leave
  /\ UNCHANGED <<registered, terminating, owners, committed, claims, pc, of, closing,
                 config, resumed>>

RefuseCreation(s) ==
  /\ line # <<>> /\ Head(line) = s
  /\ closing \/ (reading # Unread /\ Full(reading))
  /\ status' = [status EXCEPT ![s] = "absent"] /\ Leave
  /\ UNCHANGED <<registered, terminating, lease, pc, of, closing, config, resumed>>

\* registerSession() and commitSessionAdmission(): the reservation becomes the
\* session's slot. The factory activates a resumed session some awaits later.
Register(s) ==
  /\ status[s] = "spawning" /\ ~closing
  /\ registered' = registered \cup {s} /\ status' = [status EXCEPT ![s] = "initializing"]
  /\ reserved' = reserved \ {s} /\ owners' = owners \cup {s}
  /\ resuming' = resuming \cup ({s} \cap Resumed)
  /\ UNCHANGED <<terminating, committed, claims, lock, pc, of, closing, config, revived>>

\* The spawn fails or the registration is rejected: the slot is given back.
CreationFails(s) ==
  /\ status[s] = "spawning"
  /\ reserved' = reserved \ {s} /\ status' = [status EXCEPT ![s] = "absent"]
  /\ UNCHANGED <<registered, terminating, owners, committed, claims, lock, pc, of, closing,
                 config, resumed>>

\* session.activate() of a resumption: it asks nobody for a slot, brings a
\* session that failed meanwhile back, and fails for one that runs or is over.
ActivateResumed(s) ==
  /\ s \in resuming /\ resuming' = resuming \ {s}
  /\ IF CurrentLive(s) /\ status[s] \in {"initializing", "error"}
     THEN /\ status' = [status EXCEPT ![s] = "active"]
          /\ revived' = IF status[s] = "error" THEN revived \cup {s} ELSE revived
     ELSE UNCHANGED <<status, revived>>
  /\ UNCHANGED <<registered, terminating, lease, lock, pc, of, closing, config>>

StatusChange(s, to) == status' = [status EXCEPT ![s] = to] /\ Release({s})

SessionFails(s) ==
  /\ CurrentLive(s) /\ status[s] \in Running /\ StatusChange(s, "error")
  /\ UNCHANGED <<registered, terminating, reserved, lock, pc, of, closing, config, resumed>>

Finish(s) ==
  /\ CurrentLive(s) /\ status[s] = "active" /\ StatusChange(s, "finished")
  /\ UNCHANGED <<registered, terminating, reserved, lock, pc, of, closing, config, resumed>>

\* markCancelled() of the /cancel and /flush commands: not a termination.
MarkCancelled(s) ==
  /\ s \in registered /\ status[s] \in Running \cup {"error"} /\ StatusChange(s, "cancelled")
  /\ UNCHANGED <<registered, terminating, reserved, lock, pc, of, closing, config, resumed>>

\* cancelSession(), and discardSession() of a creation that fails late: the
\* terminal boundary comes first, the slot is released with the teardown.
Terminate(s) ==
  /\ CurrentLive(s) /\ terminating' = terminating \cup {s}
  /\ UNCHANGED <<status, registered, lease, lock, pc, of, closing, config, resumed>>

Teardown(s) ==
  /\ s \in registered /\ (s \in terminating \/ status[s] = "finished")
  /\ StatusChange(s, IF status[s] = "finished" THEN "finished" ELSE "cancelled")
  /\ registered' = registered \ {s} /\ terminating' = terminating \cup {s}
  /\ UNCHANGED <<reserved, lock, pc, of, closing, config, resumed>>

\* beginClosing(): every session crosses the boundary and loses its slot.
Close ==
  /\ ~closing /\ closing' = TRUE
  /\ terminating' = terminating \cup registered /\ Release(registered)
  /\ UNCHANGED <<status, registered, reserved, lock, pc, of, config, resumed>>

(***************************************************************************)
(* Prompts: the guard runs before a prompt is queued, and again when the   *)
(* queue starts it in a session that failed meanwhile.                     *)
(***************************************************************************)
Submit(p, s) ==
  /\ pc[p] = "idle" /\ CurrentLive(s) /\ status[s] \notin Ended
  /\ pc' = [pc EXCEPT ![p] = "asking"] /\ of' = [of EXCEPT ![p] = s] /\ Enter(p)
  /\ UNCHANGED <<status, registered, terminating, lease, closing, config, resumed>>

Holds(p) == line # <<>> /\ Head(line) = p

Granted(p) ==
  pc' = [pc EXCEPT ![p] = IF @ = "asking" THEN "granted" ELSE "regranted"] /\ Leave

\* A running session needs no slot of its own for the prompt.
GrantRunning(p) ==
  /\ Holds(p) /\ reading = Unread /\ ~closing /\ CurrentLive(of[p]) /\ status[of[p]] \in Running
  /\ Granted(p)
  /\ UNCHANGED <<status, registered, terminating, lease, of, closing, config, resumed>>

\* A failed session whose slot another prompt already took.
ShareSlot(p) ==
  /\ Holds(p) /\ reading = Unread /\ ~closing /\ CurrentLive(of[p])
  /\ status[of[p]] = "error" /\ of[p] \in owners
  /\ claims' = claims \cup {p} /\ Granted(p)
  /\ UNCHANGED <<status, registered, terminating, reserved, owners, committed, of, closing,
                 config, resumed>>

\* A failed session takes a slot. What was checked before the limit was read
\* is checked again, except for the status.
TakeSlot(p) ==
  /\ Holds(p) /\ reading # Unread /\ ~closing /\ CurrentLive(of[p]) /\ ~Full(reading)
  /\ owners' = owners \cup {of[p]} /\ claims' = claims \cup {p} /\ Granted(p)
  /\ UNCHANGED <<status, registered, terminating, reserved, committed, of, closing,
                 config, resumed>>

RefusePrompt(p) ==
  /\ Holds(p)
  /\ \/ closing \/ ~CurrentLive(of[p])
     \/ reading = Unread /\ status[of[p]] \in Ended
     \/ reading # Unread /\ Full(reading)
  /\ pc' = [pc EXCEPT ![p] = "idle"] /\ Leave
  /\ UNCHANGED <<status, registered, terminating, lease, of, closing, config, resumed>>

Over(s) == s \in terminating \/ status[s] \in Ended

\* submitPrompt() goes on: the prompt is queued and its admission committed.
Accept(p) ==
  /\ pc[p] = "granted" /\ ~Over(of[p])
  /\ pc' = [pc EXCEPT ![p] = "queued"] /\ Commit(p)
  /\ UNCHANGED <<status, registered, terminating, reserved, owners, lock, of, closing,
                 config, resumed>>

\* The session ended meanwhile, or the prompt is refused by an exception.
RejectGranted(p) ==
  /\ pc[p] = "granted"
  /\ pc' = [pc EXCEPT ![p] = "idle"] /\ Rollback(p)
  /\ UNCHANGED <<status, registered, terminating, reserved, lock, of, closing,
                 config, resumed>>

Idle(s) == \A q \in Prompts : of[q] = s => pc[q] \notin {"recheck", "regranted", "running"}

\* A queued prompt brings a failed session back without asking.
MutantReactivates(p) ==
  /\ pc[p] = "queued" /\ Idle(of[p]) /\ ~Over(of[p])
  /\ status' = [status EXCEPT ![of[p]] = "active"] /\ pc' = [pc EXCEPT ![p] = "running"]
  /\ UNCHANGED <<registered, terminating, lease, lock, of, closing, config, resumed>>

\* processPrompt() of a session that runs.
StartPrompt(p) ==
  /\ pc[p] = "queued" /\ Idle(of[p]) /\ ~Over(of[p]) /\ status[of[p]] \in Running
  /\ status' = [status EXCEPT ![of[p]] = "active"] /\ pc' = [pc EXCEPT ![p] = "running"]
  /\ UNCHANGED <<registered, terminating, lease, lock, of, closing, config, resumed>>

\* processPrompt() of a failed session asks for a slot again.
Recheck(p) ==
  /\ pc[p] = "queued" /\ Idle(of[p]) /\ ~Over(of[p]) /\ status[of[p]] = "error"
  /\ pc' = [pc EXCEPT ![p] = "recheck"] /\ Enter(p)
  /\ UNCHANGED <<status, registered, terminating, lease, of, closing, config, resumed>>

Reactivate(p) ==
  /\ pc[p] = "regranted" /\ ~Over(of[p])
  /\ status' = [status EXCEPT ![of[p]] = "active"] /\ pc' = [pc EXCEPT ![p] = "running"]
  /\ Commit(p)
  /\ UNCHANGED <<registered, terminating, reserved, owners, lock, of, closing,
                 config, resumed>>

AbandonRegranted(p) ==
  /\ pc[p] = "regranted" /\ Over(of[p])
  /\ pc' = [pc EXCEPT ![p] = "idle"] /\ Rollback(p)
  /\ UNCHANGED <<status, registered, terminating, reserved, lock, of, closing,
                 config, resumed>>

\* A prompt that ends well, is dropped by clearQueue(), or starts in a
\* session that is over.
Drop(p) ==
  /\ pc[p] \in {"queued", "running"} /\ pc' = [pc EXCEPT ![p] = "idle"]
  /\ UNCHANGED <<status, registered, terminating, lease, lock, of, closing, config, resumed>>

ChangeLimit(n) ==
  /\ n # limit /\ limit' = n /\ highest' = IF n > highest THEN n ELSE highest
  /\ UNCHANGED <<status, registered, terminating, lease, lock, pc, of, closing, resumed>>

Next ==
  \/ ReadLimit \/ ReadFails \/ Close
  \/ \E s \in Sessions :
       \/ AskCreation(s) \/ Reserve(s) \/ RefuseCreation(s) \/ Register(s)
       \/ CreationFails(s) \/ ActivateResumed(s) \/ SessionFails(s) \/ Finish(s)
       \/ MarkCancelled(s) \/ Terminate(s) \/ Teardown(s)
  \/ \E p \in Prompts :
       \/ \E s \in Sessions : Submit(p, s)
       \/ GrantRunning(p) \/ ShareSlot(p) \/ TakeSlot(p) \/ RefusePrompt(p)
       \/ Accept(p) \/ RejectGranted(p) \/ StartPrompt(p) \/ Recheck(p)
       \/ Reactivate(p) \/ AbandonRegranted(p) \/ Drop(p)
  \/ \E n \in Limits : ChangeLimit(n)

Spec == Init /\ [][Next]_vars

(***************************************************************************)
(* Fairness: the limit is read or the read fails, and the holder of the    *)
(* lock goes on. An agent may be spawned for ever.                         *)
(***************************************************************************)
Serve ==
  \/ \E s \in Sessions : Reserve(s) \/ RefuseCreation(s)
  \/ \E p \in Prompts : GrantRunning(p) \/ ShareSlot(p) \/ TakeSlot(p) \/ RefusePrompt(p)

Fairness == WF_vars(ReadLimit \/ ReadFails) /\ WF_vars(Serve)

FairSpec == Spec /\ Fairness

(***************************************************************************)
(* Properties.                                                             *)
(***************************************************************************)
TypeOK ==
  /\ status \in [Sessions -> Creation \cup Running \cup Ended \cup {"error"}]
  /\ registered \subseteq Sessions /\ terminating \subseteq Sessions
  /\ reserved \subseteq Sessions /\ owners \subseteq Sessions /\ committed \subseteq owners
  /\ line \in Seq(Sessions \cup Prompts) /\ reading \in Nat \cup {Unread}
  /\ limit \in Nat /\ highest \in Nat
  /\ pc \in [Prompts -> Stages] /\ of \in [Prompts -> Sessions]
  /\ claims \subseteq Prompts /\ closing \in BOOLEAN
  /\ resuming \subseteq Sessions /\ revived \subseteq Sessions

\* Sessions, creations in flight and failed sessions coming back never take
\* more slots than the highest limit that was ever configured. Only resumed
\* sessions the factory activated after they had failed run on top of it.
CapacityNeverExceeded == Used <= highest + Cardinality(Unowned \cap revived)

\* A session runs only with a slot of its own: a failed one has to get one
\* before its prompt may bring it back. Only a resumed session that failed and
\* that the factory activated all the same may be without.
RunningSessionsOwnASlot ==
  \A s \in registered \ terminating : status[s] \in Running => s \in owners \cup revived

\* Whoever waits for the admission lock is answered, also when the limit cannot
\* be read, when the manager is closing, and while agents are spawned for ever.
InLine(t) == t \in ToSet(line)

AdmissionsSettle == \A t \in Sessions \cup Prompts : InLine(t) ~> ~InLine(t)
=============================================================================
