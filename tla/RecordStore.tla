------------------------------ MODULE RecordStore ------------------------------
(***************************************************************************)
(* What the record store promises its callers: a working view that every   *)
(* accepted mutation changes at once, and a durable one that survives the  *)
(* process. A mutation is accepted, or made durable before its caller goes *)
(* on, or rejected without a trace.                                        *)
(***************************************************************************)
CONSTANTS
  Ids,     \* the sessions
  Values,  \* what a record says
  None     \* no record

VARIABLES
  working,  \* what a caller reads
  durable,  \* what the next process finds
  reply     \* the outcome of the last call

Empty == [i \in Ids |-> None]
View  == [Ids -> Values \cup {None}]

Replies == {"none", "accepted", "durable", "rejected"}

Without(view, S) == [i \in Ids |-> IF i \in S THEN None ELSE view[i]]

Init == working \in View /\ durable = working /\ reply = "none"

\* A mutation that is written later.
Accept(i, v) ==
  working' = [working EXCEPT ![i] = v] /\ reply' = "accepted" /\ UNCHANGED durable

\* A mutation that is durable when its caller goes on.
AcceptDurably(i, v) ==
  working' = [working EXCEPT ![i] = v] /\ durable' = working' /\ reply' = "durable"

\* Nothing of the mutation remains, and everything accepted before does.
Reject == reply' = "rejected" /\ UNCHANGED <<working, durable>>

Publish == durable' = working /\ UNCHANGED <<working, reply>>

Expire(S) == working' = Without(working, S) /\ UNCHANGED <<durable, reply>>

\* The process dies, and with it what it had not published.
Crash == working' = durable /\ UNCHANGED <<durable, reply>>

\* The records cannot be read when the process starts.
Lose == working' = Empty /\ durable' \in {durable, Empty} /\ UNCHANGED reply

Next ==
  \/ Reject \/ Publish \/ Crash \/ Lose
  \/ \E S \in SUBSET Ids : Expire(S)
  \/ \E i \in Ids, v \in Values \cup {None} : Accept(i, v) \/ AcceptDurably(i, v)

Spec == Init /\ [][Next]_<<working, durable, reply>>

=============================================================================
