------------------------------ MODULE PromptLine ------------------------------
(***************************************************************************)
(* What a prompt queue promises to its owner, whatever promises, abort     *)
(* signals and microtasks it is made of: prompts stand in one line, the    *)
(* head of the line is served when nobody else is, items may be discarded  *)
(* from the line but never overtake each other, no prompt is served twice, *)
(* and nobody is served after the line was shut.                           *)
(***************************************************************************)
EXTENDS Naturals, Sequences

CONSTANTS Prompts, Nobody

VARIABLES line, running, seen, shut

lineVars == <<line, running, seen, shut>>

Init == line = <<>> /\ running = Nobody /\ seen = {} /\ shut = FALSE

\* s is t with some of its items removed.
IsSubsequence(s, t) ==
  \E f \in [1..Len(s) -> 1..Len(t)] :
    /\ \A i \in 1..Len(s) : s[i] = t[f[i]]
    /\ \A i, j \in 1..Len(s) : i < j => f[i] < f[j]

Join(p) ==
  /\ ~shut /\ p \notin seen
  /\ line' = Append(line, p) /\ seen' = seen \cup {p}
  /\ UNCHANGED <<running, shut>>

Serve ==
  /\ ~shut /\ running = Nobody /\ line # <<>>
  /\ running' = Head(line) /\ line' = Tail(line)
  /\ UNCHANGED <<seen, shut>>

Leave ==
  /\ running # Nobody /\ running' = Nobody
  /\ UNCHANGED <<line, seen, shut>>

Discard ==
  /\ IsSubsequence(line', line)
  /\ shut' \in {shut, TRUE}
  /\ UNCHANGED <<running, seen>>

Next == (\E p \in Prompts : Join(p)) \/ Serve \/ Leave \/ Discard

Spec == Init /\ [][Next]_lineVars
=============================================================================
