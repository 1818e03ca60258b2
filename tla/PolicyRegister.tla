--------------------------- MODULE PolicyRegister ---------------------------
(***************************************************************************)
(* What ADR 0003 promises of the proxy policy: public settings and          *)
(* credentials are one value, changed by one transaction at a time.  A      *)
(* mutation builds on the value before it and loses nothing of it; only one *)
(* that concerns the credentials changes them.                              *)
(*                                                                         *)
(* The store keeps the credentials only as long as nobody has looked at the *)
(* two files beside a pending transaction (loose), and anything at all only *)
(* as long as no two processes were under its lock (broken; see ProxyStore  *)
(* for both).                                                               *)
(***************************************************************************)
EXTENDS Naturals

CONSTANTS None,
          Mutations   \* records, whose field "kind" says what becomes of the credentials

VARIABLES revision,   \* increased by every commit
          edits,      \* the mutations that the public settings include
          password,   \* the mutation that has set the credentials
          loose, broken

vars == <<revision, edits, password, loose, broken>>

Init == revision = 0 /\ edits = {} /\ password = None /\ loose = FALSE /\ broken = FALSE

\* The credentials after a mutation.
Password(m) == CASE m.kind = "set" -> m [] m.kind = "clear" -> None [] OTHER -> password

Commit(m) ==
    /\ m \notin edits
    /\ edits' = edits \union {m} /\ revision' = revision + 1
    /\ IF loose THEN password' \in Mutations \union {None} ELSE password' = Password(m)
    /\ UNCHANGED <<loose, broken>>

Loosen == loose' = TRUE /\ UNCHANGED <<revision, edits, password, broken>>

Break == broken' = TRUE /\ UNCHANGED <<revision, edits, password, loose>>

\* Nothing is promised any more.
Broken == broken /\ broken'

Next == Loosen \/ Break \/ Broken \/ \E m \in Mutations : Commit(m)

Spec == Init /\ [][Next]_vars
=============================================================================
