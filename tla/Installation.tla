---------------------------- MODULE Installation ----------------------------
(***************************************************************************)
(* What `openacp plugin install` promises (docs/adr/0007): the package      *)
(* tree, the plugin's data and the registry entry change together or not at *)
(* all, whatever fails or dies.                                             *)
(***************************************************************************)
EXTENDS Naturals

CONSTANTS N,          \* package boundaries
          Versions      \* what an install can bring; 0 is absent
VARIABLES packages, data, registry

Items == 1..N
vars == <<packages, data, registry>>

Init ==
    /\ packages \in [Items -> 0..1]
    /\ data \in 0..1
    /\ registry.edits = 0

\* Every boundary comes from the new tree, which has all the old one had; the
\* hook may have written data; the registry names the new version.
Install == \E v \in Versions :
    /\ v > registry.version
    /\ packages' \in [Items -> {0, v}]
    /\ packages'[1] = v /\ \A i \in Items : packages[i] # 0 => packages'[i] = v
    /\ data' \in {data, v}
    /\ registry' = [registry EXCEPT !.version = v]

\* Commands and the running server edit the registry between installs.
Edit ==
    /\ registry' = [registry EXCEPT !.edits = @ + 1]
    /\ UNCHANGED <<packages, data>>

Next == Install \/ Edit

Spec == Init /\ [][Next]_vars
=============================================================================
