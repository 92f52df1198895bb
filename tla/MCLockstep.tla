----------------------------- MODULE MCLockstep -----------------------------
(***************************************************************************)
(* Instances of Lockstep for TLC: how often the nodes of a run are started. *)
(***************************************************************************)
EXTENDS Lockstep

(* The first node is reflashed once, the second starts once. *)
FirstIsReflashed == [n \in Node |-> IF n = 1 THEN 2 ELSE 1]

(* Every node is started up to three times. *)
Reflashed == [n \in Node |-> 3]

(* Every node is started once. *)
OneStart == [n \in Node |-> 1]
=============================================================================
