----------------------------- MODULE MCElection -----------------------------
(* Election on small instances. *)
EXTENDS Election, TLC

\* Sound when InitialLeader is None: nothing else names a particular node.
NodeSymmetry == Permutations(Node)
=============================================================================
