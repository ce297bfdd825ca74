------------------------------- MODULE MCAcks -------------------------------
(***************************************************************************)
(* The instance of Acks that TLC checks: three nodes that are alike.       *)
(***************************************************************************)
EXTENDS Acks, TLC

Symmetry == Permutations(Nodes)
=============================================================================
