----------------------------- MODULE MCStorage -----------------------------
(* Storage on small instances. *)
EXTENDS Storage, TLC

OpSymmetry == Permutations(Op)

\* With a publisher: three commits, at one time, two crashes, and no more records
\* of refused requests in the log than commits are left.
FewWithPublisher ==
    publishing =>
        /\ Cardinality(log) <= 3
        /\ \A m \in log : m.seq <= 3 /\ m.at = 0
        /\ crashes <= 2
=============================================================================
