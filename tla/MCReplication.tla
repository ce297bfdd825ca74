--------------------------- MODULE MCReplication ---------------------------
(* Replication on small instances. *)
EXTENDS Replication, TLC

CONSTANTS MaxInflight

\* Sound when InitialLeader is None.
NodeOpSymmetry == Permutations(Node) \union Permutations(Op)

\* Rounds of heartbeats are explored while no replication request is under way.
QuietBeats ==
    (\E n \in Node : task[n].phase = "beat")
        => inflight = {} /\ \A n \in Node : sync[n] = None

\* Only one node ever stands for election.
OneCandidate ==
    \A x, y \in voteLog : x[1] = x[3] /\ y[1] = y[3] => x[1] = y[1]

\* Replication starts when the last vote request is answered.
VotesFirst == inflight # {} => requests = {} /\ ballots = {}

FewMessages == Cardinality(inflight) <= MaxInflight
=============================================================================
