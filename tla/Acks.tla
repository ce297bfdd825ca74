-------------------------------- MODULE Acks --------------------------------
(***************************************************************************)
(* The acknowledgements of an agent for one shard: sent once to the relay  *)
(* after every change of the agent's snapshot file, kept in the relay's    *)
(* table in memory, posted and posted again to commitd, and stored there   *)
(* on a quorum of nodes before they are reported.                          *)
(*                                                                         *)
(* An ack is its sequence number.  Posts to commitd may be lost, late,     *)
(* repeated and out of order, for the relay gives up on one after a        *)
(* timeout and posts again.  Leaders are those of module Election; here a  *)
(* node becomes one at some moment, and an overtaken one may go on as a    *)
(* leader for a while.  A node's store is its log of acks on disk, from    *)
(* which load_propagation_acks makes the same table again: a restart loses *)
(* only the requests under way.                                            *)
(***************************************************************************)
EXTENDS Integers, FiniteSets

CONSTANTS
    Nodes,           \* commitd nodes
    MaxSeq,          \* bound: mutations
    MaxRequests,     \* bound: POST /v1/ack requests that nodes work on at a time
    MaxFaults        \* bound: changes of leader and restarts of a node or the relay

ASSUME AcksAssumption ==
    /\ IsFiniteSet(Nodes) /\ Nodes # {}
    /\ MaxSeq \in Nat /\ MaxRequests \in Nat /\ MaxFaults \in Nat

VARIABLES
    ackTable,    \* the relay's ack of the agent, 0 when it has none
    posts,       \* the acks the relay ever posted to commitd
    requests,    \* POST /v1/ack at a node: its seq, the peers that answered, and
                 \* whether the handler still waits for more
    store,       \* per node, its ack of the agent
    confirmed,   \* the highest ack that was answered with 200
    leader,      \* the node elected last
    leaders,     \* the nodes whose role is leader
    merge,       \* the leader's sync_acks_from_peers: the peers read, and what
                 \* was confirmed when it was elected
    faults

vars == << ackTable, posts, requests, store, confirmed, leader, leaders, merge, faults >>

Quorum == Cardinality(Nodes) \div 2 + 1
Max2(a, b) == IF a > b THEN a ELSE b

-----------------------------------------------------------------------------
(***************************************************************************)
(* The relay                                                               *)
(***************************************************************************)

\* POST /v1/ack from the agent: the table takes any ack, also one of an agent
\* that a repair took back, and it is forwarded at once.
AgentAcks(s) ==
    /\ ackTable' = s
    /\ posts' = posts \cup {s}
    /\ UNCHANGED << requests, store, confirmed, leader, leaders, merge, faults >>

\* The table is in memory only.
RestartRelay ==
    /\ ackTable # 0
    /\ ackTable' = 0
    /\ UNCHANGED << posts, requests, store, confirmed, leader, leaders, merge, faults >>

-----------------------------------------------------------------------------
(***************************************************************************)
(* commitd                                                                 *)
(***************************************************************************)

RelayStays == UNCHANGED << ackTable, posts >>

\* Slip: the ack that comes last is kept.
KeepLast(stored, s) == s

\* apply_propagation_ack_to_store keeps the newer of two acks.
Keep(stored, s) == IF stored > s THEN stored ELSE s

\* proxy_write_to_leader: a node that does not take itself for the leader passes a
\* write on to one it knows, and answers with an error when it knows none.
TakesWrites(n) == n \in leaders

\* POST /v1/ack at a leader.
TakePost(n, s) ==
    /\ s \in posts /\ TakesWrites(n)
    /\ Cardinality(requests) < MaxRequests
    /\ requests' = requests \cup {[at |-> n, seq |-> s, stored |-> {}, open |-> TRUE]}
    /\ RelayStays /\ UNCHANGED << store, confirmed, leader, leaders, merge, faults >>

Becomes(r, q) == requests' = (requests \ {r}) \cup {q}

\* POST /internal/replication/ack reaches a peer, which asks for no leader or
\* term.  Its answer may be lost, and the handler may no longer wait for it.
PeerStores(r, p) ==
    /\ p \notin r.stored \cup {r.at}
    /\ store' = [store EXCEPT ![p] = Keep(@, r.seq)]
    /\ UNCHANGED requests \/ (r.open /\ Becomes(r, [r EXCEPT !.stored = @ \cup {p}]))
    /\ RelayStays /\ UNCHANGED << confirmed, leader, leaders, merge, faults >>

\* Slip: one answer too few is enough.
QuorumReachedEarly(r) == Cardinality(r.stored) + 2 >= Quorum
QuorumReached(r) == Cardinality(r.stored) + 1 >= Quorum

\* record_propagation_ack: with a quorum the node stores the ack too, and answers.
RecordAck(r) ==
    /\ r.open /\ QuorumReached(r)
    /\ store' = [store EXCEPT ![r.at] = Keep(@, r.seq)]
    /\ confirmed' = Max2(confirmed, r.seq)
    /\ Becomes(r, [r EXCEPT !.open = FALSE])
    /\ RelayStays /\ UNCHANGED << leader, leaders, merge, faults >>

\* Without one it is an error, which the relay only counts.
RecordFails(r) ==
    /\ r.open /\ ~QuorumReached(r)
    /\ Becomes(r, [r EXCEPT !.open = FALSE])
    /\ RelayStays /\ UNCHANGED << store, confirmed, leader, leaders, merge, faults >>

\* The threads of a request that is over have ended.
ThreadsEnd(r) ==
    /\ ~r.open
    /\ requests' = requests \ {r}
    /\ RelayStays /\ UNCHANGED << store, confirmed, leader, leaders, merge, faults >>

\* A node wins an election.
Elect(n) ==
    /\ n \notin leaders
    /\ faults < MaxFaults \/ leaders = {}
    /\ leader' = n
    /\ leaders' = leaders \cup {n}
    /\ merge' = [read |-> {}, owes |-> confirmed]
    /\ faults' = IF leaders = {} THEN faults ELSE faults + 1
    /\ RelayStays /\ UNCHANGED << requests, store, confirmed >>

\* An overtaken leader hears of the new term.
StepDown(n) ==
    /\ n \in leaders \ {leader}
    /\ leaders' = leaders \ {n}
    /\ RelayStays /\ UNCHANGED << requests, store, confirmed, leader, merge, faults >>

\* Slip: an answer other than 200 counts as read.
MergeFromError(p) ==
    /\ leader \in leaders /\ p \notin merge.read \cup {leader}
    /\ store' \in {store, [store EXCEPT ![leader] = Keep(@, store[p])]}
    /\ merge' = [merge EXCEPT !.read = @ \cup {p}]
    /\ RelayStays /\ UNCHANGED << requests, confirmed, leader, leaders, faults >>

\* sync_acks_from_peers, one peer: what it has is merged.  A peer that fails is
\* passed over, for the merge is best effort.
MergeFrom(p) ==
    /\ leader \in leaders /\ p \notin merge.read \cup {leader}
    /\ store' = [store EXCEPT ![leader] = Keep(@, store[p])]
    /\ merge' = [merge EXCEPT !.read = @ \cup {p}]
    /\ RelayStays /\ UNCHANGED << requests, confirmed, leader, leaders, faults >>

\* sync_from_leader ends with the acks of the leader.
FollowerSyncs(n) ==
    /\ n \notin leaders /\ leader \in leaders
    /\ store' = [store EXCEPT ![n] = Keep(@, store[leader])]
    /\ RelayStays
    /\ UNCHANGED << requests, confirmed, leader, leaders, merge, faults >>

\* A node starts again, as a follower, with the acks in its log.
RestartNode(n) ==
    /\ faults < MaxFaults
    /\ requests' = {r \in requests : r.at # n}
    /\ leaders' = leaders \ {n}
    /\ faults' = faults + 1
    /\ RelayStays /\ UNCHANGED << store, confirmed, leader, merge >>

-----------------------------------------------------------------------------
Init ==
    /\ ackTable = 0 /\ posts = {}
    /\ requests = {}
    /\ store = [n \in Nodes |-> 0]
    /\ confirmed = 0
    /\ leader \in Nodes /\ leaders = {leader}
    /\ merge = [read |-> {}, owes |-> 0]
    /\ faults = 0

RequestNext == \E r \in requests :
    \/ \E p \in Nodes : PeerStores(r, p)
    \/ RecordAck(r) \/ RecordFails(r) \/ ThreadsEnd(r)

NodeNext == \E n \in Nodes :
    \/ \E s \in posts : TakePost(n, s)
    \/ Elect(n) \/ MergeFrom(n) \/ StepDown(n) \/ FollowerSyncs(n) \/ RestartNode(n)

Next ==
    \/ \E s \in 1 .. MaxSeq : AgentAcks(s)
    \/ RestartRelay \/ RequestNext \/ NodeNext

Spec == Init /\ [][Next]_vars

-----------------------------------------------------------------------------
(***************************************************************************)
(* Properties                                                              *)
(***************************************************************************)

\* What is stored, confirmed and kept are acks the relay posted, and a request
\* counts answers of other nodes only.
TypeOK ==
    /\ posts \subseteq 1 .. MaxSeq
    /\ {ackTable, confirmed, merge.owes} \subseteq posts \cup {0}
    /\ store \in [Nodes -> posts \cup {0}]
    /\ \A r \in requests :
         /\ r \in [at : Nodes, seq : posts, stored : SUBSET Nodes, open : BOOLEAN]
         /\ r.at \notin r.stored
    /\ leader \in Nodes /\ leaders \subseteq Nodes /\ leader \notin merge.read

\* An ack the relay was told is recorded is, or a newer one, on a quorum of nodes
\* and stays there, whatever order the posts of two acks, the answers of peers,
\* changes of leader and restarts come in.
ConfirmedOnQuorum ==
    Cardinality({n \in Nodes : store[n] >= confirmed}) >= Quorum

\* A new leader that could read the acks of enough peers reports no less than
\* what was confirmed before it was elected.
LeaderRemembers ==
    Cardinality(merge.read) + Quorum >= Cardinality(Nodes) =>
        store[leader] >= merge.owes

\* A peer that is counted for a request has its ack.
CountedHaveIt ==
    \A r \in requests : \A p \in r.stored : store[p] >= r.seq

\* As long as a new leader lacks what was confirmed before it was elected, a
\* quorum of the nodes that it has yet to read has it.
OwedIsUnread ==
    \/ store[leader] >= merge.owes
    \/ Cardinality({n \in Nodes \ (merge.read \cup {leader}) :
                      store[n] >= merge.owes}) >= Quorum

\* Why an ack is not forgotten, as an inductive invariant: the answers that make
\* up a quorum are of nodes that have the ack, stores only grow, and what is owed
\* to the merge of a new leader (sync_acks_from_peers) is still to be found.
AcksInv ==
    /\ TypeOK
    /\ merge \in [read : SUBSET Nodes, owes : Nat]
    /\ CountedHaveIt
    /\ ConfirmedOnQuorum
    /\ OwedIsUnread
=============================================================================
