------------------------------ MODULE Election ------------------------------
(***************************************************************************)
(* Leader election among the commitd peers.                                *)
(*                                                                         *)
(* Every node runs one consensus loop thread (consensus_loop), which is    *)
(* either idle, polling its peers for votes, recovering pending mutations  *)
(* after a win, or sending a round of heartbeats.  Its RPCs are blocking   *)
(* HTTP POSTs made one after the other.  The handlers of the RPCs run on   *)
(* other threads of the receiving node; each holds that node's consensus   *)
(* mutex while it reads, changes and persists the consensus state, so each *)
(* is one atomic step.                                                     *)
(*                                                                         *)
(* Time is abstracted: an election deadline may pass whenever the loop is  *)
(* idle, and an RPC may time out at any moment after it was sent, also     *)
(* when the peer has handled it or will handle it later.  A lost request   *)
(* is one that is never handled.                                           *)
(*                                                                         *)
(* The result of writing consensus.state is a parameter ok of the actions   *)
(* that write it: the code changes the in-memory state first, and on an    *)
(* I/O error returns without undoing that change and without answering.    *)
(***************************************************************************)
EXTENDS Naturals, FiniteSets

CONSTANTS
    Node,           \* the commit peers (GLOBACL_COMMITD_PEERS)
    Quorum,         \* votes and prepares needed (GLOBACL_COMMITD_QUORUM)
    InitialLeader,  \* GLOBACL_COMMITD_INITIAL_LEADER_ID, or None
    MaxTerm,        \* largest term: term + 1 is a checked addition
    None            \* the absent node id

ASSUME ClusterAssumption ==
    /\ IsFiniteSet(Node)
    /\ Cardinality(Node) > 1
    /\ Quorum \in Nat
    /\ 2 * Quorum > Cardinality(Node)
    /\ MaxTerm \in Nat
    /\ None \notin Node
    /\ InitialLeader \in Node \union {None}

VARIABLES
    currentTerm,    \* ConsensusState::current_term
    votedFor,       \* ConsensusState::voted_for
    role,           \* ConsensusState::role
    leaderId,       \* ConsensusState::leader_id
    disk,           \* consensus.state of each node
    task,           \* what the consensus loop thread of each node is doing
    requests,       \* RPC requests that have not been handled
    replies,        \* RPC replies on their way to a caller that waits
    voteLog,        \* history: the votes that reached the disk
    elected         \* history: which node won which term

consensusVars == <<currentTerm, votedFor, role, leaderId, disk>>
electionVars == <<currentTerm, votedFor, role, leaderId, disk, task, requests,
                  replies, voteLog, elected>>

Role == {"Follower", "Candidate", "Leader"}
MaybeNode == Node \union {None}

Request == [type : {"elect", "beat"}, src : Node, dst : Node, term : Nat]
Reply == [type : {"elect", "beat"}, src : Node, dst : Node, term : Nat,
          peerTerm : Nat, yes : BOOLEAN]

Task == [phase : {"idle", "elect", "recover", "beat"}, term : Nat,
         votes : SUBSET Node, todo : SUBSET Node, waiting : MaybeNode]

Idle == [phase |-> "idle", term |-> 0, votes |-> {}, todo |-> {},
         waiting |-> None]

\* The types of the consensus state, of the loop threads and of the network.
TypeOK ==
    /\ currentTerm \in [Node -> Nat]
    /\ votedFor \in [Node -> MaybeNode]
    /\ role \in [Node -> Role]
    /\ leaderId \in [Node -> MaybeNode]
    /\ disk \in [Node -> [term : Nat, vote : MaybeNode]]
    /\ task \in [Node -> Task]
    /\ requests \subseteq Request
    /\ replies \subseteq Reply
    /\ voteLog \subseteq Node \X Nat \X Node
    /\ elected \subseteq Node \X Nat

-----------------------------------------------------------------------------
(* Starting.  load_consensus_state: the term is at least 1, the leader is   *)
(* the configured hint whatever the term on disk is.                        *)

Peers(n) == Node \ {n}

Init ==
    /\ currentTerm = [n \in Node |-> 1]
    /\ votedFor = [n \in Node |-> None]
    /\ role = [n \in Node |-> "Follower"]
    /\ leaderId = [n \in Node |-> InitialLeader]
    /\ disk = [n \in Node |-> [term |-> 0, vote |-> None]]
    /\ task = [n \in Node |-> Idle]
    /\ requests = {}
    /\ replies = {}
    /\ voteLog = {}
    /\ elected = {}

\* A caller that is gone or has its answer reads no other reply.
RepliesToOthers(n) == {r \in replies : r.dst # n}

LoadedTerm(n) == IF disk[n].term = 0 THEN 1 ELSE disk[n].term

\* Slip: the vote is not read back from consensus.state.
RestartForgetsVote(n) ==
    /\ currentTerm' = [currentTerm EXCEPT ![n] = LoadedTerm(n)]
    /\ votedFor' = [votedFor EXCEPT ![n] = None]
    /\ role' = [role EXCEPT ![n] = "Follower"]
    /\ leaderId' = [leaderId EXCEPT ![n] = InitialLeader]
    /\ task' = [task EXCEPT ![n] = Idle]
    /\ replies' = RepliesToOthers(n)
    /\ UNCHANGED <<disk, requests, voteLog, elected>>

\* Slip: the term is not read back either.
RestartForgetsTerm(n) ==
    /\ currentTerm' = [currentTerm EXCEPT ![n] = 1]
    /\ votedFor' = [votedFor EXCEPT ![n] = None]
    /\ role' = [role EXCEPT ![n] = "Follower"]
    /\ leaderId' = [leaderId EXCEPT ![n] = InitialLeader]
    /\ task' = [task EXCEPT ![n] = Idle]
    /\ replies' = RepliesToOthers(n)
    /\ UNCHANGED <<disk, requests, voteLog, elected>>

\* Node n crashes and starts again: what is not in consensus.state is lost,
\* and so is every reply to a call it was waiting for.
Restart(n) ==
    /\ currentTerm' = [currentTerm EXCEPT ![n] = LoadedTerm(n)]
    /\ votedFor' = [votedFor EXCEPT ![n] = disk[n].vote]
    /\ role' = [role EXCEPT ![n] = "Follower"]
    /\ leaderId' = [leaderId EXCEPT ![n] = InitialLeader]
    /\ task' = [task EXCEPT ![n] = Idle]
    /\ replies' = RepliesToOthers(n)
    /\ UNCHANGED <<disk, requests, voteLog, elected>>

-----------------------------------------------------------------------------
(* The consensus state of node n takes new values; on ok they are on disk.  *)

Install(n, term, vote, rl, leader) ==
    /\ currentTerm' = [currentTerm EXCEPT ![n] = term]
    /\ votedFor' = [votedFor EXCEPT ![n] = vote]
    /\ role' = [role EXCEPT ![n] = rl]
    /\ leaderId' = [leaderId EXCEPT ![n] = leader]

Persist(n, term, vote, ok) ==
    disk' = IF ok THEN [disk EXCEPT ![n] = [term |-> term, vote |-> vote]]
                  ELSE disk

StepDownToTerm(n, term, ok) ==
    LET newer == term > currentTerm[n]
        newTerm == IF newer THEN term ELSE currentTerm[n]
        newVote == IF newer THEN None ELSE votedFor[n]
    IN  /\ Install(n, newTerm, newVote, "Follower", None)
        /\ Persist(n, newTerm, newVote, ok)

-----------------------------------------------------------------------------
(* The consensus loop of a follower or candidate: start_election.           *)

\* Slip: the candidate stands again in its current term.
StartElectionSameTerm(n, ok) ==
    /\ task[n].phase = "idle"
    /\ role[n] # "Leader"
    /\ Install(n, currentTerm[n], n, "Candidate", None)
    /\ Persist(n, currentTerm[n], n, ok)
    /\ IF ok
       THEN /\ task' = [task EXCEPT ![n] =
                          [phase |-> "elect", term |-> currentTerm[n],
                           votes |-> {n}, todo |-> Peers(n), waiting |-> None]]
            /\ voteLog' = voteLog \union {<<n, currentTerm[n], n>>}
       ELSE UNCHANGED <<task, voteLog>>
    /\ UNCHANGED <<requests, replies, elected>>

StartElection(n, ok) ==
    LET term == currentTerm[n] + 1 IN
    /\ task[n].phase = "idle"
    /\ role[n] # "Leader"
    /\ term <= MaxTerm
    /\ Install(n, term, n, "Candidate", None)
    /\ Persist(n, term, n, ok)
    /\ IF ok
       THEN /\ task' = [task EXCEPT ![n] =
                          [phase |-> "elect", term |-> term, votes |-> {n},
                           todo |-> Peers(n), waiting |-> None]]
            /\ voteLog' = voteLog \union {<<n, term, n>>}
       ELSE UNCHANGED <<task, voteLog>>
    /\ UNCHANGED <<requests, replies, elected>>

\* The loop thread posts the next vote request or heartbeat of its round; the
\* request has the type of the phase.
SendRpc(n, p) ==
    /\ task[n].phase \in {"elect", "beat"}
    /\ task[n].waiting = None
    /\ p \in task[n].todo
    /\ task' = [task EXCEPT ![n].todo = @ \ {p}, ![n].waiting = p]
    /\ requests' = requests \union
                     {[type |-> task[n].phase, src |-> n, dst |-> p,
                       term |-> task[n].term]}
    /\ UNCHANGED <<currentTerm, votedFor, role, leaderId, disk, replies,
                   voteLog, elected>>

\* The call ends without a usable answer: connection failure, read timeout,
\* or an HTTP error status.  The request may still be handled later.
RpcFails(n) ==
    /\ task[n].waiting # None
    /\ task' = [task EXCEPT ![n].waiting = None]
    /\ replies' = RepliesToOthers(n)
    /\ UNCHANGED <<currentTerm, votedFor, role, leaderId, disk, requests,
                   voteLog, elected>>

\* The caller of m still waits for its answer.
Awaited(m) ==
    /\ task[m.src].waiting = m.dst
    /\ task[m.src].term = m.term
    /\ task[m.src].phase = m.type

Answer(m, term, yes) ==
    replies' = IF Awaited(m)
               THEN replies \union
                      {[type |-> m.type, src |-> m.dst, dst |-> m.src,
                        term |-> m.term, peerTerm |-> term, yes |-> yes]}
               ELSE replies

\* Slip: voted_for is not looked at.
HandleRequestVoteTwice(m, upToDate, ok) ==
    LET v == m.dst
        newer == m.term > currentTerm[v]
        term == IF newer THEN m.term ELSE currentTerm[v]
        leader == IF newer THEN None ELSE leaderId[v]
        canVote == m.term = term /\ upToDate /\ leader \in {None, m.src}
        newVote == IF canVote THEN m.src ELSE IF newer THEN None ELSE votedFor[v]
    IN  /\ m.type = "elect"
        /\ requests' = requests \ {m}
        /\ Install(v, term, newVote,
                   IF newer \/ canVote THEN "Follower" ELSE role[v],
                   IF canVote THEN None ELSE leader)
        /\ Persist(v, term, newVote, m.term >= term /\ ok)
        /\ voteLog' = IF canVote /\ ok
                      THEN voteLog \union {<<v, m.term, m.src>>}
                      ELSE voteLog
        /\ IF m.term >= term => ok
           THEN Answer(m, term, canVote)
           ELSE UNCHANGED replies
        /\ UNCHANGED <<task, elected>>

\* handle_request_vote.  upToDate is the outcome of comparing the candidate's
\* watermarks with the local ones, which Replication defines.
HandleRequestVote(m, upToDate, ok) ==
    LET v == m.dst
        newer == m.term > currentTerm[v]
        term == IF newer THEN m.term ELSE currentTerm[v]
        vote == IF newer THEN None ELSE votedFor[v]
        leader == IF newer THEN None ELSE leaderId[v]
        canVote == /\ m.term = term
                   /\ upToDate
                   /\ leader \in {None, m.src}
                   /\ vote \in {None, m.src}
        persists == m.term >= term
        newVote == IF canVote THEN m.src ELSE vote
    IN  /\ m.type = "elect"
        /\ requests' = requests \ {m}
        /\ Install(v, term, newVote,
                   IF newer \/ canVote THEN "Follower" ELSE role[v],
                   IF canVote THEN None ELSE leader)
        /\ Persist(v, term, newVote, persists /\ ok)
        /\ voteLog' = IF canVote /\ ok
                      THEN voteLog \union {<<v, m.term, m.src>>}
                      ELSE voteLog
        /\ IF persists => ok
           THEN Answer(m, term, canVote)
           ELSE UNCHANGED replies
        /\ UNCHANGED <<task, elected>>

\* Slip: every answer counts as a vote.
ReceiveVoteReplyBlindly(r, ok) ==
    /\ r.type = "elect"
    /\ replies' = RepliesToOthers(r.dst)
    /\ IF r.peerTerm > r.term
       THEN /\ StepDownToTerm(r.dst, r.peerTerm, ok)
            /\ task' = [task EXCEPT ![r.dst] = Idle]
       ELSE /\ task' = [task EXCEPT ![r.dst].waiting = None,
                                     ![r.dst].votes = @ \union {r.src}]
            /\ UNCHANGED consensusVars
    /\ UNCHANGED <<requests, voteLog, elected>>

\* start_election reads a vote reply: a newer term ends the election.
ReceiveVoteReply(r, ok) ==
    LET n == r.dst IN
    /\ r.type = "elect"
    /\ replies' = RepliesToOthers(n)
    /\ IF r.peerTerm > r.term
       THEN /\ StepDownToTerm(n, r.peerTerm, ok)
            /\ task' = [task EXCEPT ![n] = Idle]
       ELSE /\ task' = [task EXCEPT
                          ![n].waiting = None,
                          ![n].votes = IF r.yes THEN @ \union {r.src} ELSE @]
            /\ UNCHANGED consensusVars
    /\ UNCHANGED <<requests, voteLog, elected>>

-----------------------------------------------------------------------------
(* The end of start_election, once every peer was asked.                    *)

PollDone(n) ==
    /\ task[n].phase = "elect"
    /\ task[n].todo = {}
    /\ task[n].waiting = None

Wins(n) ==
    /\ Cardinality(task[n].votes) >= Quorum
    /\ currentTerm[n] = task[n].term
    /\ role[n] = "Candidate"

\* The role changes before the state is persisted: when that fails, the node
\* is a leader, its thread leaves start_election and skips the recovery.
BecomeLeader(n, ok) ==
    /\ PollDone(n)
    /\ Wins(n)
    /\ Install(n, currentTerm[n], votedFor[n], "Leader", n)
    /\ Persist(n, currentTerm[n], votedFor[n], ok)
    /\ task' = [task EXCEPT ![n] = IF ok THEN [Idle EXCEPT !.phase = "recover",
                                                           !.term = currentTerm[n]]
                                         ELSE Idle]
    /\ elected' = elected \union {<<n, currentTerm[n]>>}
    /\ UNCHANGED <<requests, replies, voteLog>>

LoseElection(n) ==
    /\ PollDone(n)
    /\ ~Wins(n)
    /\ task' = [task EXCEPT ![n] = Idle]
    /\ UNCHANGED <<currentTerm, votedFor, role, leaderId, disk, requests,
                   replies, voteLog, elected>>

\* recover_pending_mutations_as_leader returned an error.
RecoveryFails(n, ok) ==
    /\ task[n].phase = "recover"
    /\ StepDownToTerm(n, task[n].term, ok)
    /\ task' = [task EXCEPT ![n] = Idle]
    /\ UNCHANGED <<requests, replies, voteLog, elected>>

-----------------------------------------------------------------------------
(* Heartbeats: after a recovery, and on every turn of a leader's loop.      *)

BeginRound(n) ==
    task' = [task EXCEPT ![n] =
               IF role[n] = "Leader"
               THEN [phase |-> "beat", term |-> currentTerm[n], votes |-> {},
                     todo |-> Peers(n), waiting |-> None]
               ELSE Idle]

SendHeartbeats(n) ==
    /\ task[n].phase = "idle"
    /\ role[n] = "Leader"
    /\ BeginRound(n)
    /\ UNCHANGED <<currentTerm, votedFor, role, leaderId, disk, requests,
                   replies, voteLog, elected>>

RecoveryDone(n) ==
    /\ task[n].phase = "recover"
    /\ BeginRound(n)
    /\ UNCHANGED <<currentTerm, votedFor, role, leaderId, disk, requests,
                   replies, voteLog, elected>>

HandleHeartbeat(m, ok) ==
    LET v == m.dst
        newer == m.term > currentTerm[v]
        accepted == \/ newer
                    \/ m.term = currentTerm[v] /\ leaderId[v] \in {None, m.src}
        term == IF newer THEN m.term ELSE currentTerm[v]
        vote == IF newer THEN None ELSE votedFor[v]
    IN  /\ m.type = "beat"
        /\ requests' = requests \ {m}
        /\ IF accepted
           THEN Install(v, term, vote, "Follower", m.src)
           ELSE UNCHANGED <<currentTerm, votedFor, role, leaderId>>
        /\ Persist(v, term, vote, accepted /\ ok)
        /\ IF accepted => ok
           THEN Answer(m, term, accepted)
           ELSE UNCHANGED replies
        /\ UNCHANGED <<task, voteLog, elected>>

\* Slip: the term in the answer to a heartbeat is ignored.
ReceiveHeartbeatReplyDeaf(r, ok) ==
    /\ r.type = "beat"
    /\ replies' = RepliesToOthers(r.dst)
    /\ task' = [task EXCEPT ![r.dst].waiting = None]
    /\ UNCHANGED <<currentTerm, votedFor, role, leaderId, disk, requests,
                   voteLog, elected>>

ReceiveHeartbeatReply(r, ok) ==
    LET n == r.dst IN
    /\ r.type = "beat"
    /\ replies' = RepliesToOthers(n)
    /\ IF r.peerTerm > r.term
       THEN /\ StepDownToTerm(n, r.peerTerm, ok)
            /\ task' = [task EXCEPT ![n] = Idle]
       ELSE /\ task' = [task EXCEPT ![n].waiting = None]
            /\ UNCHANGED consensusVars
    /\ UNCHANGED <<requests, voteLog, elected>>

RoundDone(n) ==
    /\ task[n].phase = "beat"
    /\ task[n].todo = {}
    /\ task[n].waiting = None
    /\ task' = [task EXCEPT ![n] = Idle]
    /\ UNCHANGED <<currentTerm, votedFor, role, leaderId, disk, requests,
                   replies, voteLog, elected>>

-----------------------------------------------------------------------------
(* Fencing by replicated mutations: ensure_replication_leader followed by   *)
(* ensure_mutation_term.  Node v is about to prepare, commit or abort a     *)
(* mutation with epoch term that it got from node l.  The second check can  *)
(* only reject, when the term rose in between, which leaves the state that  *)
(* the first one wrote.                                                     *)

FenceAdmits(v, l, term) ==
    /\ l # v
    /\ term >= currentTerm[v]
    /\ term = currentTerm[v] => leaderId[v] \in {None, l}

AcceptReplication(v, l, term, ok) ==
    LET vote == IF term > currentTerm[v] THEN None ELSE votedFor[v] IN
    /\ FenceAdmits(v, l, term)
    /\ Install(v, term, vote, "Follower", l)
    /\ Persist(v, term, vote, ok)
    /\ UNCHANGED <<task, requests, replies, voteLog, elected>>

-----------------------------------------------------------------------------

\* A mutation's epoch is the term of a leader; the node it is fetched from
\* may be another one.
ReplicationContact(v) ==
    \E l \in Node, e \in elected, ok \in BOOLEAN :
        AcceptReplication(v, l, e[2], ok)

NodeNext(n) ==
    \/ Restart(n)
    \/ \E ok \in BOOLEAN : StartElection(n, ok)
    \/ \E p \in Node : SendRpc(n, p)
    \/ RpcFails(n)
    \/ \E ok \in BOOLEAN : BecomeLeader(n, ok)
    \/ LoseElection(n)
    \/ \E ok \in BOOLEAN : RecoveryFails(n, ok)
    \/ RecoveryDone(n)
    \/ SendHeartbeats(n)
    \/ RoundDone(n)
    \/ ReplicationContact(n)

NetworkNext ==
    \/ \E m \in requests, upToDate \in BOOLEAN, ok \in BOOLEAN :
          HandleRequestVote(m, upToDate, ok)
    \/ \E m \in requests, ok \in BOOLEAN : HandleHeartbeat(m, ok)
    \/ \E r \in replies, ok \in BOOLEAN : ReceiveVoteReply(r, ok)
    \/ \E r \in replies, ok \in BOOLEAN : ReceiveHeartbeatReply(r, ok)

ElectionNext == (\E n \in Node : NodeNext(n)) \/ NetworkNext

ElectionSpec == Init /\ [][ElectionNext]_electionVars

-----------------------------------------------------------------------------
(* Safety.                                                                  *)

\* A node never records votes for two candidates in one term, across crashes
\* and failed writes of consensus.state (voted_for in handle_request_vote and
\* start_election, reloaded by load_consensus_state).
OneVotePerTerm ==
    \A x, y \in voteLog : x[1] = y[1] /\ x[2] = y[2] => x[3] = y[3]

\* No term ever has two leaders, at the same moment or one after the other
\* (the majority election of start_election).
ElectionSafety ==
    \A x, y \in elected : x[2] = y[2] => x[1] = y[1]

\* A node that lost the leadership of a term, by stepping down or by a crash,
\* does not get it back in that term: start_election always asks for votes in
\* a new one.
NoSecondReign ==
    [][\A n \in Node : role[n] # "Leader" /\ role'[n] = "Leader"
                         => <<n, currentTerm'[n]>> \notin elected]_electionVars
-----------------------------------------------------------------------------
(* The inductive invariant behind the safety properties.                    *)

\* A recorded vote is on the voter's disk until a newer term replaces it, and
\* the state in memory agrees with the one on disk about the newest vote.
VotesKept ==
    /\ \A n \in Node : disk[n].term <= currentTerm[n]
    /\ \A x \in voteLog :
          /\ x[2] <= disk[x[1]].term
          /\ x[2] = disk[x[1]].term => disk[x[1]].vote = x[3]
          /\ x[2] = currentTerm[x[1]] => votedFor[x[1]] = x[3]

\* What a candidate counts, or is about to be told, are recorded votes.
CountedVotes ==
    /\ \A n \in Node : task[n].phase = "elect" =>
          n \in task[n].votes /\ \A v \in task[n].votes : <<v, task[n].term, n>> \in voteLog
    /\ \A r \in replies : r.type = "elect" /\ r.yes => <<r.src, r.term, r.dst>> \in voteLog

\* A reply answers the call its receiver is waiting for.
RepliesAwaited ==
    \A r \in replies : /\ task[r.dst].phase = r.type
                       /\ task[r.dst].term = r.term
                       /\ task[r.dst].waiting = r.src

\* A leader was elected by a quorum of recorded votes, in a term that is on
\* its disk, and is not a candidate of that term any more.
QuorumElected ==
    \A e \in elected :
        /\ \E Q \in SUBSET Node : /\ Cardinality(Q) >= Quorum
                                 /\ \A v \in Q : <<v, e[2], e[1]>> \in voteLog
        /\ e[2] <= disk[e[1]].term
        /\ e[2] = currentTerm[e[1]] => role[e[1]] # "Candidate"

\* The part of the state that keeps the votes of a term apart.
ElectionInv ==
    /\ TypeOK
    /\ VotesKept
    /\ CountedVotes
    /\ RepliesAwaited
    /\ QuorumElected
    /\ OneVotePerTerm

-----------------------------------------------------------------------------
(* Liveness.  The loop thread never blocks for good, because every RPC has  *)
(* a read timeout.  A link that is tried again and again delivers a         *)
(* heartbeat, and its answer, in time for the waiting leader once it is     *)
(* healed.  Nothing is assumed of elections, votes, crashes or disks.       *)

LoopStep(n) ==
    \/ \E p \in Node : SendRpc(n, p)
    \/ RpcFails(n)
    \/ \E ok \in BOOLEAN : BecomeLeader(n, ok)
    \/ LoseElection(n)
    \/ \E ok \in BOOLEAN : RecoveryFails(n, ok)
    \/ RecoveryDone(n)
    \/ SendHeartbeats(n)
    \/ RoundDone(n)

HeartbeatHandled(n, p) ==
    \E m \in requests, ok \in BOOLEAN :
        m.src = n /\ m.dst = p /\ Awaited(m) /\ HandleHeartbeat(m, ok)

HeartbeatAnswered(n, p) ==
    \E r \in replies, ok \in BOOLEAN :
        r.dst = n /\ r.src = p /\ ReceiveHeartbeatReply(r, ok)

Fairness ==
    \A n \in Node :
        /\ WF_electionVars(LoopStep(n))
        /\ \A p \in Peers(n) : /\ SF_electionVars(HeartbeatHandled(n, p))
                               /\ SF_electionVars(HeartbeatAnswered(n, p))

FairElectionSpec == ElectionSpec /\ Fairness

\* A leader does not outlive its term: once a peer has a newer term on disk,
\* the answers to the heartbeats make the old leader step down, whatever
\* elections, crashes and disk errors happen meanwhile (send_heartbeats).
StaleLeaderStepsDown ==
    \A n \in Node :
        (role[n] = "Leader" /\ \E p \in Node : disk[p].term > currentTerm[n])
            ~> role[n] # "Leader"
=============================================================================
