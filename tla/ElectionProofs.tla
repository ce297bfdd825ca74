--------------------------- MODULE ElectionProofs ---------------------------
(***************************************************************************)
(* Proofs about Election: one vote per node and term, one leader per term, *)
(* and no second reign, for any number of peers, any quorum that is a      *)
(* majority and any largest term.                                          *)
(***************************************************************************)
EXTENDS Election, FiniteSetTheorems, TLAPS

(***************************************************************************)
(* Type correctness.                                                       *)
(***************************************************************************)

\* The initial state is well typed.
LEMMA InitTypeOK == Init => TypeOK
  BY ClusterAssumption DEF Init, TypeOK, Role, MaybeNode, Task, Idle

\* A consensus state of the right type, installed and persisted, keeps the
\* types of the five consensus variables.
LEMMA InstallType ==
  ASSUME TypeOK, NEW n \in Node, NEW term \in Nat, NEW vote \in MaybeNode,
         NEW rl \in Role, NEW leader \in MaybeNode, NEW ok \in BOOLEAN,
         Install(n, term, vote, rl, leader), Persist(n, term, vote, ok)
  PROVE  /\ currentTerm' \in [Node -> Nat]
         /\ votedFor' \in [Node -> MaybeNode]
         /\ role' \in [Node -> Role]
         /\ leaderId' \in [Node -> MaybeNode]
         /\ disk' \in [Node -> [term : Nat, vote : MaybeNode]]
  BY DEF TypeOK, Install, Persist

\* step_down_to_term writes a well-typed consensus state.
LEMMA StepDownType ==
  ASSUME TypeOK, NEW n \in Node, NEW term \in Nat, NEW ok \in BOOLEAN,
         StepDownToTerm(n, term, ok)
  PROVE  /\ currentTerm' \in [Node -> Nat]
         /\ votedFor' \in [Node -> MaybeNode]
         /\ role' \in [Node -> Role]
         /\ leaderId' \in [Node -> MaybeNode]
         /\ disk' \in [Node -> [term : Nat, vote : MaybeNode]]
<1> DEFINE newer == term > currentTerm[n]
           newTerm == IF newer THEN term ELSE currentTerm[n]
           newVote == IF newer THEN None ELSE votedFor[n]
<1>1. newTerm \in Nat /\ newVote \in MaybeNode
  BY DEF TypeOK, MaybeNode
<1>2. "Follower" \in Role /\ None \in MaybeNode
  BY DEF Role, MaybeNode
<1>3. Install(n, newTerm, newVote, "Follower", None) /\ Persist(n, newTerm, newVote, ok)
  BY DEF StepDownToTerm
<1> HIDE DEF newTerm, newVote
<1> QED BY <1>1, <1>2, <1>3, InstallType

\* An answer is a well-typed reply.
LEMMA AnswerType ==
  ASSUME TypeOK, NEW m \in requests, NEW term \in Nat, NEW yes \in BOOLEAN,
         Answer(m, term, yes)
  PROVE  replies' \subseteq Reply
  BY DEF TypeOK, Answer, Request, Reply

\* Every step of the election keeps the state well typed.
LEMMA NextTypeOK == TypeOK /\ [ElectionNext]_electionVars => TypeOK'
<1> SUFFICES ASSUME TypeOK, [ElectionNext]_electionVars
             PROVE  TypeOK'
  OBVIOUS
<1> USE DEF Role, MaybeNode
<1>1. ASSUME NEW n \in Node, Restart(n)
      PROVE  TypeOK'
  BY <1>1, ClusterAssumption DEF TypeOK, Restart, LoadedTerm, RepliesToOthers, Idle, Task
<1>2. ASSUME NEW n \in Node, NEW ok \in BOOLEAN, StartElection(n, ok)
      PROVE  TypeOK'
  <2> DEFINE term == currentTerm[n] + 1
  <2>1. term \in Nat
    BY DEF TypeOK
  <2>2. /\ Install(n, term, n, "Candidate", None)
        /\ Persist(n, term, n, ok)
    BY <1>2 DEF StartElection
  <2>3. /\ currentTerm' \in [Node -> Nat]
        /\ votedFor' \in [Node -> MaybeNode]
        /\ role' \in [Node -> Role]
        /\ leaderId' \in [Node -> MaybeNode]
        /\ disk' \in [Node -> [term : Nat, vote : MaybeNode]]
    BY <2>1, <2>2, InstallType
  <2>4. task' \in [Node -> Task] /\ voteLog' \subseteq Node \X Nat \X Node
    BY <1>2, <2>1 DEF TypeOK, StartElection, Task, Peers
  <2>5. QED
    BY <1>2, <2>3, <2>4 DEF TypeOK, StartElection
<1>3. ASSUME NEW n \in Node, NEW p \in Node, SendRpc(n, p)
      PROVE  TypeOK'
  <2>1. task[n] \in Task
    BY DEF TypeOK
  <2>2. task' \in [Node -> Task]
    BY <1>3, <2>1 DEF TypeOK, SendRpc, Task
  <2>3. requests' \subseteq Request
    BY <1>3, <2>1 DEF TypeOK, SendRpc, Task, Request
  <2>4. QED
    BY <1>3, <2>2, <2>3 DEF TypeOK, SendRpc
<1>4. ASSUME NEW n \in Node, RpcFails(n)
      PROVE  TypeOK'
  BY <1>4 DEF TypeOK, RpcFails, RepliesToOthers, Task
<1>5. ASSUME NEW m \in requests, NEW upToDate \in BOOLEAN, NEW ok \in BOOLEAN,
             HandleRequestVote(m, upToDate, ok)
      PROVE  TypeOK'
  <2> DEFINE v == m.dst
             newer == m.term > currentTerm[v]
             term == IF newer THEN m.term ELSE currentTerm[v]
             vote == IF newer THEN None ELSE votedFor[v]
             leader == IF newer THEN None ELSE leaderId[v]
             canVote == /\ m.term = term
                        /\ upToDate
                        /\ leader \in {None, m.src}
                        /\ vote \in {None, m.src}
             persists == m.term >= term
             newVote == IF canVote THEN m.src ELSE vote
             newRole == IF newer \/ canVote THEN "Follower" ELSE role[v]
             newLeader == IF canVote THEN None ELSE leader
  <2>1. m \in Request
    BY DEF TypeOK
  <2>2. v \in Node /\ m.src \in Node /\ m.term \in Nat
    BY <2>1 DEF Request
  <2>3. /\ term \in Nat /\ newVote \in MaybeNode /\ newRole \in Role
        /\ newLeader \in MaybeNode /\ (persists /\ ok) \in BOOLEAN /\ canVote \in BOOLEAN
    BY <2>2 DEF TypeOK
  <2>4. Install(v, term, newVote, newRole, newLeader) /\ Persist(v, term, newVote, persists /\ ok)
    BY <1>5 DEF HandleRequestVote
  <2>5. requests' \subseteq requests /\ UNCHANGED <<task, elected>>
    BY <1>5 DEF HandleRequestVote
  <2>6. voteLog' \subseteq Node \X Nat \X Node
    BY <1>5, <2>2 DEF HandleRequestVote, TypeOK
  <2>7. Answer(m, term, canVote) \/ UNCHANGED replies
    BY <1>5 DEF HandleRequestVote
  <2> HIDE DEF v, term, newVote, newRole, newLeader, persists, canVote
  <2>8. replies' \subseteq Reply
    BY <2>3, <2>7, AnswerType DEF TypeOK
  <2>9. /\ currentTerm' \in [Node -> Nat]
        /\ votedFor' \in [Node -> MaybeNode]
        /\ role' \in [Node -> Role]
        /\ leaderId' \in [Node -> MaybeNode]
        /\ disk' \in [Node -> [term : Nat, vote : MaybeNode]]
    BY <2>2, <2>3, <2>4, InstallType
  <2>10. QED
    BY <2>5, <2>6, <2>8, <2>9 DEF TypeOK
<1>6. ASSUME NEW r \in replies, NEW ok \in BOOLEAN,
             ReceiveVoteReply(r, ok) \/ ReceiveHeartbeatReply(r, ok)
      PROVE  TypeOK'
  <2>1. r \in Reply
    BY DEF TypeOK
  <2>2. r.dst \in Node /\ r.src \in Node /\ r.peerTerm \in Nat
    BY <2>1 DEF Reply
  <2>3. task' \in [Node -> Task]
    BY <1>6, <2>2 DEF TypeOK, ReceiveVoteReply, ReceiveHeartbeatReply, Task, Idle
  <2>4. StepDownToTerm(r.dst, r.peerTerm, ok) \/ UNCHANGED consensusVars
    BY <1>6 DEF ReceiveVoteReply, ReceiveHeartbeatReply
  <2>5. /\ currentTerm' \in [Node -> Nat]
        /\ votedFor' \in [Node -> MaybeNode]
        /\ role' \in [Node -> Role]
        /\ leaderId' \in [Node -> MaybeNode]
        /\ disk' \in [Node -> [term : Nat, vote : MaybeNode]]
    BY <2>2, <2>4, StepDownType DEF TypeOK, consensusVars
  <2>6. QED
    BY <1>6, <2>3, <2>5 DEF TypeOK, ReceiveVoteReply, ReceiveHeartbeatReply, RepliesToOthers
<1>7. ASSUME NEW n \in Node, NEW ok \in BOOLEAN, BecomeLeader(n, ok)
      PROVE  TypeOK'
  <2>1. /\ currentTerm' \in [Node -> Nat]
        /\ votedFor' \in [Node -> MaybeNode]
        /\ role' \in [Node -> Role]
        /\ leaderId' \in [Node -> MaybeNode]
        /\ disk' \in [Node -> [term : Nat, vote : MaybeNode]]
    BY <1>7 DEF TypeOK, BecomeLeader, Install, Persist
  <2>2. task' \in [Node -> Task]
    BY <1>7 DEF TypeOK, BecomeLeader, Task, Idle
  <2>3. QED
    BY <1>7, <2>1, <2>2 DEF TypeOK, BecomeLeader
<1>8. ASSUME NEW n \in Node, NEW ok \in BOOLEAN, RecoveryFails(n, ok)
      PROVE  TypeOK'
  <2>1. task[n].term \in Nat
    BY DEF TypeOK, Task
  <2>2. StepDownToTerm(n, task[n].term, ok)
    BY <1>8 DEF RecoveryFails
  <2>3. /\ currentTerm' \in [Node -> Nat]
        /\ votedFor' \in [Node -> MaybeNode]
        /\ role' \in [Node -> Role]
        /\ leaderId' \in [Node -> MaybeNode]
        /\ disk' \in [Node -> [term : Nat, vote : MaybeNode]]
    BY <2>1, <2>2, StepDownType
  <2>4. QED
    BY <1>8, <2>3 DEF TypeOK, RecoveryFails, Task, Idle
<1>9. ASSUME NEW n \in Node,
             LoseElection(n) \/ RecoveryDone(n) \/ SendHeartbeats(n) \/ RoundDone(n)
      PROVE  TypeOK'
  BY <1>9 DEF TypeOK, LoseElection, RecoveryDone, SendHeartbeats, RoundDone, BeginRound,
              Task, Idle, Peers
<1>10. ASSUME NEW m \in requests, NEW ok \in BOOLEAN, HandleHeartbeat(m, ok)
       PROVE  TypeOK'
  <2> DEFINE v == m.dst
             newer == m.term > currentTerm[v]
             accepted == \/ newer
                         \/ m.term = currentTerm[v] /\ leaderId[v] \in {None, m.src}
             term == IF newer THEN m.term ELSE currentTerm[v]
             vote == IF newer THEN None ELSE votedFor[v]
  <2>1. m \in Request
    BY DEF TypeOK
  <2>2. v \in Node /\ m.src \in Node /\ m.term \in Nat
    BY <2>1 DEF Request
  <2>3. term \in Nat /\ vote \in MaybeNode /\ (accepted /\ ok) \in BOOLEAN /\ accepted \in BOOLEAN
    BY <2>2 DEF TypeOK
  <2>4. /\ Install(v, term, vote, "Follower", m.src) \/ UNCHANGED <<currentTerm, votedFor, role, leaderId>>
        /\ Persist(v, term, vote, accepted /\ ok)
        /\ Answer(m, term, accepted) \/ UNCHANGED replies
        /\ requests' \subseteq requests
        /\ UNCHANGED <<task, voteLog, elected>>
    BY <1>10 DEF HandleHeartbeat
  <2> HIDE DEF v, term, vote, accepted
  <2>5. replies' \subseteq Reply
    BY <2>3, <2>4, AnswerType DEF TypeOK
  <2>6. /\ currentTerm' \in [Node -> Nat]
        /\ votedFor' \in [Node -> MaybeNode]
        /\ role' \in [Node -> Role]
        /\ leaderId' \in [Node -> MaybeNode]
        /\ disk' \in [Node -> [term : Nat, vote : MaybeNode]]
    BY <2>2, <2>3, <2>4 DEF TypeOK, Install, Persist
  <2>7. QED
    BY <2>4, <2>5, <2>6 DEF TypeOK
<1>11. ASSUME NEW v \in Node, ReplicationContact(v)
       PROVE  TypeOK'
  <2>1. PICK l \in Node, e \in elected, ok \in BOOLEAN : AcceptReplication(v, l, e[2], ok)
    BY <1>11 DEF ReplicationContact
  <2>2. e[2] \in Nat
    BY DEF TypeOK
  <2>3. QED
    BY <2>1, <2>2 DEF TypeOK, AcceptReplication, Install, Persist
<1>12. CASE UNCHANGED electionVars
  BY <1>12 DEF TypeOK, electionVars
<1>13. QED
  BY <1>1, <1>2, <1>3, <1>4, <1>5, <1>6, <1>7, <1>8, <1>9, <1>10, <1>11, <1>12
     DEF ElectionNext, NodeNext, NetworkNext

\* The consensus state, the loop threads and the network are always well typed.
THEOREM ElectionTypeOK == ElectionSpec => []TypeOK
  BY InitTypeOK, NextTypeOK, PTL DEF ElectionSpec
(***************************************************************************)
(* How the consensus state of a node may move: to a later term, or within  *)
(* its term without changing a vote and without becoming a candidate again.*)
(***************************************************************************)

\* Node n installs and persists a later or compatible consensus state.
Advance(n, term, vote, rl, ok) ==
    /\ \E leader \in MaybeNode : Install(n, term, vote, rl, leader)
    /\ Persist(n, term, vote, ok)
    /\ term >= currentTerm[n]
    /\ term = currentTerm[n] => /\ votedFor[n] \in {None, vote}
                                /\ rl = "Candidate" => role[n] = "Candidate"

\* What Advance does to the variables the invariant speaks of.
LEMMA AdvanceEffect ==
  ASSUME TypeOK, NEW n \in Node, NEW term \in Nat, NEW vote \in MaybeNode,
         NEW rl \in Role, NEW ok \in BOOLEAN, Advance(n, term, vote, rl, ok)
  PROVE  /\ currentTerm' = [currentTerm EXCEPT ![n] = term]
         /\ votedFor' = [votedFor EXCEPT ![n] = vote]
         /\ role' = [role EXCEPT ![n] = rl]
         /\ \A p \in Node : p # n => disk'[p] = disk[p]
         /\ ok => disk'[n].term = term /\ disk'[n].vote = vote
         /\ ~ok => disk'[n] = disk[n]
  BY DEF TypeOK, Advance, Install, Persist

\* Advancing keeps the votes apart, also when the new state records a vote.
LEMMA AdvanceKeepsVotes ==
  ASSUME TypeOK, VotesKept, OneVotePerTerm,
         NEW n \in Node, NEW term \in Nat, NEW vote \in MaybeNode,
         NEW rl \in Role, NEW ok \in BOOLEAN, Advance(n, term, vote, rl, ok),
         \/ voteLog' = voteLog
         \/ ok /\ vote \in Node /\ voteLog' = voteLog \union {<<n, term, vote>>}
  PROVE  VotesKept' /\ OneVotePerTerm'
<1> DEFINE new == <<n, term, vote>>
<1>1. /\ currentTerm' = [currentTerm EXCEPT ![n] = term]
      /\ votedFor' = [votedFor EXCEPT ![n] = vote]
      /\ \A p \in Node : p # n => disk'[p] = disk[p]
      /\ ok => disk'[n].term = term /\ disk'[n].vote = vote
      /\ ~ok => disk'[n] = disk[n]
      /\ term >= currentTerm[n]
      /\ term = currentTerm[n] => votedFor[n] \in {None, vote}
  BY AdvanceEffect DEF Advance
<1>2. \A x \in voteLog : x[1] \in Node /\ x[2] \in Nat /\ x[3] \in Node
  BY DEF TypeOK
<1>3. \A p \in Node : currentTerm[p] \in Nat /\ disk[p].term \in Nat
  BY DEF TypeOK
<1>4. \A p \in Node : disk'[p].term <= currentTerm'[p]
  BY <1>1, <1>3 DEF VotesKept, TypeOK
<1>5. ASSUME NEW x \in voteLog
      PROVE  /\ x[2] <= disk'[x[1]].term
             /\ x[2] = disk'[x[1]].term => disk'[x[1]].vote = x[3]
             /\ x[2] = currentTerm'[x[1]] => votedFor'[x[1]] = x[3]
  <2>1. /\ x[2] <= disk[x[1]].term
        /\ x[2] = disk[x[1]].term => disk[x[1]].vote = x[3]
        /\ x[2] = currentTerm[x[1]] => votedFor[x[1]] = x[3]
        /\ disk[x[1]].term <= currentTerm[x[1]]
    BY <1>2 DEF VotesKept
  <2>2. CASE x[1] # n
    BY <1>1, <1>2, <2>1, <2>2 DEF TypeOK
  <2>3. CASE x[1] = n
    <3>1. x[2] <= currentTerm[n] /\ currentTerm[n] <= term
      BY <1>1, <1>2, <1>3, <2>1, <2>3
    <3>2. x[2] = term => votedFor[n] = x[3] /\ term = currentTerm[n]
      BY <1>2, <1>3, <2>1, <2>3, <3>1
    <3>3. x[2] = term => vote = x[3]
      BY <1>1, <1>2, <3>2, ClusterAssumption
    <3>4. currentTerm'[n] = term /\ votedFor'[n] = vote
      BY <1>1 DEF TypeOK
    <3>5. QED
      BY <1>1, <1>2, <1>3, <2>1, <2>3, <3>1, <3>3, <3>4
  <2>4. QED
    BY <2>2, <2>3
<1>6. ASSUME voteLog' = voteLog \union {new}, ok, vote \in Node, NEW x \in voteLog,
             x[1] = n, x[2] = term
      PROVE  x[3] = vote
  <2>1. term = currentTerm[n] /\ votedFor[n] = x[3]
    BY <1>1, <1>2, <1>3, <1>6 DEF VotesKept
  <2>2. QED
    BY <1>1, <1>2, <1>6, <2>1, ClusterAssumption
<1>7. VotesKept'
  <2>1. ASSUME voteLog' = voteLog \union {new}, ok
        PROVE  /\ new[2] <= disk'[new[1]].term
               /\ new[2] = disk'[new[1]].term => disk'[new[1]].vote = new[3]
               /\ new[2] = currentTerm'[new[1]] => votedFor'[new[1]] = new[3]
    BY <1>1, <2>1 DEF TypeOK
  <2>2. QED
    BY <1>4, <1>5, <2>1 DEF VotesKept
<1>8. OneVotePerTerm'
  <2>1. CASE voteLog' = voteLog
    BY <2>1 DEF OneVotePerTerm
  <2>2. CASE ok /\ vote \in Node /\ voteLog' = voteLog \union {new}
    BY <1>6, <2>2 DEF OneVotePerTerm
  <2>3. QED
    BY <2>1, <2>2
<1>9. QED
  BY <1>7, <1>8

\* Advancing takes nothing away from the leaders that were elected.
LEMMA AdvanceKeepsLeaders ==
  ASSUME TypeOK, VotesKept, QuorumElected,
         NEW n \in Node, NEW term \in Nat, NEW vote \in MaybeNode,
         NEW rl \in Role, NEW ok \in BOOLEAN, Advance(n, term, vote, rl, ok),
         voteLog \subseteq voteLog', elected' = elected
  PROVE  QuorumElected'
<1>1. /\ currentTerm' = [currentTerm EXCEPT ![n] = term]
      /\ role' = [role EXCEPT ![n] = rl]
      /\ \A p \in Node : p # n => disk'[p] = disk[p]
      /\ ok => disk'[n].term = term
      /\ ~ok => disk'[n] = disk[n]
      /\ term >= currentTerm[n]
      /\ term = currentTerm[n] => (rl = "Candidate" => role[n] = "Candidate")
  BY AdvanceEffect DEF Advance
<1>2. SUFFICES ASSUME NEW e \in elected
               PROVE  /\ \E Q \in SUBSET Node : /\ Cardinality(Q) >= Quorum
                                                /\ \A v \in Q : <<v, e[2], e[1]>> \in voteLog'
                      /\ e[2] <= disk'[e[1]].term
                      /\ e[2] = currentTerm'[e[1]] => role'[e[1]] # "Candidate"
  BY DEF QuorumElected
<1>3. e[1] \in Node /\ e[2] \in Nat
  BY DEF TypeOK
<1>4. /\ \E Q \in SUBSET Node : /\ Cardinality(Q) >= Quorum
                                /\ \A v \in Q : <<v, e[2], e[1]>> \in voteLog
      /\ e[2] <= disk[e[1]].term
      /\ e[2] = currentTerm[e[1]] => role[e[1]] # "Candidate"
      /\ disk[e[1]].term <= currentTerm[e[1]]
  BY <1>3 DEF QuorumElected, VotesKept
<1>5. disk[e[1]].term \in Nat /\ currentTerm[e[1]] \in Nat
  BY <1>3 DEF TypeOK
<1>6. \E Q \in SUBSET Node : /\ Cardinality(Q) >= Quorum
                             /\ \A v \in Q : <<v, e[2], e[1]>> \in voteLog'
  BY <1>4
<1>7. e[2] <= disk'[e[1]].term
  BY <1>1, <1>3, <1>4, <1>5
<1>8. e[2] = currentTerm'[e[1]] => role'[e[1]] # "Candidate"
  <2>1. CASE e[1] # n
    <3>1. currentTerm'[e[1]] = currentTerm[e[1]] /\ role'[e[1]] = role[e[1]]
      BY <1>1, <1>3, <2>1 DEF TypeOK
    <3>2. QED
      BY <1>4, <3>1
  <2>2. CASE e[1] = n
    <3>1. currentTerm'[n] = term /\ role'[n] = rl
      BY <1>1 DEF TypeOK
    <3>2. e[2] = term => term = currentTerm[n]
      BY <1>1, <1>3, <1>4, <1>5, <2>2
    <3>3. QED
      BY <1>1, <1>4, <2>2, <3>1, <3>2
  <2>3. QED
    BY <2>1, <2>2
<1>9. QED
  BY <1>6, <1>7, <1>8

\* step_down_to_term advances.
LEMMA StepDownAdvances ==
  ASSUME TypeOK, NEW n \in Node, NEW term \in Nat, NEW ok \in BOOLEAN,
         StepDownToTerm(n, term, ok)
  PROVE  \E newTerm \in Nat, newVote \in MaybeNode :
            Advance(n, newTerm, newVote, "Follower", ok)
<1> DEFINE newer == term > currentTerm[n]
           newTerm == IF newer THEN term ELSE currentTerm[n]
           newVote == IF newer THEN None ELSE votedFor[n]
<1>1. newTerm \in Nat /\ newVote \in MaybeNode /\ None \in MaybeNode
  BY DEF TypeOK, MaybeNode
<1>2. Install(n, newTerm, newVote, "Follower", None) /\ Persist(n, newTerm, newVote, ok)
  BY DEF StepDownToTerm
<1>3. newTerm >= currentTerm[n] /\ (newTerm = currentTerm[n] => votedFor[n] = newVote)
  BY DEF TypeOK
<1> HIDE DEF newTerm, newVote
<1>4. Advance(n, newTerm, newVote, "Follower", ok)
  BY <1>1, <1>2, <1>3 DEF Advance
<1>5. QED
  BY <1>1, <1>4

\* When the consensus state and the history stand still, so do the votes and
\* the leaders.
LEMMA StillKeepsVotes ==
  ASSUME VotesKept, OneVotePerTerm, QuorumElected, UNCHANGED consensusVars,
         UNCHANGED <<voteLog, elected>>
  PROVE  VotesKept' /\ OneVotePerTerm' /\ QuorumElected'
  BY DEF VotesKept, OneVotePerTerm, QuorumElected, consensusVars
(***************************************************************************)
(* The inductive step, one lemma per kind of action.                       *)
(***************************************************************************)

\* A handler that leaves the loop threads alone and answers the caller keeps
\* the counted votes and the awaited replies, if a granted vote is recorded.
LEMMA AnswerKeeps ==
  ASSUME TypeOK, CountedVotes, RepliesAwaited, NEW m \in requests,
         NEW term \in Nat, NEW yes \in BOOLEAN,
         \/ UNCHANGED replies
         \/ /\ Answer(m, term, yes)
            /\ m.type = "elect" /\ yes => <<m.dst, m.term, m.src>> \in voteLog',
         UNCHANGED task, voteLog \subseteq voteLog'
  PROVE  CountedVotes' /\ RepliesAwaited'
<1>1. CASE UNCHANGED replies
  BY <1>1 DEF CountedVotes, RepliesAwaited
<1>2. CASE /\ Answer(m, term, yes)
           /\ m.type = "elect" /\ yes => <<m.dst, m.term, m.src>> \in voteLog'
  <2> DEFINE new == [type |-> m.type, src |-> m.dst, dst |-> m.src,
                     term |-> m.term, peerTerm |-> term, yes |-> yes]
  <2>1. /\ new.type = m.type /\ new.src = m.dst /\ new.dst = m.src
        /\ new.term = m.term /\ new.yes = yes
    OBVIOUS
  <2>2. replies' = replies \/ (Awaited(m) /\ replies' = replies \union {new})
    BY <1>2 DEF Answer
  <2> HIDE DEF new
  <2>3. CountedVotes'
    BY <1>2, <2>1, <2>2 DEF CountedVotes
  <2>4. RepliesAwaited'
    BY <2>1, <2>2 DEF RepliesAwaited, Awaited
  <2>5. QED
    BY <2>3, <2>4
<1>3. QED
  BY <1>1, <1>2

\* A handler that advances the consensus state of one node and answers keeps
\* the whole invariant.
LEMMA HandlerKeeps ==
  ASSUME ElectionInv, TypeOK', NEW m \in requests, NEW v \in Node, NEW term \in Nat,
         NEW vote \in MaybeNode, NEW rl \in Role, NEW ok \in BOOLEAN,
         NEW yes \in BOOLEAN, NEW reported \in Nat,
         Advance(v, term, vote, rl, ok),
         \/ voteLog' = voteLog
         \/ ok /\ vote \in Node /\ voteLog' = voteLog \union {<<v, term, vote>>},
         \/ UNCHANGED replies
         \/ /\ Answer(m, reported, yes)
            /\ m.type = "elect" /\ yes => <<m.dst, m.term, m.src>> \in voteLog',
         UNCHANGED <<task, elected>>
  PROVE  ElectionInv'
<1>1. VotesKept' /\ OneVotePerTerm'
  BY AdvanceKeepsVotes DEF ElectionInv
<1>2. QuorumElected'
  BY AdvanceKeepsLeaders DEF ElectionInv
<1>3. CountedVotes' /\ RepliesAwaited'
  BY AnswerKeeps DEF ElectionInv
<1>4. QED
  BY <1>1, <1>2, <1>3 DEF ElectionInv

\* handle_request_vote keeps the invariant.
LEMMA HandleRequestVoteKeeps ==
  ASSUME ElectionInv, TypeOK', NEW m \in requests, NEW upToDate \in BOOLEAN,
         NEW ok \in BOOLEAN, HandleRequestVote(m, upToDate, ok)
  PROVE  ElectionInv'
<1> DEFINE v == m.dst
           newer == m.term > currentTerm[v]
           term == IF newer THEN m.term ELSE currentTerm[v]
           vote == IF newer THEN None ELSE votedFor[v]
           leader == IF newer THEN None ELSE leaderId[v]
           canVote == /\ m.term = term
                      /\ upToDate
                      /\ leader \in {None, m.src}
                      /\ vote \in {None, m.src}
           persists == m.term >= term
           newVote == IF canVote THEN m.src ELSE vote
           newRole == IF newer \/ canVote THEN "Follower" ELSE role[v]
           newLeader == IF canVote THEN None ELSE leader
<1>1. TypeOK /\ m \in Request
  BY DEF ElectionInv, TypeOK
<1>2. v \in Node /\ m.src \in Node /\ m.term \in Nat
  BY <1>1 DEF Request
<1>3. /\ term \in Nat /\ newVote \in MaybeNode /\ newRole \in Role
      /\ newLeader \in MaybeNode /\ (persists /\ ok) \in BOOLEAN /\ canVote \in BOOLEAN
  BY <1>1, <1>2 DEF TypeOK, MaybeNode, Role
<1>4. Install(v, term, newVote, newRole, newLeader) /\ Persist(v, term, newVote, persists /\ ok)
  BY DEF HandleRequestVote
<1>5. /\ term >= currentTerm[v]
      /\ term = currentTerm[v] => /\ votedFor[v] \in {None, newVote}
                                  /\ newRole = "Candidate" => role[v] = "Candidate"
  BY <1>1, <1>2 DEF TypeOK
<1>6. canVote => persists /\ term = m.term /\ newVote = m.src
  BY <1>2, <1>3
<1>7. /\ voteLog' = IF canVote /\ ok THEN voteLog \union {<<v, m.term, m.src>>} ELSE voteLog
      /\ IF persists => ok THEN Answer(m, term, canVote) ELSE UNCHANGED replies
      /\ UNCHANGED <<task, elected>>
  BY DEF HandleRequestVote
<1> HIDE DEF v, term, newVote, newRole, newLeader, persists, canVote
<1>8. Advance(v, term, newVote, newRole, persists /\ ok)
  BY <1>3, <1>4, <1>5 DEF Advance
<1>9. \/ voteLog' = voteLog
      \/ (persists /\ ok) /\ newVote \in Node /\ voteLog' = voteLog \union {<<v, term, newVote>>}
  BY <1>2, <1>6, <1>7
<1>10. \/ UNCHANGED replies
       \/ /\ Answer(m, term, canVote)
          /\ m.type = "elect" /\ canVote => <<m.dst, m.term, m.src>> \in voteLog'
  BY <1>6, <1>7 DEF v
<1>11. QED
  BY <1>2, <1>3, <1>7, <1>8, <1>9, <1>10, HandlerKeeps

\* handle_heartbeat keeps the invariant.
LEMMA HandleHeartbeatKeeps ==
  ASSUME ElectionInv, TypeOK', NEW m \in requests, NEW ok \in BOOLEAN,
         HandleHeartbeat(m, ok)
  PROVE  ElectionInv'
<1> DEFINE v == m.dst
           newer == m.term > currentTerm[v]
           accepted == \/ newer
                       \/ m.term = currentTerm[v] /\ leaderId[v] \in {None, m.src}
           term == IF newer THEN m.term ELSE currentTerm[v]
           vote == IF newer THEN None ELSE votedFor[v]
<1>1. TypeOK /\ m \in Request
  BY DEF ElectionInv, TypeOK
<1>2. v \in Node /\ m.src \in Node /\ m.term \in Nat
  BY <1>1 DEF Request
<1>3. term \in Nat /\ vote \in MaybeNode /\ accepted \in BOOLEAN /\ "Follower" \in Role
  BY <1>1, <1>2 DEF TypeOK, MaybeNode, Role
<1>4. /\ accepted => Install(v, term, vote, "Follower", m.src)
      /\ ~accepted => UNCHANGED <<currentTerm, votedFor, role, leaderId>>
      /\ Persist(v, term, vote, accepted /\ ok)
      /\ Answer(m, term, accepted) \/ UNCHANGED replies
      /\ UNCHANGED <<task, voteLog, elected>>
      /\ m.type = "beat"
  BY DEF HandleHeartbeat
<1>5. /\ term >= currentTerm[v]
      /\ term = currentTerm[v] => votedFor[v] = vote
  BY <1>1, <1>2 DEF TypeOK
<1> HIDE DEF v, term, vote, accepted
<1>6. \/ UNCHANGED replies
      \/ /\ Answer(m, term, accepted)
         /\ m.type = "elect" /\ accepted => <<m.dst, m.term, m.src>> \in voteLog'
  BY <1>4
<1>7. CASE accepted
  <2>1. Persist(v, term, vote, ok)
    BY <1>4, <1>7
  <2>2. Advance(v, term, vote, "Follower", ok)
    BY <1>2, <1>4, <1>5, <1>7, <2>1 DEF Advance, MaybeNode
  <2>3. QED
    BY <1>2, <1>3, <1>4, <1>6, <2>2, HandlerKeeps
<1>8. CASE ~accepted
  <2>1. UNCHANGED consensusVars
    BY <1>4, <1>8 DEF Persist, consensusVars
  <2>2. VotesKept' /\ OneVotePerTerm' /\ QuorumElected'
    BY <1>4, <2>1, StillKeepsVotes DEF ElectionInv
  <2>3. CountedVotes' /\ RepliesAwaited'
    BY <1>3, <1>4, <1>6, AnswerKeeps DEF ElectionInv
  <2>4. QED
    BY <2>2, <2>3 DEF ElectionInv
<1>9. QED
  BY <1>7, <1>8

\* A fenced replication contact keeps the invariant.
LEMMA AcceptReplicationKeeps ==
  ASSUME ElectionInv, TypeOK', NEW v \in Node, NEW l \in Node, NEW term \in Nat,
         NEW ok \in BOOLEAN, AcceptReplication(v, l, term, ok)
  PROVE  ElectionInv'
<1> DEFINE vote == IF term > currentTerm[v] THEN None ELSE votedFor[v]
<1>1. TypeOK
  BY DEF ElectionInv
<1>2. /\ Install(v, term, vote, "Follower", l) /\ Persist(v, term, vote, ok)
      /\ term >= currentTerm[v]
      /\ UNCHANGED <<task, requests, replies, voteLog, elected>>
  BY DEF AcceptReplication, FenceAdmits
<1>3. vote \in MaybeNode /\ "Follower" \in Role /\ l \in MaybeNode
      /\ (term = currentTerm[v] => votedFor[v] = vote)
  BY <1>1 DEF TypeOK, MaybeNode, Role
<1> HIDE DEF vote
<1>4. Advance(v, term, vote, "Follower", ok)
  BY <1>2, <1>3 DEF Advance
<1>5. VotesKept' /\ OneVotePerTerm'
  BY <1>2, <1>3, <1>4, AdvanceKeepsVotes DEF ElectionInv
<1>6. QuorumElected'
  BY <1>2, <1>3, <1>4, AdvanceKeepsLeaders DEF ElectionInv
<1>7. CountedVotes' /\ RepliesAwaited'
  BY <1>2 DEF ElectionInv, CountedVotes, RepliesAwaited
<1>8. QED
  BY <1>5, <1>6, <1>7 DEF ElectionInv

\* No reply is on its way to a loop thread that is not waiting for one.
LEMMA NoReplyTo ==
  ASSUME TypeOK, RepliesAwaited, NEW n \in Node,
         task[n].waiting = None \/ task[n].phase \notin {"elect", "beat"}
  PROVE  replies = RepliesToOthers(n)
<1>1. SUFFICES ASSUME NEW r \in replies, r.dst = n
               PROVE  FALSE
  BY DEF RepliesToOthers
<1>2. r \in Reply
  BY DEF TypeOK
<1>3. r.src \in Node /\ r.type \in {"elect", "beat"}
  BY <1>2 DEF Reply
<1>4. QED
  BY <1>1, <1>3, ClusterAssumption DEF RepliesAwaited

\* A loop thread that moves on, keeping only recorded votes, leaves the
\* others' votes and replies as they were.
LEMMA TaskKeeps ==
  ASSUME TypeOK, CountedVotes, RepliesAwaited, NEW n \in Node, NEW new \in Task,
         task' = [task EXCEPT ![n] = new], replies' = RepliesToOthers(n),
         voteLog \subseteq voteLog',
         new.phase = "elect" =>
            n \in new.votes /\ \A v \in new.votes : <<v, new.term, n>> \in voteLog'
  PROVE  CountedVotes' /\ RepliesAwaited'
<1>1. task'[n] = new /\ \A p \in Node : p # n => task'[p] = task[p]
  BY DEF TypeOK
<1>2. \A r \in replies' : r \in replies /\ r.dst # n /\ r.dst \in Node
  BY DEF RepliesToOthers, TypeOK, Reply
<1>3. CountedVotes'
  <2>1. ASSUME NEW p \in Node, task'[p].phase = "elect"
        PROVE  p \in task'[p].votes /\ \A v \in task'[p].votes : <<v, task'[p].term, p>> \in voteLog'
    <3>1. CASE p = n
      BY <1>1, <2>1, <3>1
    <3>2. CASE p # n
      BY <1>1, <2>1, <3>2 DEF CountedVotes
    <3>3. QED
      BY <3>1, <3>2
  <2>2. \A r \in replies' : r.type = "elect" /\ r.yes => <<r.src, r.term, r.dst>> \in voteLog'
    BY <1>2 DEF CountedVotes
  <2>3. QED
    BY <2>1, <2>2 DEF CountedVotes
<1>4. RepliesAwaited'
  BY <1>1, <1>2 DEF RepliesAwaited
<1>5. QED
  BY <1>3, <1>4

\* The idle thread is a task that counts no votes.
LEMMA IdleTask == Idle \in Task /\ Idle.phase = "idle"
  BY DEF Idle, Task, MaybeNode

\* A loop step that changes no consensus state and no history keeps the
\* invariant, if its own new task does.
LEMMA QuietStepKeeps ==
  ASSUME ElectionInv, TypeOK', NEW n \in Node, NEW new \in Task,
         task' = [task EXCEPT ![n] = new], replies' = RepliesToOthers(n),
         new.phase = "elect" =>
            n \in new.votes /\ \A v \in new.votes : <<v, new.term, n>> \in voteLog,
         UNCHANGED consensusVars, UNCHANGED <<voteLog, elected>>
  PROVE  ElectionInv'
<1>1. VotesKept' /\ OneVotePerTerm' /\ QuorumElected'
  BY StillKeepsVotes DEF ElectionInv
<1>2. CountedVotes' /\ RepliesAwaited'
  BY TaskKeeps DEF ElectionInv
<1>3. QED
  BY <1>1, <1>2 DEF ElectionInv

\* A loop step that steps down and goes idle keeps the invariant.
LEMMA StepDownKeeps ==
  ASSUME ElectionInv, TypeOK', NEW n \in Node, NEW term \in Nat, NEW ok \in BOOLEAN,
         StepDownToTerm(n, term, ok), task' = [task EXCEPT ![n] = Idle],
         replies' = RepliesToOthers(n), UNCHANGED <<voteLog, elected>>
  PROVE  ElectionInv'
<1>1. PICK newTerm \in Nat, newVote \in MaybeNode :
         Advance(n, newTerm, newVote, "Follower", ok)
  BY StepDownAdvances DEF ElectionInv
<1>2. "Follower" \in Role
  BY DEF Role
<1>3. VotesKept' /\ OneVotePerTerm'
  BY <1>1, <1>2, AdvanceKeepsVotes DEF ElectionInv
<1>4. QuorumElected'
  BY <1>1, <1>2, AdvanceKeepsLeaders DEF ElectionInv
<1>5. CountedVotes' /\ RepliesAwaited'
  BY IdleTask, TaskKeeps DEF ElectionInv
<1>6. QED
  BY <1>3, <1>4, <1>5 DEF ElectionInv

\* load_consensus_state brings back a state that agrees with the disk.
LEMMA RestartKeeps ==
  ASSUME ElectionInv, TypeOK', NEW n \in Node, Restart(n)
  PROVE  ElectionInv'
<1>1. TypeOK /\ VotesKept /\ QuorumElected
  BY DEF ElectionInv
<1>2. /\ currentTerm'[n] = LoadedTerm(n) /\ votedFor'[n] = disk[n].vote
      /\ role'[n] = "Follower" /\ disk' = disk
      /\ \A p \in Node : p # n => /\ currentTerm'[p] = currentTerm[p]
                                  /\ votedFor'[p] = votedFor[p]
                                  /\ role'[p] = role[p]
      /\ task' = [task EXCEPT ![n] = Idle] /\ replies' = RepliesToOthers(n)
      /\ UNCHANGED <<voteLog, elected>>
  BY <1>1 DEF Restart, TypeOK
<1>3. disk[n].term \in Nat /\ disk[n].term <= LoadedTerm(n)
      /\ (disk[n].term = 0 \/ LoadedTerm(n) = disk[n].term)
  BY <1>1 DEF TypeOK, LoadedTerm
<1>4. \A x \in voteLog : x[1] \in Node /\ x[2] \in Nat
  BY <1>1 DEF TypeOK
<1>5. VotesKept'
  <2>1. ASSUME NEW p \in Node
        PROVE  disk'[p].term <= currentTerm'[p]
    BY <1>1, <1>2, <1>3 DEF VotesKept
  <2>2. ASSUME NEW x \in voteLog, x[1] = n, x[2] = LoadedTerm(n)
        PROVE  disk[n].vote = x[3]
    <3>1. x[2] <= disk[n].term /\ (x[2] = disk[n].term => disk[n].vote = x[3])
      BY <1>1, <2>2 DEF VotesKept
    <3>2. QED
      BY <1>3, <1>4, <2>2, <3>1
  <2>3. QED
    BY <1>1, <1>2, <1>4, <2>1, <2>2 DEF VotesKept
<1>6. OneVotePerTerm'
  BY <1>2 DEF ElectionInv, OneVotePerTerm
<1>7. QuorumElected'
  <2>1. \A e \in elected : e[1] \in Node
    BY <1>1 DEF TypeOK
  <2>2. QED
    BY <1>1, <1>2, <2>1 DEF QuorumElected
<1>8. CountedVotes' /\ RepliesAwaited'
  BY <1>2, IdleTask, TaskKeeps DEF ElectionInv
<1>9. QED
  BY <1>5, <1>6, <1>7, <1>8 DEF ElectionInv

\* start_election votes for itself in a term no node was ever elected in by it.
LEMMA StartElectionKeeps ==
  ASSUME ElectionInv, TypeOK', NEW n \in Node, NEW ok \in BOOLEAN, StartElection(n, ok)
  PROVE  ElectionInv'
<1> DEFINE term == currentTerm[n] + 1
           new == [phase |-> "elect", term |-> term, votes |-> {n},
                   todo |-> Peers(n), waiting |-> None]
<1>1. TypeOK /\ currentTerm[n] \in Nat
  BY DEF ElectionInv, TypeOK
<1>2. /\ term \in Nat /\ term > currentTerm[n] /\ n \in MaybeNode
      /\ "Candidate" \in Role /\ None \in MaybeNode
  BY <1>1 DEF MaybeNode, Role
<1>3. /\ Install(n, term, n, "Candidate", None) /\ Persist(n, term, n, ok)
      /\ task[n].phase = "idle"
      /\ UNCHANGED <<requests, replies, elected>>
      /\ ok => task' = [task EXCEPT ![n] = new] /\ voteLog' = voteLog \union {<<n, term, n>>}
      /\ ~ok => UNCHANGED <<task, voteLog>>
  BY DEF StartElection
<1>4. new \in Task /\ new.phase = "elect" /\ new.votes = {n} /\ new.term = term
  BY <1>2 DEF Task, Peers
<1> HIDE DEF term, new
<1>5. Advance(n, term, n, "Candidate", ok)
  BY <1>1, <1>2, <1>3 DEF Advance
<1>6. VotesKept' /\ OneVotePerTerm'
  BY <1>2, <1>3, <1>5, AdvanceKeepsVotes DEF ElectionInv
<1>7. QuorumElected'
  BY <1>2, <1>3, <1>5, AdvanceKeepsLeaders DEF ElectionInv
<1>8. replies' = RepliesToOthers(n)
  BY <1>3, NoReplyTo DEF ElectionInv
<1>9. CountedVotes' /\ RepliesAwaited'
  <2>1. CASE ok
    BY <1>3, <1>4, <1>8, <2>1, TaskKeeps DEF ElectionInv
  <2>2. CASE ~ok
    BY <1>3, <2>2 DEF ElectionInv, CountedVotes, RepliesAwaited
  <2>3. QED
    BY <2>1, <2>2
<1>10. QED
  BY <1>6, <1>7, <1>9 DEF ElectionInv

\* A counted vote reply adds a recorded vote.
LEMMA ReceiveVoteReplyKeeps ==
  ASSUME ElectionInv, TypeOK', NEW r \in replies, NEW ok \in BOOLEAN, ReceiveVoteReply(r, ok)
  PROVE  ElectionInv'
<1> DEFINE n == r.dst
           new == [task[n] EXCEPT !.waiting = None,
                                  !.votes = IF r.yes THEN @ \union {r.src} ELSE @]
<1>1. TypeOK /\ r \in Reply
  BY DEF ElectionInv, TypeOK
<1>2. n \in Node /\ r.src \in Node /\ r.peerTerm \in Nat /\ r.term \in Nat
  BY <1>1 DEF Reply
<1>3. CASE r.peerTerm > r.term
  BY <1>2, <1>3, StepDownKeeps DEF ReceiveVoteReply
<1>4. CASE ~(r.peerTerm > r.term)
  <2>1. task[n] \in Task
    BY <1>1, <1>2 DEF TypeOK
  <2>2. new \in Task /\ new.phase = task[n].phase /\ new.term = task[n].term
        /\ new.votes = IF r.yes THEN task[n].votes \union {r.src} ELSE task[n].votes
    BY <1>2, <2>1 DEF Task, MaybeNode
  <2>3. task' = [task EXCEPT ![n] = new]
    BY <1>4 DEF ReceiveVoteReply
  <2>4. /\ replies' = RepliesToOthers(n) /\ UNCHANGED consensusVars
        /\ UNCHANGED <<voteLog, elected>> /\ r.type = "elect"
    BY <1>4 DEF ReceiveVoteReply
  <2>5. task[n].phase = "elect" /\ task[n].term = r.term
    BY <2>4 DEF ElectionInv, RepliesAwaited
  <2>6. /\ n \in task[n].votes
        /\ \A v \in task[n].votes : <<v, task[n].term, n>> \in voteLog
        /\ r.yes => <<r.src, r.term, n>> \in voteLog
    BY <1>2, <2>4, <2>5 DEF ElectionInv, CountedVotes
  <2> HIDE DEF new, n
  <2>7. n \in new.votes /\ \A v \in new.votes : <<v, new.term, n>> \in voteLog
    BY <2>2, <2>5, <2>6
  <2>8. QED
    BY <1>2, <2>2, <2>3, <2>4, <2>7, QuietStepKeeps
<1>5. QED
  BY <1>3, <1>4

\* A heartbeat reply is read, or ends the reign.
LEMMA ReceiveHeartbeatReplyKeeps ==
  ASSUME ElectionInv, TypeOK', NEW r \in replies, NEW ok \in BOOLEAN, ReceiveHeartbeatReply(r, ok)
  PROVE  ElectionInv'
<1> DEFINE n == r.dst
           new == [task[n] EXCEPT !.waiting = None]
<1>1. TypeOK /\ r \in Reply
  BY DEF ElectionInv, TypeOK
<1>2. n \in Node /\ r.peerTerm \in Nat
  BY <1>1 DEF Reply
<1>3. CASE r.peerTerm > r.term
  BY <1>2, <1>3, StepDownKeeps DEF ReceiveHeartbeatReply
<1>4. CASE ~(r.peerTerm > r.term)
  <2>1. task[n] \in Task
    BY <1>1, <1>2 DEF TypeOK
  <2>2. new \in Task /\ new.phase = task[n].phase
    BY <2>1 DEF Task, MaybeNode
  <2>3. /\ task' = [task EXCEPT ![n] = new]
        /\ replies' = RepliesToOthers(n) /\ UNCHANGED consensusVars
        /\ UNCHANGED <<voteLog, elected>> /\ r.type = "beat"
    BY <1>4 DEF ReceiveHeartbeatReply
  <2>4. task[n].phase = "beat"
    BY <2>3 DEF ElectionInv, RepliesAwaited
  <2> HIDE DEF new, n
  <2>5. QED
    BY <1>2, <2>2, <2>3, <2>4, QuietStepKeeps
<1>5. QED
  BY <1>3, <1>4

\* Winning records a leader with a quorum of recorded votes behind it.
LEMMA BecomeLeaderKeeps ==
  ASSUME ElectionInv, TypeOK', NEW n \in Node, NEW ok \in BOOLEAN, BecomeLeader(n, ok)
  PROVE  ElectionInv'
<1> DEFINE term == currentTerm[n]
           new == IF ok THEN [Idle EXCEPT !.phase = "recover", !.term = term] ELSE Idle
           won == <<n, term>>
<1>1. TypeOK /\ term \in Nat /\ votedFor[n] \in MaybeNode /\ n \in MaybeNode /\ "Leader" \in Role
  BY DEF ElectionInv, TypeOK, MaybeNode, Role
<1>2. /\ Install(n, term, votedFor[n], "Leader", n) /\ Persist(n, term, votedFor[n], ok)
      /\ task' = [task EXCEPT ![n] = new]
      /\ elected' = elected \union {won}
      /\ UNCHANGED <<requests, replies, voteLog>>
  BY DEF BecomeLeader
<1>3. /\ task[n].phase = "elect" /\ task[n].waiting = None
      /\ Cardinality(task[n].votes) >= Quorum /\ task[n].term = term
  BY DEF BecomeLeader, PollDone, Wins
<1>4. new \in Task /\ new.phase # "elect"
  BY <1>1 DEF Task, Idle, MaybeNode
<1>5. Advance(n, term, votedFor[n], "Leader", ok)
  BY <1>1, <1>2 DEF Advance
<1>6. VotesKept' /\ OneVotePerTerm'
  BY <1>1, <1>2, <1>5, AdvanceKeepsVotes DEF ElectionInv
<1>7. replies' = RepliesToOthers(n)
  BY <1>2, <1>3, NoReplyTo DEF ElectionInv
<1> HIDE DEF new
<1>8. CountedVotes' /\ RepliesAwaited'
  BY <1>2, <1>4, <1>7, TaskKeeps DEF ElectionInv
<1>9. /\ currentTerm' = [currentTerm EXCEPT ![n] = term]
      /\ role' = [role EXCEPT ![n] = "Leader"]
      /\ \A p \in Node : p # n => disk'[p] = disk[p]
      /\ ok => disk'[n].term = term
      /\ ~ok => disk'[n] = disk[n]
  BY <1>1, <1>5, AdvanceEffect
<1>10. \E Q \in SUBSET Node : /\ Cardinality(Q) >= Quorum
                              /\ \A v \in Q : <<v, term, n>> \in voteLog
  <2>1. task[n].votes \in SUBSET Node
    BY <1>1 DEF TypeOK, Task
  <2>2. \A v \in task[n].votes : <<v, term, n>> \in voteLog
    BY <1>3 DEF ElectionInv, CountedVotes
  <2>3. QED
    BY <1>3, <2>1, <2>2
<1>11. term <= disk[n].term
  <2>1. <<n, term, n>> \in voteLog
    BY <1>3 DEF ElectionInv, CountedVotes
  <2>2. QED
    BY <2>1 DEF ElectionInv, VotesKept
<1>12. term <= disk'[n].term
  BY <1>1, <1>9, <1>11
<1>13. ASSUME NEW e \in elected
       PROVE  /\ \E Q \in SUBSET Node : /\ Cardinality(Q) >= Quorum
                                        /\ \A v \in Q : <<v, e[2], e[1]>> \in voteLog'
              /\ e[2] <= disk'[e[1]].term
              /\ e[2] = currentTerm'[e[1]] => role'[e[1]] # "Candidate"
  <2>1. e[1] \in Node /\ e[2] \in Nat
    BY <1>1 DEF TypeOK
  <2>2. /\ \E Q \in SUBSET Node : /\ Cardinality(Q) >= Quorum
                                  /\ \A v \in Q : <<v, e[2], e[1]>> \in voteLog'
        /\ e[2] <= disk[e[1]].term
        /\ e[2] = currentTerm[e[1]] => role[e[1]] # "Candidate"
        /\ disk[e[1]].term <= currentTerm[e[1]]
        /\ disk[e[1]].term \in Nat /\ currentTerm[e[1]] \in Nat
    BY <1>1, <1>2, <2>1 DEF ElectionInv, QuorumElected, VotesKept, TypeOK
  <2>3. e[2] <= disk'[e[1]].term
    BY <1>9, <2>1, <2>2
  <2>4. currentTerm'[e[1]] = currentTerm[e[1]] /\ (e[1] = n => role'[e[1]] = "Leader")
        /\ (e[1] # n => role'[e[1]] = role[e[1]])
    BY <1>1, <1>9, <2>1 DEF TypeOK
  <2>5. QED
    BY <2>2, <2>3, <2>4
<1>14. QuorumElected'
  <2>1. /\ \E Q \in SUBSET Node : /\ Cardinality(Q) >= Quorum
                                  /\ \A v \in Q : <<v, won[2], won[1]>> \in voteLog'
        /\ won[2] <= disk'[won[1]].term
        /\ role'[won[1]] # "Candidate"
    BY <1>1, <1>2, <1>9, <1>10, <1>12 DEF TypeOK
  <2>2. QED
    BY <1>2, <1>13, <2>1 DEF QuorumElected
<1>15. QED
  BY <1>6, <1>8, <1>14 DEF ElectionInv

\* The steps of the loop thread that only move its program counter.
LEMMA LoopMoveKeeps ==
  ASSUME ElectionInv, TypeOK', NEW n \in Node,
         \/ \E p \in Node : SendRpc(n, p)
         \/ RpcFails(n)
         \/ LoseElection(n)
         \/ RecoveryDone(n)
         \/ SendHeartbeats(n)
         \/ RoundDone(n)
  PROVE  ElectionInv'
<1>1. TypeOK /\ task[n] \in Task
  BY DEF ElectionInv, TypeOK
<1>2. task[n].phase = "elect" =>
         n \in task[n].votes /\ \A v \in task[n].votes : <<v, task[n].term, n>> \in voteLog
  BY DEF ElectionInv, CountedVotes
<1>3. ASSUME NEW p \in Node, SendRpc(n, p)
      PROVE  ElectionInv'
  <2> DEFINE new == [task[n] EXCEPT !.todo = @ \ {p}, !.waiting = p]
  <2>1. new \in Task /\ new.phase = task[n].phase /\ new.votes = task[n].votes
        /\ new.term = task[n].term
    BY <1>1 DEF Task, MaybeNode
  <2>2. task' = [task EXCEPT ![n] = new] /\ UNCHANGED consensusVars
        /\ UNCHANGED <<replies, voteLog, elected>> /\ task[n].waiting = None
    BY <1>3 DEF SendRpc, consensusVars
  <2>3. replies' = RepliesToOthers(n)
    BY <2>2, NoReplyTo DEF ElectionInv
  <2> HIDE DEF new
  <2>4. QED
    BY <1>2, <2>1, <2>2, <2>3, QuietStepKeeps
<1>4. ASSUME RpcFails(n)
      PROVE  ElectionInv'
  <2> DEFINE new == [task[n] EXCEPT !.waiting = None]
  <2>1. new \in Task /\ new.phase = task[n].phase /\ new.votes = task[n].votes
        /\ new.term = task[n].term
    BY <1>1 DEF Task, MaybeNode
  <2>2. task' = [task EXCEPT ![n] = new] /\ UNCHANGED consensusVars
        /\ UNCHANGED <<voteLog, elected>> /\ replies' = RepliesToOthers(n)
    BY <1>4 DEF RpcFails, consensusVars
  <2> HIDE DEF new
  <2>3. QED
    BY <1>2, <2>1, <2>2, QuietStepKeeps
<1>5. ASSUME LoseElection(n) \/ RoundDone(n)
      PROVE  ElectionInv'
  <2>1. task' = [task EXCEPT ![n] = Idle] /\ UNCHANGED consensusVars
        /\ UNCHANGED <<replies, voteLog, elected>> /\ task[n].waiting = None
    BY <1>5 DEF LoseElection, PollDone, RoundDone, consensusVars
  <2>2. replies' = RepliesToOthers(n)
    BY <2>1, NoReplyTo DEF ElectionInv
  <2>3. QED
    BY <2>1, <2>2, IdleTask, QuietStepKeeps
<1>6. ASSUME RecoveryDone(n) \/ SendHeartbeats(n)
      PROVE  ElectionInv'
  <2> DEFINE new == IF role[n] = "Leader"
                    THEN [phase |-> "beat", term |-> currentTerm[n], votes |-> {},
                          todo |-> Peers(n), waiting |-> None]
                    ELSE Idle
  <2>1. new \in Task /\ new.phase # "elect"
    BY <1>1, IdleTask DEF TypeOK, Task, Peers, MaybeNode
  <2>2. task' = [task EXCEPT ![n] = new] /\ UNCHANGED consensusVars
        /\ UNCHANGED <<replies, voteLog, elected>> /\ task[n].phase \notin {"elect", "beat"}
    BY <1>6 DEF RecoveryDone, SendHeartbeats, BeginRound, consensusVars
  <2>3. replies' = RepliesToOthers(n)
    BY <2>2, NoReplyTo DEF ElectionInv
  <2> HIDE DEF new
  <2>4. QED
    BY <2>1, <2>2, <2>3, QuietStepKeeps
<1>7. QED
  BY <1>3, <1>4, <1>5, <1>6

\* A failed recovery steps down in the term of the election.
LEMMA RecoveryFailsKeeps ==
  ASSUME ElectionInv, TypeOK', NEW n \in Node, NEW ok \in BOOLEAN, RecoveryFails(n, ok)
  PROVE  ElectionInv'
<1>1. task[n].term \in Nat
  BY DEF ElectionInv, TypeOK, Task
<1>2. /\ task[n].phase = "recover" /\ StepDownToTerm(n, task[n].term, ok)
      /\ task' = [task EXCEPT ![n] = Idle]
      /\ UNCHANGED <<replies, voteLog, elected>>
  BY DEF RecoveryFails
<1>3. replies' = RepliesToOthers(n)
  BY <1>2, NoReplyTo DEF ElectionInv
<1>4. QED
  BY <1>1, <1>2, <1>3, StepDownKeeps

(***************************************************************************)
(* The invariant and what follows from it.                                 *)
(***************************************************************************)

\* Nothing has been voted on or won at the start.
LEMMA InitElectionInv == Init => ElectionInv
<1> SUFFICES ASSUME Init
             PROVE  ElectionInv
  OBVIOUS
<1>1. TypeOK
  BY InitTypeOK
<1>2. VotesKept /\ OneVotePerTerm /\ RepliesAwaited /\ QuorumElected
  BY DEF Init, VotesKept, OneVotePerTerm, RepliesAwaited, QuorumElected
<1>3. CountedVotes
  BY DEF Init, CountedVotes, Idle
<1>4. QED
  BY <1>1, <1>2, <1>3 DEF ElectionInv

\* Every step of the election preserves the invariant.
LEMMA NextElectionInv == ElectionInv /\ [ElectionNext]_electionVars => ElectionInv'
<1> SUFFICES ASSUME ElectionInv, [ElectionNext]_electionVars
             PROVE  ElectionInv'
  OBVIOUS
<1>1. TypeOK'
  BY NextTypeOK DEF ElectionInv
<1>2. ASSUME NEW n \in Node, NodeNext(n)
      PROVE  ElectionInv'
  <2>1. ASSUME ReplicationContact(n)
        PROVE  ElectionInv'
    <3>1. PICK l \in Node, e \in elected, ok \in BOOLEAN : AcceptReplication(n, l, e[2], ok)
      BY <2>1 DEF ReplicationContact
    <3>2. e[2] \in Nat
      BY DEF ElectionInv, TypeOK
    <3>3. QED
      BY <1>1, <3>1, <3>2, AcceptReplicationKeeps
  <2>2. QED
    BY <1>1, <1>2, <2>1, RestartKeeps, StartElectionKeeps, BecomeLeaderKeeps, LoopMoveKeeps,
       RecoveryFailsKeeps DEF NodeNext
<1>3. ASSUME NetworkNext
      PROVE  ElectionInv'
  BY <1>1, <1>3, HandleRequestVoteKeeps, HandleHeartbeatKeeps, ReceiveVoteReplyKeeps,
     ReceiveHeartbeatReplyKeeps DEF NetworkNext
<1>4. CASE UNCHANGED electionVars
  BY <1>1, <1>4 DEF electionVars, ElectionInv, VotesKept, CountedVotes, RepliesAwaited,
                    QuorumElected, OneVotePerTerm
<1>5. QED
  BY <1>2, <1>3, <1>4 DEF ElectionNext

\* The inductive invariant holds in every reachable state.
THEOREM ElectionInvariant == ElectionSpec => []ElectionInv
  BY InitElectionInv, NextElectionInv, PTL DEF ElectionSpec

\* No node records votes for two candidates in one term, whatever crashes and
\* failed writes of consensus.state happen.
THEOREM VotesAreUnique == ElectionSpec => []OneVotePerTerm
<1>1. ElectionInv => OneVotePerTerm
  BY DEF ElectionInv
<1>2. QED
  BY <1>1, ElectionInvariant, PTL

\* Two quorums of recorded votes share a voter, so a term has one leader.
LEMMA InvElectionSafety == ElectionInv => ElectionSafety
<1> SUFFICES ASSUME ElectionInv, NEW x \in elected, NEW y \in elected, x[2] = y[2]
             PROVE  x[1] = y[1]
  BY DEF ElectionSafety
<1>1. PICK Q \in SUBSET Node : /\ Cardinality(Q) >= Quorum
                               /\ \A v \in Q : <<v, x[2], x[1]>> \in voteLog
  BY DEF ElectionInv, QuorumElected
<1>2. PICK R \in SUBSET Node : /\ Cardinality(R) >= Quorum
                               /\ \A v \in R : <<v, y[2], y[1]>> \in voteLog
  BY DEF ElectionInv, QuorumElected
<1>3. /\ IsFiniteSet(Q) /\ IsFiniteSet(R)
      /\ Cardinality(Q) \in Nat /\ Cardinality(R) \in Nat /\ Cardinality(Node) \in Nat
  BY ClusterAssumption, FS_Subset, FS_CardinalityType
<1>4. Cardinality(Q) + Cardinality(R) > Cardinality(Node)
  BY <1>1, <1>2, <1>3, ClusterAssumption
<1>5. Q \intersect R # {}
  BY <1>4, ClusterAssumption, FS_MajoritiesIntersect
<1>6. PICK v \in Q \intersect R : TRUE
  BY <1>5
<1>7. <<v, x[2], x[1]>> \in voteLog /\ <<v, x[2], y[1]>> \in voteLog
  BY <1>1, <1>2, <1>6
<1>8. QED
  BY <1>7 DEF ElectionInv, OneVotePerTerm

\* A term never has two leaders, for any cluster size and any majority quorum.
THEOREM OneLeaderPerTerm == ElectionSpec => []ElectionSafety
  BY InvElectionSafety, ElectionInvariant, PTL

\* A node that takes over the leadership has never led that term before.
LEMMA StepNoSecondReign ==
  ElectionInv /\ [ElectionNext]_electionVars =>
    [\A n \in Node : role[n] # "Leader" /\ role'[n] = "Leader"
                       => <<n, currentTerm'[n]>> \notin elected]_electionVars
<1> SUFFICES ASSUME ElectionInv, ElectionNext, NEW n \in Node,
                    role[n] # "Leader", role'[n] = "Leader"
             PROVE  <<n, currentTerm'[n]>> \notin elected
  OBVIOUS
<1>1. TypeOK
  BY DEF ElectionInv
<1>2. ASSUME NEW p \in Node, NEW ok \in BOOLEAN, BecomeLeader(p, ok)
      PROVE  <<n, currentTerm'[n]>> \notin elected
  <2>1. p = n
    BY <1>1, <1>2 DEF BecomeLeader, Install, TypeOK
  <2>2. role[n] = "Candidate" /\ currentTerm'[n] = currentTerm[n]
    BY <1>1, <1>2, <2>1 DEF BecomeLeader, Wins, Install, TypeOK
  <2>3. QED
    BY <2>2 DEF ElectionInv, QuorumElected
<1>3. ASSUME NEW p \in Node, NodeNext(p), \A ok \in BOOLEAN : ~BecomeLeader(p, ok)
      PROVE  FALSE
  <2>1. CASE UNCHANGED role
    BY <2>1
  <2>2. CASE Restart(p)
    BY <1>1, <2>2 DEF Restart, TypeOK
  <2>3. CASE \E ok \in BOOLEAN : StartElection(p, ok)
    BY <1>1, <2>3 DEF StartElection, Install, TypeOK
  <2>4. CASE \E ok \in BOOLEAN : RecoveryFails(p, ok)
    BY <1>1, <2>4 DEF RecoveryFails, StepDownToTerm, Install, TypeOK
  <2>5. CASE ReplicationContact(p)
    BY <1>1, <2>5 DEF ReplicationContact, AcceptReplication, Install, TypeOK
  <2>6. QED
    BY <1>3, <2>1, <2>2, <2>3, <2>4, <2>5
       DEF NodeNext, SendRpc, RpcFails, LoseElection, RecoveryDone, SendHeartbeats, RoundDone
<1>4. ASSUME NetworkNext
      PROVE  FALSE
  <2>1. CASE \E m \in requests, upToDate \in BOOLEAN, ok \in BOOLEAN :
                HandleRequestVote(m, upToDate, ok)
    BY <1>1, <2>1 DEF HandleRequestVote, Install, TypeOK
  <2>2. CASE \E m \in requests, ok \in BOOLEAN : HandleHeartbeat(m, ok)
    BY <1>1, <2>2 DEF HandleHeartbeat, Install, TypeOK
  <2>3. CASE \E r \in replies, ok \in BOOLEAN : ReceiveVoteReply(r, ok)
    BY <1>1, <2>3 DEF ReceiveVoteReply, StepDownToTerm, Install, TypeOK, consensusVars
  <2>4. CASE \E r \in replies, ok \in BOOLEAN : ReceiveHeartbeatReply(r, ok)
    BY <1>1, <2>4 DEF ReceiveHeartbeatReply, StepDownToTerm, Install, TypeOK, consensusVars
  <2>5. QED
    BY <1>4, <2>1, <2>2, <2>3, <2>4 DEF NetworkNext
<1>5. QED
  BY <1>2, <1>3, <1>4 DEF ElectionNext

\* No node leads one term twice, with a step-down or a crash in between.
THEOREM ReignsAreFresh == ElectionSpec => NoSecondReign
<1>1. ElectionSpec => [][ElectionNext]_electionVars
  BY PTL DEF ElectionSpec
<1>2. QED
  BY <1>1, StepNoSecondReign, ElectionInvariant, PTL DEF NoSecondReign

=============================================================================
