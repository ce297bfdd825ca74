------------------------- MODULE ReplicationProofs -------------------------
(***************************************************************************)
(* Proofs about Replication, for any cluster, any operations and any       *)
(* lengths of logs and terms: every step is a step of Election, so that    *)
(* what ElectionProofs shows of elections holds of the replicating         *)
(* cluster; the log of an epoch is the log of its leader; and no log is    *)
(* ahead of the term on disk.                                              *)
(***************************************************************************)
EXTENDS Replication, ElectionProofs, WellFoundedInduction

(***************************************************************************)
(* Least and greatest elements.                                            *)
(***************************************************************************)

\* A set of naturals that is not empty has a least element.
LEMMA LeastNatural ==
  ASSUME NEW S \in SUBSET Nat, S # {}
  PROVE  \E x \in S : \A y \in S : x <= y
<1> DEFINE R == {ss \in Nat \X Nat : ss[1] < ss[2]}
<1>1. IsWellFoundedOn(R, Nat)
  BY NatLessThanWellFounded, Zenon DEF OpToRel
<1>2. \A x, y \in Nat : ~(<<y, x>> \in R) => x <= y
  OBVIOUS
<1> HIDE DEF R
<1>3. \E x \in S : \A y \in S : ~(<<y, x>> \in R)
  BY <1>1, WFMin, Zenon
<1> QED BY <1>2, <1>3

\* So has a set of naturals with a bound a greatest one, which is what Max is.
LEMMA MaxOfBounded ==
  ASSUME NEW k \in Nat, NEW S \in SUBSET (0 .. k), S # {}
  PROVE  Max(S) \in S
<1> DEFINE T == {k - x : x \in S}
<1>1. T \in SUBSET Nat /\ T # {}
  <2>1. PICK x \in S : TRUE
    OBVIOUS
  <2>2. k - x \in T
    BY <2>1
  <2>3. \A y \in S : k - y \in Nat
    OBVIOUS
  <2> QED BY <2>2, <2>3
<1>2. PICK t \in T : \A y \in T : t <= y
  BY <1>1, LeastNatural
<1>3. PICK x \in S : t = k - x
  OBVIOUS
<1>4. \A y \in S : x >= y
  <2> TAKE y \in S
  <2>1. k - x <= k - y
    BY <1>2, <1>3
  <2> QED BY <2>1
<1> QED BY <1>4 DEF Max

\* The pending files of a recovery have a first one.
LEMMA FirstIsOne ==
  ASSUME NEW files \in SUBSET Mutation, files # {}
  PROVE  FirstOf(files) \in files
<1> DEFINE S == {x.seq : x \in files}
<1>1. S \in SUBSET Nat /\ S # {}
  BY DEF Mutation
<1>2. PICK s \in S : \A y \in S : s <= y
  BY <1>1, LeastNatural
<1>3. \E x \in files : \A y \in files : x.seq <= y.seq
  BY <1>2
<1> QED BY <1>3 DEF FirstOf

(***************************************************************************)
(* What an election step leaves in place.                                  *)
(***************************************************************************)

\* The winners of past terms are not forgotten, and a term on disk does not go
\* back: consensus.state is only written with the term in memory or a newer one.
LEMMA ElectionGrows ==
  ASSUME ElectionInv, [ElectionNext]_electionVars
  PROVE  /\ elected \subseteq elected'
         /\ \A n \in Node : disk[n].term <= disk'[n].term
<1> DEFINE Grows == \A q \in Node : disk[q].term <= disk'[q].term
<1>1. TypeOK /\ \A q \in Node : disk[q].term <= currentTerm[q]
  BY DEF ElectionInv, VotesKept
<1>2. \A q \in Node : disk[q].term \in Nat /\ currentTerm[q] \in Nat
  BY <1>1 DEF TypeOK
<1>3. ASSUME UNCHANGED disk
      PROVE  Grows
  BY <1>2, <1>3
<1>4. ASSUME NEW v \in Node, NEW term \in Nat, NEW vote, NEW ok,
             Persist(v, term, vote, ok), ok => term >= currentTerm[v]
      PROVE  Grows
  BY <1>1, <1>2, <1>4 DEF Persist, TypeOK
<1>5. ASSUME NEW n \in Node, NEW term \in Nat, NEW ok, StepDownToTerm(n, term, ok)
      PROVE  Grows
  BY <1>2, <1>4, <1>5 DEF StepDownToTerm
<1>6. ASSUME NEW n \in Node, NodeNext(n)
      PROVE  elected \subseteq elected' /\ Grows
  <2>1. ASSUME NEW ok \in BOOLEAN, StartElection(n, ok)
        PROVE  elected \subseteq elected' /\ Grows
    <3>1. currentTerm[n] + 1 \in Nat /\ currentTerm[n] + 1 >= currentTerm[n]
      BY <1>2
    <3> QED BY <1>4, <2>1, <3>1 DEF StartElection
  <2>2. ASSUME NEW ok \in BOOLEAN, BecomeLeader(n, ok)
        PROVE  elected \subseteq elected' /\ Grows
    <3>1. currentTerm[n] >= currentTerm[n]
      BY <1>2
    <3> QED BY <1>2, <1>4, <2>2, <3>1 DEF BecomeLeader
  <2>3. ASSUME NEW ok \in BOOLEAN, RecoveryFails(n, ok)
        PROVE  elected \subseteq elected' /\ Grows
    <3>1. task[n].term \in Nat
      BY <1>1 DEF TypeOK, Task
    <3> QED BY <1>5, <2>3, <3>1 DEF RecoveryFails
  <2>4. ASSUME ReplicationContact(n)
        PROVE  elected \subseteq elected' /\ Grows
    <3>1. PICK l \in Node, e \in elected, ok \in BOOLEAN : AcceptReplication(n, l, e[2], ok)
      BY <2>4 DEF ReplicationContact
    <3>2. e[2] \in Nat
      BY <1>1 DEF TypeOK
    <3> QED BY <1>4, <3>1, <3>2 DEF AcceptReplication, FenceAdmits
  <2>5. ASSUME UNCHANGED <<disk, elected>>
        PROVE  elected \subseteq elected' /\ Grows
    BY <1>3, <2>5
  <2> QED
    BY <1>6, <2>1, <2>2, <2>3, <2>4, <2>5
       DEF NodeNext, Restart, SendRpc, RpcFails, LoseElection, RecoveryDone, SendHeartbeats,
           RoundDone
<1>7. ASSUME NetworkNext
      PROVE  elected \subseteq elected' /\ Grows
  <2>1. ASSUME NEW m \in requests, NEW upToDate \in BOOLEAN, NEW ok \in BOOLEAN,
               HandleRequestVote(m, upToDate, ok)
        PROVE  elected \subseteq elected' /\ Grows
    <3>1. m.dst \in Node /\ m.term \in Nat
      BY <1>1 DEF TypeOK, Request
    <3> QED BY <1>2, <1>4, <2>1, <3>1 DEF HandleRequestVote
  <2>2. ASSUME NEW m \in requests, NEW ok \in BOOLEAN, HandleHeartbeat(m, ok)
        PROVE  elected \subseteq elected' /\ Grows
    <3>1. m.dst \in Node /\ m.term \in Nat
      BY <1>1 DEF TypeOK, Request
    <3> QED BY <1>2, <1>4, <2>2, <3>1 DEF HandleHeartbeat
  <2>3. ASSUME NEW r \in replies, NEW ok \in BOOLEAN,
               ReceiveVoteReply(r, ok) \/ ReceiveHeartbeatReply(r, ok)
        PROVE  elected \subseteq elected' /\ Grows
    <3>1. r.dst \in Node /\ r.peerTerm \in Nat
      BY <1>1 DEF TypeOK, Reply
    <3>2. UNCHANGED disk \/ StepDownToTerm(r.dst, r.peerTerm, ok)
      BY <2>3 DEF ReceiveVoteReply, ReceiveHeartbeatReply, consensusVars
    <3> QED BY <1>3, <1>5, <2>3, <3>1, <3>2 DEF ReceiveVoteReply, ReceiveHeartbeatReply
  <2> QED BY <1>7, <2>1, <2>2, <2>3 DEF NetworkNext
<1> QED BY <1>3, <1>6, <1>7 DEF ElectionNext, electionVars

\* Whoever leads was elected: only the end of start_election makes a leader, and
\* a leader whose term changes is none any more.
LEMMA LeadersStayElected ==
  ASSUME ElectionInv, LeadersElected, [ElectionNext]_electionVars
  PROVE  LeadersElected'
<1> DEFINE Ok(q) == /\ role'[q] = "Leader" => <<q, currentTerm'[q]>> \in elected'
                    /\ task'[q].phase = "recover" => <<q, task'[q].term>> \in elected'
<1>1. TypeOK /\ elected \subseteq elected'
  BY ElectionGrows DEF ElectionInv
<1>2. SUFFICES ASSUME NEW q \in Node
               PROVE  Ok(q)
  BY DEF LeadersElected
<1>3. ASSUME \/ role'[q] # "Leader"
             \/ role'[q] = role[q] /\ currentTerm'[q] = currentTerm[q],
             \/ task'[q].phase # "recover"
             \/ task'[q].phase = task[q].phase /\ task'[q].term = task[q].term
      PROVE  Ok(q)
  BY <1>1, <1>3 DEF LeadersElected
<1> HIDE DEF Ok
<1>4. ASSUME NEW n \in Node, NodeNext(n)
      PROVE  Ok(q)
  <2>1. ASSUME Restart(n)
        PROVE  Ok(q)
    BY <1>1, <1>3, <2>1 DEF Restart, TypeOK, Idle
  <2>2. ASSUME NEW ok \in BOOLEAN, StartElection(n, ok)
        PROVE  Ok(q)
    BY <1>1, <1>3, <2>2 DEF StartElection, Install, TypeOK, Idle
  <2>3. ASSUME NEW p \in Node, SendRpc(n, p)
        PROVE  Ok(q)
    BY <1>1, <1>3, <2>3 DEF SendRpc, TypeOK, Task
  <2>4. ASSUME RpcFails(n)
        PROVE  Ok(q)
    BY <1>1, <1>3, <2>4 DEF RpcFails, TypeOK, Task
  <2>5. ASSUME NEW ok \in BOOLEAN, BecomeLeader(n, ok)
        PROVE  Ok(q)
    <3>1. CASE q = n
      BY <1>1, <2>5, <3>1 DEF BecomeLeader, Install, TypeOK, Idle, Ok
    <3>2. CASE q # n
      BY <1>1, <1>3, <2>5, <3>2 DEF BecomeLeader, Install, TypeOK
    <3> QED BY <3>1, <3>2
  <2>6. ASSUME LoseElection(n) \/ RoundDone(n)
        PROVE  Ok(q)
    BY <1>1, <1>3, <2>6 DEF LoseElection, RoundDone, TypeOK, Idle
  <2>7. ASSUME NEW ok \in BOOLEAN, RecoveryFails(n, ok)
        PROVE  Ok(q)
    BY <1>1, <1>3, <2>7 DEF RecoveryFails, StepDownToTerm, Install, TypeOK, Idle
  <2>8. ASSUME RecoveryDone(n) \/ SendHeartbeats(n)
        PROVE  Ok(q)
    BY <1>1, <1>3, <2>8 DEF RecoveryDone, SendHeartbeats, BeginRound, TypeOK, Idle
  <2>9. ASSUME ReplicationContact(n)
        PROVE  Ok(q)
    BY <1>1, <1>3, <2>9 DEF ReplicationContact, AcceptReplication, Install, TypeOK
  <2> QED
    BY <1>4, <2>1, <2>2, <2>3, <2>4, <2>5, <2>6, <2>7, <2>8, <2>9 DEF NodeNext
<1>5. ASSUME NetworkNext
      PROVE  Ok(q)
  <2>1. ASSUME NEW m \in requests, NEW upToDate \in BOOLEAN, NEW ok \in BOOLEAN,
               HandleRequestVote(m, upToDate, ok)
        PROVE  Ok(q)
    BY <1>1, <1>3, <2>1 DEF HandleRequestVote, Install, TypeOK
  <2>2. ASSUME NEW m \in requests, NEW ok \in BOOLEAN, HandleHeartbeat(m, ok)
        PROVE  Ok(q)
    BY <1>1, <1>3, <2>2 DEF HandleHeartbeat, Install, TypeOK
  <2>3. ASSUME NEW r \in replies, NEW ok \in BOOLEAN, ReceiveVoteReply(r, ok)
        PROVE  Ok(q)
    BY <1>1, <1>3, <2>3
       DEF ReceiveVoteReply, StepDownToTerm, Install, TypeOK, consensusVars, Idle, Task
  <2>4. ASSUME NEW r \in replies, NEW ok \in BOOLEAN, ReceiveHeartbeatReply(r, ok)
        PROVE  Ok(q)
    BY <1>1, <1>3, <2>4
       DEF ReceiveHeartbeatReply, StepDownToTerm, Install, TypeOK, consensusVars, Idle, Task
  <2> QED BY <1>5, <2>1, <2>2, <2>3, <2>4 DEF NetworkNext
<1>6. CASE UNCHANGED electionVars
  BY <1>3, <1>6 DEF electionVars
<1> QED BY <1>4, <1>5, <1>6 DEF ElectionNext

(***************************************************************************)
(* Replication implements Election.                                        *)
(***************************************************************************)

\* A commit that ends in an error steps down at most the way a failed recovery
\* does.
LEMMA EndWithErrorElects ==
  ASSUME NEW n \in Node, NEW ok \in PersistOutcome, EndWithError(n, ok)
  PROVE  [ElectionNext]_electionVars
<1>1. ok \in BOOLEAN
  BY ReplicationAssumption
<1>2. CASE commit[n].recovering
  BY <1>1, <1>2 DEF EndWithError, ElectionNext, NodeNext
<1>3. CASE ~commit[n].recovering
  BY <1>3 DEF EndWithError
<1> QED BY <1>2, <1>3

\* Every step of a replicating cluster is a step of the election or leaves it
\* alone: what reaches a fence has the epoch of an elected leader, and what is
\* voted on is a request under way.
LEMMA StepElects ==
  ASSUME ReplInv, [ReplNext]_allVars
  PROVE  [ElectionNext]_electionVars
<1>1. PersistOutcome \subseteq BOOLEAN
  BY ReplicationAssumption
<1>2. ASSUME UNCHANGED electionVars
      PROVE  [ElectionNext]_electionVars
  BY <1>2
<1>3. ASSUME NEW v \in Node, NEW l \in Node, NEW epoch, NEW ok \in PersistOutcome,
             Elected(epoch), AcceptReplication(v, l, epoch, ok)
      PROVE  [ElectionNext]_electionVars
  BY <1>1, <1>3 DEF Elected, ElectionNext, NodeNext, ReplicationContact
<1>4. CASE UNCHANGED allVars
  BY <1>4 DEF allVars
<1>5. ASSUME NEW n \in Node,
             \/ ElectionStep(n)
             \/ CrashRestart(n)
             \/ \E ok \in PersistOutcome : Campaign(n, ok) \/ RecoveryStops(n, ok)
             \/ RecoveryEnds(n)
      PROVE  [ElectionNext]_electionVars
  BY <1>1, <1>5 DEF ElectionStep, CrashRestart, Campaign, RecoveryStops, RecoveryEnds,
                    ElectionNext, NodeNext
<1>6. ASSUME NEW n \in Node, NEW ok \in PersistOutcome,
             CommitTimesOut(n, ok) \/ CommitLosesAuthority(n, ok) \/ FinishCommit(n, ok)
      PROVE  [ElectionNext]_electionVars
  BY <1>2, <1>6, EndWithErrorElects DEF CommitTimesOut, CommitLosesAuthority, FinishCommit
<1>7. ASSUME NEW n \in Node, NEW ok \in PersistOutcome, SyncFence(n, ok)
      PROVE  [ElectionNext]_electionVars
  <2> DEFINE mut == MutationAt(sync[n].src, sync[n].next)
  <2>1. /\ sync[n].src \in Node /\ sync[n].next \in DOMAIN log[sync[n].src]
        /\ AcceptReplication(n, sync[n].src, mut.epoch, ok)
    BY <1>7 DEF SyncFence, ReplInv, ReplTypeOK
  <2>2. Decided(mut)
    BY <2>1 DEF ReplInv, LeadersDecide
  <2>3. Elected(mut.epoch)
    BY <2>2 DEF Decided, Elected
  <2> QED BY <1>3, <2>1, <2>3
<1>8. CASE ElectionMessage
  BY <1>1, <1>8 DEF ElectionMessage, ElectionNext, NetworkNext
<1>9. ASSUME NEW b \in ballots, NEW ok \in PersistOutcome, Vote(b, ok)
      PROVE  [ElectionNext]_electionVars
  <2>1. b.req \in requests
    BY DEF ReplInv, BallotsOpen
  <2> DEFINE upToDate == claim[b.req.src][b.req.term] >= b.status.seq
  <2>2. HandleRequestVote(b.req, upToDate, ok)
    BY <1>9, Zenon DEF Vote
  <2>3. upToDate \in BOOLEAN
    OBVIOUS
  <2> HIDE DEF upToDate
  <2>4. ok \in BOOLEAN
    BY <1>1
  <2> QED BY <2>1, <2>2, <2>3, <2>4, Zenon DEF ElectionNext, NetworkNext
<1>10. ASSUME NEW m \in inflight, NEW ok \in PersistOutcome, FenceMessage(m, ok)
       PROVE  [ElectionNext]_electionVars
  <2>1. m.src \in Node /\ m.dst \in Node /\ Elected(m.mut.epoch)
    BY DEF ReplInv, ReplTypeOK, Message, EpochsElected
  <2>2. UNCHANGED electionVars \/ AcceptReplication(m.dst, m.src, m.mut.epoch, ok)
    BY <1>10 DEF FenceMessage
  <2> QED BY <1>2, <1>3, <2>1, <2>2
<1>11. ASSUME NEW n \in Node,
              \/ ReadElectionStatus(n)
              \/ ReadElectionPending(n)
              \/ \E op \in Op : BeginCommit(n, op) \/ AckDuplicate(n, op)
              \/ LoadPending(n) \/ RecoverOld(n) \/ RecoverOne(n)
              \/ SyncBegin(n) \/ SyncEnd(n)
       PROVE  UNCHANGED electionVars
  BY <1>11 DEF ReadElectionStatus, ReadElectionPending, BeginCommit, AckDuplicate, LoadPending,
               RecoverOld, RecoverOne, SyncBegin, SyncEnd
<1>12. ASSUME \/ \E m \in requests : ReadVoterStatus(m)
              \/ \E b \in ballots : ReadVoterPending(b)
              \/ \E m \in inflight : \/ \E heard \in BOOLEAN : HandlePrepare(m, heard)
                                     \/ HandleCommit(m)
                                     \/ HandleAbort(m)
                                     \/ SyncApply(m)
       PROVE  UNCHANGED electionVars
  BY <1>12 DEF ReadVoterStatus, ReadVoterPending, HandlePrepare, HandleCommit, HandleAbort,
               SyncApply
<1> QED
  BY <1>2, <1>4, <1>5, <1>6, <1>7, <1>8, <1>9, <1>10, <1>11, <1>12, Zenon DEF ReplNext

(***************************************************************************)
(* Types.                                                                  *)
(***************************************************************************)

\* apply_prepared_mutation appends the mutation at its sequence number, or
\* leaves the log alone.
LEMMA ApplyEffect ==
  ASSUME ReplTypeOK, NEW n \in Node, NEW mut \in Mutation, ApplyPrepared(n, mut)
  PROVE  /\ \/ log' = log
            \/ /\ Appends(n, mut)
               /\ log' = [log EXCEPT ![n] = Append(@, [op |-> mut.op, epoch |-> mut.epoch])]
         /\ log' \in [Node -> Seq(Entry)]
         /\ \A q \in Node : Len(log'[q]) <= MaxSeq
         /\ pending' \in [Node -> SUBSET Mutation]
         /\ poisoned' \subseteq Node
<1> DEFINE new == [op |-> mut.op, epoch |-> mut.epoch]
<1>1. /\ log \in [Node -> Seq(Entry)] /\ \A q \in Node : Len(log[q]) <= MaxSeq
      /\ pending \in [Node -> SUBSET Mutation] /\ poisoned \subseteq Node
  BY DEF ReplTypeOK
<1>2. new \in Entry /\ mut.seq \in 1 .. MaxSeq
  BY DEF Mutation, Entry
<1>3. log' = log \/ (Appends(n, mut) /\ log' = [log EXCEPT ![n] = Append(@, new)])
  BY DEF ApplyPrepared
<1>4. pending' \in [Node -> SUBSET Mutation] /\ poisoned' \subseteq Node
  BY <1>1 DEF ApplyPrepared, AtSeq
<1> HIDE DEF new
<1>5. log' \in [Node -> Seq(Entry)] /\ \A q \in Node : Len(log'[q]) <= MaxSeq
  <2>1. CASE log' = log
    BY <1>1, <2>1
  <2>2. CASE Appends(n, mut) /\ log' = [log EXCEPT ![n] = Append(@, new)]
    <3>1. Append(log[n], new) \in Seq(Entry) /\ Len(Append(log[n], new)) = Len(log[n]) + 1
      BY <1>1, <1>2
    <3>2. Len(log[n]) + 1 <= MaxSeq
      BY <1>2, <2>2 DEF Appends
    <3>3. log' \in [Node -> Seq(Entry)]
      BY <1>1, <2>2, <3>1
    <3>4. ASSUME NEW q \in Node PROVE Len(log'[q]) <= MaxSeq
      <4>1. CASE q = n
        BY <1>1, <2>2, <3>1, <3>2, <4>1
      <4>2. CASE q # n
        BY <1>1, <2>2, <4>2
      <4> QED BY <4>1, <4>2
    <3> QED BY <3>3, <3>4
  <2> QED BY <1>3, <2>1, <2>2
<1> QED BY <1>3, <1>4, <1>5 DEF new

\* The posts of a round are requests to the peers.
LEMMA PostsType ==
  ASSUME NEW kind \in {"prepare", "commit", "abort"}, NEW n \in Node, NEW mut \in Mutation
  PROVE  /\ Posts(kind, n, mut) \subseteq Message
         /\ \A m \in Posts(kind, n, mut) : m.kind = kind /\ m.mut = mut /\ ~m.fenced
<1>1. ASSUME NEW m \in Posts(kind, n, mut)
      PROVE  m \in Message /\ m.kind = kind /\ m.mut = mut /\ ~m.fenced
  <2>1. PICK p \in Peers(n) :
           m = [kind |-> kind, src |-> n, dst |-> p, mut |-> mut, fenced |-> FALSE]
    BY <1>1 DEF Posts
  <2>2. p \in Node
    BY DEF Peers
  <2> QED BY <2>1, <2>2 DEF Message
<1> QED BY <1>1

\* The log status a node reads is one.
LEMMA StatusType ==
  ASSUME ReplTypeOK, NEW n \in Node
  PROVE  /\ Watermark(n) \in Status
         /\ \A s \in Status : WithPending(n, s) \in Status
<1>1. Watermark(n) \in Status
  BY DEF ReplTypeOK, Watermark, Status
<1>2. ASSUME NEW s \in Status
      PROVE  WithPending(n, s) \in Status
  <2> DEFINE S == {s.seq} \union {x.seq : x \in pending[n]}
             k == s.seq + MaxSeq
  <2>1. s.seq \in Nat /\ MaxSeq \in Nat /\ pending[n] \subseteq Mutation
    BY ReplicationAssumption DEF Status, ReplTypeOK
  <2>2. \A x \in pending[n] : x.seq \in 1 .. MaxSeq
    BY <2>1 DEF Mutation
  <2>3. k \in Nat /\ S \in SUBSET (0 .. k) /\ S # {}
    BY <2>1, <2>2
  <2>4. Max(S) \in S
    BY <2>3, MaxOfBounded
  <2>5. Max(S) \in Nat
    BY <2>3, <2>4
  <2> QED BY <2>5 DEF WithPending, Status
<1> QED BY <1>1, <1>2

\* A pass of catch-up goes on at the next mutation.
LEMMA NextOfPass ==
  ASSUME NEW pass \in [src : Node, next : Nat]
  PROVE  [pass EXCEPT !.next = @ + 1] \in [src : Node, next : Nat]
  OBVIOUS

\* Ending a commit with an error keeps the types of what it touches.
LEMMA EndWithErrorType ==
  ASSUME ReplTypeOK, NEW n \in Node, NEW ok, EndWithError(n, ok)
  PROVE  /\ commit' \in [Node -> Commit \union {None}]
         /\ recovery' \in [Node -> (SUBSET Mutation) \union {None}]
  BY DEF ReplTypeOK, EndWithError

\* Every step of replication keeps the state well typed.
LEMMA NextReplTypeOK ==
  ASSUME TypeOK, ReplTypeOK, OneSyncThread, [ReplNext]_allVars
  PROVE  ReplTypeOK'
<1> USE DEF ReplTypeOK
<1>1. CASE UNCHANGED replVars
  BY <1>1 DEF replVars
<1>2. ASSUME NEW n \in Node, CrashRestart(n)
      PROVE  ReplTypeOK'
  BY <1>2 DEF CrashRestart
<1>3. ASSUME NEW n \in Node, ReadElectionStatus(n) \/ ReadElectionPending(n)
      PROVE  ReplTypeOK'
  <2>1. PICK s \in Status : draft' = [draft EXCEPT ![n] = s]
    BY <1>3, StatusType DEF ReadElectionStatus, ReadElectionPending
  <2> QED BY <1>3, <2>1 DEF ReadElectionStatus, ReadElectionPending
<1>4. ASSUME NEW n \in Node, NEW ok \in PersistOutcome, Campaign(n, ok)
      PROVE  ReplTypeOK'
  <2>1. draft[n].seq \in Nat /\ currentTerm[n] + 1 \in 1 .. MaxTerm
    BY <1>4, ClusterAssumption DEF Campaign, StartElection, Status, TypeOK
  <2>2. claim' \in [Node -> [1 .. MaxTerm -> Nat]]
    BY <1>4, <2>1 DEF Campaign
  <2>3. draft' \in [Node -> Status \union {None}]
    BY <1>4 DEF Campaign
  <2> QED BY <1>4, <2>2, <2>3 DEF Campaign
<1>5. ASSUME NEW n \in Node, NEW op \in Op, BeginCommit(n, op)
      PROVE  ReplTypeOK'
  <2> DEFINE mut == [seq |-> Len(log[n]) + 1, op |-> op, epoch |-> currentTerm[n]]
             com == [mut |-> mut, acks |-> {}, recovering |-> FALSE]
  <2>1. Len(log[n]) + 1 \in 1 .. MaxSeq
    BY <1>5, ReplicationAssumption DEF BeginCommit
  <2>2. mut \in Mutation /\ com \in Commit
    BY <2>1 DEF Mutation, Commit, TypeOK
  <2>3. commit' = [commit EXCEPT ![n] = com] /\ inflight' = inflight \union Posts("prepare", n, mut)
    BY <1>5 DEF BeginCommit
  <2>4. UNCHANGED <<log, pending, poisoned, recovery, ballots, draft, claim, sync, acked>>
    BY <1>5 DEF BeginCommit
  <2> HIDE DEF mut, com
  <2>5. Posts("prepare", n, mut) \subseteq Message
    BY <2>2, PostsType
  <2> QED BY <2>2, <2>3, <2>4, <2>5
<1>6. ASSUME NEW n \in Node, NEW op \in Op, AckDuplicate(n, op)
      PROVE  ReplTypeOK'
  <2>1. PICK i \in DOMAIN log[n] : acked' = acked \union {AckOf(n, MutationAt(n, i))}
    BY <1>6 DEF AckDuplicate
  <2>2. i \in Nat /\ log[n][i] \in Entry
    OBVIOUS
  <2>3. AckOf(n, MutationAt(n, i)) \in Ack
    BY <2>2 DEF AckOf, MutationAt, Ack, Entry
  <2>4. acked' \subseteq Ack
    BY <2>1, <2>3
  <2> QED BY <1>6, <2>4 DEF AckDuplicate
<1>7. ASSUME NEW n \in Node, NEW ok \in PersistOutcome,
             CommitTimesOut(n, ok) \/ CommitLosesAuthority(n, ok)
      PROVE  ReplTypeOK'
  <2>1. commit[n].mut \in Mutation
    BY <1>7 DEF CommitTimesOut, CommitLosesAuthority, Prepared, StateFree, Commit
  <2>2. Posts("abort", n, commit[n].mut) \subseteq Message
    BY <2>1, PostsType
  <2>3. /\ commit' \in [Node -> Commit \union {None}]
        /\ recovery' \in [Node -> (SUBSET Mutation) \union {None}]
    BY <1>7, EndWithErrorType DEF CommitTimesOut, CommitLosesAuthority
  <2> QED BY <1>7, <2>2, <2>3 DEF CommitTimesOut, CommitLosesAuthority
<1>8. ASSUME NEW n \in Node, NEW ok \in PersistOutcome, FinishCommit(n, ok)
      PROVE  ReplTypeOK'
  <2> DEFINE mut == commit[n].mut
  <2>1. mut \in Mutation
    BY <1>8 DEF FinishCommit, Prepared, StateFree, Commit
  <2>2. Posts("commit", n, mut) \subseteq Message
    BY <2>1, PostsType
  <2>3. /\ log' \in [Node -> Seq(Entry)] /\ \A q \in Node : Len(log'[q]) <= MaxSeq
        /\ pending' \in [Node -> SUBSET Mutation] /\ poisoned' \subseteq Node
    BY <1>8, <2>1, ApplyEffect DEF FinishCommit
  <2>4. /\ commit' \in [Node -> Commit \union {None}]
        /\ recovery' \in [Node -> (SUBSET Mutation) \union {None}]
    BY <1>8, EndWithErrorType DEF FinishCommit
  <2>5. AckOf(n, mut) \in Ack
    BY <2>1 DEF Mutation, Ack, AckOf
  <2>6. acked' \subseteq Ack
    BY <1>8, <2>5 DEF FinishCommit
  <2>7. inflight' \subseteq Message /\ UNCHANGED <<ballots, draft, claim, sync>>
    BY <1>8, <2>2 DEF FinishCommit
  <2> QED BY <2>3, <2>4, <2>6, <2>7
<1>9. ASSUME NEW n \in Node, LoadPending(n)
      PROVE  ReplTypeOK'
  BY <1>9 DEF LoadPending
<1>10. ASSUME NEW n \in Node, RecoverOld(n)
       PROVE  ReplTypeOK'
  BY <1>10 DEF RecoverOld, Recovering, AtSeq
<1>11. ASSUME NEW n \in Node, RecoverOne(n)
       PROVE  ReplTypeOK'
  <2> DEFINE x == FirstOf(recovery[n])
             mut == [x EXCEPT !.epoch = task[n].term]
             com == [mut |-> mut, acks |-> {}, recovering |-> TRUE]
  <2>1. recovery[n] \in SUBSET Mutation /\ recovery[n] # {}
    BY <1>11 DEF RecoverOne, Recovering
  <2>2. x \in Mutation
    BY <2>1, FirstIsOne
  <2>3. task[n].term \in Nat
    BY DEF TypeOK, Task
  <2>4. /\ commit' = [commit EXCEPT ![n] = com]
        /\ inflight' = inflight \union Posts("prepare", n, mut)
        /\ recovery' = [recovery EXCEPT ![n] = @ \ {x}]
        /\ UNCHANGED <<log, pending, poisoned, ballots, draft, claim, sync, acked>>
    BY <1>11 DEF RecoverOne
  <2> HIDE DEF x
  <2>5. mut \in Mutation
    BY <2>2, <2>3 DEF Mutation
  <2>6. com \in Commit
    BY <2>5 DEF Commit
  <2> HIDE DEF mut, com
  <2>7. Posts("prepare", n, mut) \subseteq Message
    BY <2>5, PostsType
  <2> QED BY <2>1, <2>4, <2>6, <2>7
<1>12. ASSUME NEW n \in Node,
              (\E ok \in PersistOutcome : RecoveryStops(n, ok)) \/ RecoveryEnds(n)
       PROVE  ReplTypeOK'
  BY <1>12 DEF RecoveryStops, RecoveryEnds
<1>13. ASSUME NEW n \in Node, SyncBegin(n)
       PROVE  ReplTypeOK'
  <2>1. [src |-> leaderId[n], next |-> Len(log[n]) + 1] \in [src : Node, next : Nat]
    BY <1>13 DEF SyncBegin, Peers
  <2> QED BY <1>13, <2>1 DEF SyncBegin
<1>14. ASSUME NEW n \in Node, NEW ok \in PersistOutcome, SyncFence(n, ok)
       PROVE  ReplTypeOK'
  <2> DEFINE p == sync[n].src
             i == sync[n].next
             mut == MutationAt(p, i)
             new == [kind |-> "sync", src |-> p, dst |-> n, mut |-> mut, fenced |-> TRUE]
  <2>1. p \in Node /\ i \in DOMAIN log[p]
    BY <1>14 DEF SyncFence
  <2>2. i \in 1 .. Len(log[p]) /\ log[p][i] \in Entry /\ Len(log[p]) <= MaxSeq
    BY <2>1
  <2>3. mut \in Mutation
    BY <2>2, ReplicationAssumption DEF MutationAt, Mutation, Entry
  <2>4. new \in Message
    BY <2>1, <2>3 DEF Message
  <2>5. \/ inflight' = inflight \union {new} /\ sync' = sync
        \/ inflight' = inflight /\ sync' = [sync EXCEPT ![n] = None]
    BY <1>14 DEF SyncFence
  <2>6. UNCHANGED <<log, pending, poisoned, commit, recovery, ballots, draft, claim, acked>>
    BY <1>14 DEF SyncFence
  <2> HIDE DEF new
  <2> QED BY <2>4, <2>5, <2>6
<1>15. ASSUME NEW n \in Node, SyncEnd(n)
       PROVE  ReplTypeOK'
  BY <1>15 DEF SyncEnd
<1>16. ASSUME NEW m \in requests, ReadVoterStatus(m)
       PROVE  ReplTypeOK'
  <2>1. m \in Request /\ m.dst \in Node
    BY DEF TypeOK, Request
  <2>2. [req |-> m, status |-> Watermark(m.dst)] \in [req : Request, status : Status]
    BY <2>1, StatusType
  <2> QED BY <1>16, <2>2 DEF ReadVoterStatus
<1>17. ASSUME NEW b \in ballots, ReadVoterPending(b)
       PROVE  ReplTypeOK'
  <2>1. b.req.dst \in Node /\ b.status \in Status
    BY DEF Request
  <2>2. [b EXCEPT !.status = WithPending(b.req.dst, @)] \in [req : Request, status : Status]
    BY <2>1, StatusType
  <2> QED BY <1>17, <2>2 DEF ReadVoterPending
<1>18. ASSUME NEW b \in ballots, NEW ok \in PersistOutcome, Vote(b, ok)
       PROVE  ReplTypeOK'
  BY <1>18 DEF Vote
<1>19. ASSUME NEW m \in inflight, NEW ok \in PersistOutcome, FenceMessage(m, ok)
       PROVE  ReplTypeOK'
  <2>1. [m EXCEPT !.fenced = TRUE] \in Message
    BY DEF Message
  <2> QED BY <1>19, <2>1 DEF FenceMessage
<1>20. ASSUME NEW m \in inflight, NEW heard \in BOOLEAN, HandlePrepare(m, heard)
       PROVE  ReplTypeOK'
  <2>1. m.src \in Node /\ m.dst \in Node /\ m.mut \in Mutation
    BY DEF Message
  <2>2. pending' \in [Node -> SUBSET Mutation]
    BY <1>20, <2>1 DEF HandlePrepare, AtSeq
  <2>3. \/ commit' = commit
        \/ /\ commit[m.src] # None
           /\ commit' = [commit EXCEPT ![m.src].acks = @ \union {m.dst}]
    BY <1>20 DEF HandlePrepare
  <2>4. commit' \in [Node -> Commit \union {None}]
    <3>1. CASE commit' = commit
      BY <3>1
    <3>2. CASE /\ commit[m.src] # None
               /\ commit' = [commit EXCEPT ![m.src].acks = @ \union {m.dst}]
      <4> DEFINE com == [commit[m.src] EXCEPT !.acks = @ \union {m.dst}]
      <4>1. com \in Commit
        BY <2>1, <3>2 DEF Commit
      <4>2. commit' = [commit EXCEPT ![m.src] = com]
        BY <3>2
      <4> HIDE DEF com
      <4> QED BY <4>1, <4>2
    <3> QED BY <2>3, <3>1, <3>2
  <2> QED BY <1>20, <2>2, <2>4 DEF HandlePrepare
<1>21. ASSUME NEW m \in inflight, HandleCommit(m) \/ SyncApply(m)
       PROVE  ReplTypeOK'
  <2>1. m.dst \in Node /\ m.mut \in Mutation
    BY DEF Message
  <2>2. UNCHANGED logVars \/ ApplyPrepared(m.dst, m.mut)
    BY <1>21 DEF HandleCommit, SyncApply
  <2>3. /\ log' \in [Node -> Seq(Entry)] /\ \A q \in Node : Len(log'[q]) <= MaxSeq
        /\ pending' \in [Node -> SUBSET Mutation] /\ poisoned' \subseteq Node
    BY <2>1, <2>2, ApplyEffect DEF logVars
  <2>4. sync' \in [Node -> [src : Node, next : Nat] \union {None}]
    <3>1. CASE HandleCommit(m)
      BY <3>1 DEF HandleCommit
    <3>2. CASE SyncApply(m)
      <4>1. sync[m.dst] # None
        BY <3>2 DEF OneSyncThread, SyncApply
      <4>2. sync[m.dst] \in [src : Node, next : Nat]
        BY <2>1, <4>1
      <4> HIDE DEF ReplTypeOK
      <4>3. CASE Applies(m.dst, m.mut)
        <5> DEFINE pass == [sync[m.dst] EXCEPT !.next = @ + 1]
        <5>1. sync' = [sync EXCEPT ![m.dst] = pass]
          BY <3>2, <4>3 DEF SyncApply
        <5>2. pass \in [src : Node, next : Nat]
          BY <4>2, NextOfPass
        <5> HIDE DEF pass
        <5> QED BY <5>1, <5>2 DEF ReplTypeOK
      <4>4. CASE ~Applies(m.dst, m.mut)
        BY <3>2, <4>4 DEF SyncApply, ReplTypeOK
      <4> QED BY <4>3, <4>4
    <3> QED BY <1>21, <3>1, <3>2
  <2> QED BY <1>21, <2>3, <2>4 DEF HandleCommit, SyncApply
<1>22. ASSUME NEW m \in inflight, HandleAbort(m)
       PROVE  ReplTypeOK'
  BY <1>22 DEF HandleAbort, AtSeq
<1> HIDE DEF ReplTypeOK
<1>23. ASSUME NEW n \in Node, ElectionStep(n)
       PROVE  ReplTypeOK'
  BY <1>1, <1>23 DEF ElectionStep
<1>24. CASE ElectionMessage
  BY <1>1, <1>24 DEF ElectionMessage
<1>25. CASE UNCHANGED allVars
  BY <1>1, <1>25 DEF allVars, replVars
<1> QED
  BY <1>2, <1>3, <1>4, <1>5, <1>6, <1>7, <1>8, <1>9, <1>10, <1>11, <1>12, <1>13, <1>14,
     <1>15, <1>16, <1>17, <1>18, <1>19, <1>20, <1>21, <1>22, <1>23, <1>24, <1>25, Zenon
     DEF ReplNext

(***************************************************************************)
(* What a step adds to the logs, to the requests and to the commits.       *)
(***************************************************************************)

\* Node n has the right to append mut: it leads the epoch of mut, or a commit or
\* an answer to catch-up is through its fence.
Sanctioned(n, mut) ==
    \/ <<n, mut.epoch>> \in elected
    \/ \E m \in inflight : /\ m.kind \in {"commit", "sync"} /\ m.fenced
                           /\ m.dst = n /\ m.mut = mut

\* A commit under way on the leader's side is sanctioned as long as the leader has
\* its authority (ensure_write_authority before the log is written).
LEMMA AuthorityIsElected ==
  ASSUME ReplInv, NEW n \in Node, HasAuthority(n)
  PROVE  <<n, commit[n].mut.epoch>> \in elected
  BY DEF ReplInv, LeadersElected, HasAuthority

\* A step appends to a log at most one mutation, a sanctioned one whose op_id the
\* log does not have.
LEMMA StepAppends ==
  ASSUME ReplInv, [ReplNext]_allVars
  PROVE  \/ log' = log
         \/ \E n \in Node, mut \in Mutation :
               /\ Sanctioned(n, mut)
               /\ mut.seq = Len(log[n]) + 1 /\ mut.op \notin Ops(n)
               /\ log' = [log EXCEPT ![n] = Append(@, [op |-> mut.op, epoch |-> mut.epoch])]
<1> DEFINE Goal ==
             \/ log' = log
             \/ \E n \in Node, mut \in Mutation :
                   /\ Sanctioned(n, mut)
                   /\ mut.seq = Len(log[n]) + 1 /\ mut.op \notin Ops(n)
                   /\ log' = [log EXCEPT ![n] = Append(@, [op |-> mut.op, epoch |-> mut.epoch])]
<1> SUFFICES Goal
  OBVIOUS
<1>1. ReplTypeOK
  BY DEF ReplInv
<1>2. ASSUME NEW n \in Node, NEW mut \in Mutation, Sanctioned(n, mut), ApplyPrepared(n, mut)
      PROVE  Goal
  BY <1>1, <1>2, ApplyEffect DEF Appends
<1>3. ASSUME UNCHANGED log
      PROVE  Goal
  BY <1>3
<1> HIDE DEF Goal
<1>4. ASSUME NEW n \in Node, NEW ok \in PersistOutcome, FinishCommit(n, ok)
      PROVE  Goal
  <2>1. commit[n].mut \in Mutation
    BY <1>1, <1>4 DEF FinishCommit, Prepared, StateFree, ReplTypeOK, Commit
  <2>2. <<n, commit[n].mut.epoch>> \in elected
    BY <1>4, AuthorityIsElected DEF FinishCommit
  <2> QED BY <1>2, <1>4, <2>1, <2>2 DEF FinishCommit, Sanctioned
<1>5. ASSUME NEW m \in inflight, HandleCommit(m) \/ SyncApply(m)
      PROVE  Goal
  <2>1. m.dst \in Node /\ m.mut \in Mutation
    BY <1>1 DEF ReplTypeOK, Message
  <2>2. m.kind \in {"commit", "sync"} /\ m.fenced
    BY <1>5 DEF HandleCommit, SyncApply, ReplInv, OneSyncThread
  <2>3. Sanctioned(m.dst, m.mut)
    BY <2>2 DEF Sanctioned
  <2>4. UNCHANGED log \/ ApplyPrepared(m.dst, m.mut)
    BY <1>5 DEF HandleCommit, SyncApply, logVars
  <2> QED BY <1>2, <1>3, <2>1, <2>3, <2>4
<1>6. ASSUME NEW n \in Node,
             \/ ElectionStep(n)
             \/ CrashRestart(n)
             \/ ReadElectionStatus(n) \/ ReadElectionPending(n)
             \/ \E op \in Op : BeginCommit(n, op) \/ AckDuplicate(n, op)
             \/ LoadPending(n) \/ RecoverOld(n) \/ RecoverOne(n) \/ RecoveryEnds(n)
             \/ SyncBegin(n) \/ SyncEnd(n)
      PROVE  UNCHANGED log
  BY <1>6 DEF ElectionStep, replVars, CrashRestart, ReadElectionStatus, ReadElectionPending,
              BeginCommit, AckDuplicate, LoadPending, RecoverOld, RecoverOne, RecoveryEnds,
              SyncBegin, SyncEnd
<1>7. ASSUME NEW n \in Node, NEW ok \in PersistOutcome,
             \/ Campaign(n, ok) \/ CommitTimesOut(n, ok) \/ CommitLosesAuthority(n, ok)
             \/ RecoveryStops(n, ok) \/ SyncFence(n, ok)
      PROVE  UNCHANGED log
  BY <1>7 DEF Campaign, CommitTimesOut, CommitLosesAuthority, RecoveryStops, SyncFence
<1>8. ASSUME \/ \E m \in requests : ReadVoterStatus(m)
             \/ \E b \in ballots : ReadVoterPending(b)
             \/ \E b \in ballots, ok \in PersistOutcome : Vote(b, ok)
             \/ \E m \in inflight : \/ \E ok \in PersistOutcome : FenceMessage(m, ok)
                                    \/ \E heard \in BOOLEAN : HandlePrepare(m, heard)
                                    \/ HandleAbort(m)
      PROVE  UNCHANGED log
  BY <1>8 DEF ReadVoterStatus, ReadVoterPending, Vote, FenceMessage, HandlePrepare, HandleAbort
<1>9. CASE ElectionMessage
  BY <1>3, <1>9 DEF ElectionMessage, replVars
<1>10. CASE UNCHANGED allVars
  BY <1>3, <1>10 DEF allVars, replVars
<1> QED
  BY <1>3, <1>4, <1>5, <1>6, <1>7, <1>8, <1>9, <1>10, Zenon DEF ReplNext

\* Logs are append-only: no step changes or removes what is in one.
LEMMA EntriesStay ==
  ASSUME ReplInv, [ReplNext]_allVars, NEW l \in Node, NEW i \in DOMAIN log[l]
  PROVE  i \in DOMAIN log'[l] /\ log'[l][i] = log[l][i]
<1>1. log \in [Node -> Seq(Entry)]
  BY DEF ReplInv, ReplTypeOK
<1>2. CASE log' = log
  BY <1>2
<1>3. ASSUME NEW n \in Node, NEW new \in Mutation,
             log' = [log EXCEPT ![n] = Append(@, [op |-> new.op, epoch |-> new.epoch])]
      PROVE  i \in DOMAIN log'[l] /\ log'[l][i] = log[l][i]
  <2> DEFINE e == [op |-> new.op, epoch |-> new.epoch]
  <2>1. e \in Entry
    BY DEF Mutation, Entry
  <2>2. log' = [log EXCEPT ![n] = Append(log[n], e)]
    BY <1>3
  <2> HIDE DEF e
  <2>3. CASE l = n
    <3>1. log'[l] = Append(log[l], e) /\ log[l] \in Seq(Entry)
      BY <1>1, <2>2, <2>3
    <3> QED BY <2>1, <3>1
  <2>4. CASE l # n
    BY <1>1, <2>2, <2>4
  <2> QED BY <2>3, <2>4
<1> QED BY <1>2, <1>3, StepAppends

\* So what a leader has decided stays decided.
LEMMA DecidedStays ==
  ASSUME ReplInv, [ReplNext]_allVars, NEW mut, Decided(mut)
  PROVE  Decided(mut)'
<1>1. elected \subseteq elected'
  BY StepElects, ElectionGrows DEF ReplInv
<1>2. PICK l \in Node : /\ <<l, mut.epoch>> \in elected
                        /\ mut.seq \in DOMAIN log[l]
                        /\ MutationAt(l, mut.seq) = mut
  BY DEF Decided
<1>3. mut.seq \in DOMAIN log'[l] /\ log'[l][mut.seq] = log[l][mut.seq]
  BY <1>2, EntriesStay
<1> QED BY <1>1, <1>2, <1>3 DEF Decided, MutationAt

\* What is appended was decided by the leader of its epoch, who may be the node
\* itself, and its epoch is on the disk of the node.
LEMMA EntriesKeep ==
  ASSUME ReplInv, [ReplNext]_allVars
  PROVE  /\ \A n \in Node : \A i \in DOMAIN log'[n] : Decided(MutationAt(n, i))'
         /\ LogBehindTerm'
<1> SUFFICES ASSUME NEW q \in Node, NEW i \in DOMAIN log'[q]
             PROVE  Decided(MutationAt(q, i))' /\ log'[q][i].epoch <= disk'[q].term
  BY DEF LogBehindTerm
<1>1. elected \subseteq elected' /\ \A n \in Node : disk[n].term <= disk'[n].term
  BY StepElects, ElectionGrows DEF ReplInv
<1>2. TypeOK /\ TypeOK'
  BY StepElects, NextTypeOK DEF ReplInv, ElectionInv
<1>3. disk[q].term \in Nat /\ disk'[q].term \in Nat
  BY <1>2 DEF TypeOK
<1>4. log \in [Node -> Seq(Entry)]
  BY DEF ReplInv, ReplTypeOK
<1>5. ASSUME i \in DOMAIN log[q], log'[q][i] = log[q][i]
      PROVE  Decided(MutationAt(q, i))' /\ log'[q][i].epoch <= disk'[q].term
  <2>1. PICK mut : mut = MutationAt(q, i)
    OBVIOUS
  <2>2. mut = MutationAt(q, i)'
    BY <1>5, <2>1 DEF MutationAt
  <2>3. Decided(mut)
    BY <1>5, <2>1 DEF ReplInv, LeadersDecide
  <2>4. Decided(mut)'
    BY <2>3, DecidedStays
  <2>5. log[q][i].epoch <= disk[q].term /\ log[q][i].epoch \in Nat
    <3>1. log[q][i] \in Entry
      BY <1>4, <1>5
    <3> QED BY <1>5, <3>1 DEF ReplInv, LogBehindTerm, Entry
  <2>6. log'[q][i].epoch <= disk'[q].term
    BY <1>1, <1>3, <1>5, <2>5
  <2> QED BY <2>2, <2>4, <2>6 DEF Decided
<1>6. CASE log' = log
  BY <1>5, <1>6
<1>7. ASSUME NEW n \in Node, NEW mut \in Mutation,
             Sanctioned(n, mut), mut.seq = Len(log[n]) + 1,
             log' = [log EXCEPT ![n] = Append(@, [op |-> mut.op, epoch |-> mut.epoch])]
      PROVE  Decided(MutationAt(q, i))' /\ log'[q][i].epoch <= disk'[q].term
  <2> DEFINE e == [op |-> mut.op, epoch |-> mut.epoch]
  <2>1. e \in Entry /\ e.op = mut.op /\ e.epoch = mut.epoch /\ mut.epoch \in Nat
    BY DEF Mutation, Entry
  <2>2. log' = [log EXCEPT ![n] = Append(log[n], e)]
    BY <1>7
  <2> HIDE DEF e
  <2>3. CASE q # n
    BY <1>4, <1>5, <2>2, <2>3
  <2>4. CASE q = n
    <3>1. log'[q] = Append(log[q], e) /\ log[q] \in Seq(Entry)
      BY <1>4, <2>2, <2>4
    <3>2. CASE i # mut.seq
      <4>1. i \in DOMAIN log[q] /\ log'[q][i] = log[q][i]
        BY <1>7, <2>1, <2>4, <3>1, <3>2
      <4> QED BY <1>5, <4>1
    <3>3. CASE i = mut.seq
      <4>1. log'[q][i] = e
        BY <1>7, <2>1, <2>4, <3>1, <3>3
      <4>2. MutationAt(q, i)' = mut
        BY <2>1, <3>3, <4>1 DEF MutationAt, Mutation
      <4>3. CASE <<n, mut.epoch>> \in elected
        <5>1. Decided(mut)'
          BY <1>1, <2>4, <3>3, <4>2, <4>3 DEF Decided
        <5>2. mut.epoch <= disk[n].term
          BY <4>3 DEF ReplInv, ElectionInv, QuorumElected
        <5> QED BY <1>1, <1>3, <2>1, <2>4, <4>1, <4>2, <5>1, <5>2 DEF Decided
      <4>4. ASSUME NEW m \in inflight, m.kind \in {"commit", "sync"}, m.fenced,
                   m.dst = n, m.mut = mut
            PROVE  Decided(MutationAt(q, i))' /\ log'[q][i].epoch <= disk'[q].term
        <5>1. Decided(mut) /\ mut.epoch <= disk[n].term
          BY <4>4 DEF ReplInv, LeadersDecide, FencedOnDisk
        <5>2. Decided(mut)'
          BY <5>1, DecidedStays
        <5> QED BY <1>1, <1>3, <2>1, <2>4, <4>1, <4>2, <5>1, <5>2 DEF Decided
      <4> QED BY <1>7, <4>3, <4>4 DEF Sanctioned
    <3> QED BY <3>2, <3>3
  <2> QED BY <2>3, <2>4
<1> QED BY <1>6, <1>7, StepAppends

\* What a step sends.  A prepare or an abort has the epoch of an elected leader; a
\* commit is sent for what is in the leader's log by then; catch-up is answered
\* from a log; and what passes the fence has its epoch on disk.
NewRequest(m) ==
    \/ m.kind \in {"prepare", "abort"} /\ ~m.fenced /\ Elected(m.mut.epoch)
    \/ m.kind = "commit" /\ ~m.fenced /\ Decided(m.mut)'
    \/ /\ m.kind = "sync" /\ m.fenced /\ Decided(m.mut)
       /\ m.mut.epoch <= disk'[m.dst].term
    \/ /\ \E x \in inflight : ~x.fenced /\ m.kind = x.kind /\ m.mut = x.mut
       /\ m.mut.epoch <= disk'[m.dst].term

\* Persisting a term puts it on disk.
LEMMA FencePersists ==
  ASSUME TypeOK, NEW v \in Node, NEW l, NEW term \in Nat, AcceptReplication(v, l, term, TRUE)
  PROVE  term <= disk'[v].term
  BY DEF AcceptReplication, Persist, TypeOK

\* Every request under way after a step was there before or is one of these.
LEMMA StepSends ==
  ASSUME ReplInv, [ReplNext]_allVars, NEW m \in inflight'
  PROVE  m \in inflight \/ NewRequest(m)
<1>1. TypeOK /\ ReplTypeOK
  BY DEF ReplInv, ElectionInv
<1>2. ASSUME NEW n \in Node, NEW mut \in Mutation, NEW kind \in {"prepare", "abort"},
             Elected(mut.epoch), inflight' = inflight \union Posts(kind, n, mut)
      PROVE  m \in inflight \/ NewRequest(m)
  BY <1>2, PostsType DEF NewRequest
<1>3. ASSUME NEW n \in Node, NEW op \in Op, BeginCommit(n, op)
      PROVE  m \in inflight \/ NewRequest(m)
  <2> DEFINE mut == [seq |-> Len(log[n]) + 1, op |-> op, epoch |-> currentTerm[n]]
  <2>1. Len(log[n]) + 1 \in 1 .. MaxSeq /\ currentTerm[n] \in Nat
    BY <1>1, <1>3, ReplicationAssumption DEF BeginCommit, ReplTypeOK, TypeOK
  <2>2. mut \in Mutation /\ mut.epoch = currentTerm[n]
    BY <2>1 DEF Mutation
  <2>3. Elected(currentTerm[n])
    BY <1>3 DEF BeginCommit, ReplInv, LeadersElected, Elected
  <2>4. inflight' = inflight \union Posts("prepare", n, mut)
    BY <1>3 DEF BeginCommit
  <2> HIDE DEF mut
  <2> QED BY <1>2, <2>2, <2>3, <2>4
<1>4. ASSUME NEW n \in Node, NEW ok \in PersistOutcome,
             CommitTimesOut(n, ok) \/ CommitLosesAuthority(n, ok)
      PROVE  m \in inflight \/ NewRequest(m)
  <2>1. commit[n] # None /\ commit[n].mut \in Mutation
    BY <1>1, <1>4 DEF CommitTimesOut, CommitLosesAuthority, Prepared, StateFree, ReplTypeOK,
                      Commit
  <2>2. Elected(commit[n].mut.epoch)
    BY <2>1 DEF ReplInv, EpochsElected
  <2>3. inflight' = inflight \/ inflight' = inflight \union Posts("abort", n, commit[n].mut)
    BY <1>4 DEF CommitTimesOut, CommitLosesAuthority
  <2> QED BY <1>2, <2>1, <2>2, <2>3
<1>5. ASSUME NEW n \in Node, NEW ok \in PersistOutcome, FinishCommit(n, ok)
      PROVE  m \in inflight \/ NewRequest(m)
  <2>1. PICK mut \in Mutation : mut = commit[n].mut
    BY <1>1, <1>5 DEF FinishCommit, Prepared, StateFree, ReplTypeOK, Commit
  <2>2. <<n, mut.epoch>> \in elected
    BY <1>5, <2>1, AuthorityIsElected DEF FinishCommit
  <2>3. CASE ~Applies(n, mut)
    BY <1>5, <2>1, <2>3 DEF FinishCommit
  <2>4. CASE Applies(n, mut)
    <3>1. inflight' = inflight \union Posts("commit", n, mut)
      BY <1>5, <2>1, <2>4 DEF FinishCommit
    <3>2. CASE Duplicate(n, mut)
      <4>1. Decided(mut)
        BY <2>2, <3>2 DEF Duplicate, Decided
      <4>2. Decided(mut)'
        BY <4>1, DecidedStays
      <4> QED BY <3>1, <4>2, PostsType DEF NewRequest
    <3>3. CASE Appends(n, mut)
      <4> DEFINE e == [op |-> mut.op, epoch |-> mut.epoch]
      <4>1. log'[n] = Append(log[n], e) /\ log[n] \in Seq(Entry)
        BY <1>1, <1>5, <2>1, <3>3 DEF FinishCommit, ApplyPrepared, ReplTypeOK
      <4>2. e \in Entry /\ e.op = mut.op /\ e.epoch = mut.epoch
        BY DEF Mutation, Entry
      <4> HIDE DEF e
      <4>3. mut.seq \in DOMAIN log'[n] /\ log'[n][mut.seq] = e
        BY <3>3, <4>1, <4>2 DEF Appends
      <4>4. MutationAt(n, mut.seq)' = mut
        BY <4>2, <4>3 DEF MutationAt, Mutation
      <4>5. elected \subseteq elected'
        BY StepElects, ElectionGrows DEF ReplInv
      <4>6. Decided(mut)'
        BY <2>2, <4>3, <4>4, <4>5 DEF Decided
      <4> QED BY <3>1, <4>6, PostsType DEF NewRequest
    <3> QED BY <2>4, <3>2, <3>3 DEF Applies
  <2> QED BY <2>3, <2>4
<1>6. ASSUME NEW n \in Node, RecoverOne(n)
      PROVE  m \in inflight \/ NewRequest(m)
  <2> DEFINE x == FirstOf(recovery[n])
             mut == [x EXCEPT !.epoch = task[n].term]
  <2>1. recovery[n] \in SUBSET Mutation /\ recovery[n] # {}
    BY <1>1, <1>6 DEF RecoverOne, Recovering, ReplTypeOK
  <2>2. x \in Mutation /\ task[n].term \in Nat
    BY <1>1, <2>1, FirstIsOne DEF TypeOK, Task
  <2>3. Elected(task[n].term)
    BY <1>6 DEF RecoverOne, Recovering, ReplInv, LeadersElected, Elected
  <2>4. inflight' = inflight \union Posts("prepare", n, mut)
    BY <1>6 DEF RecoverOne
  <2> HIDE DEF x
  <2>5. mut \in Mutation /\ mut.epoch = task[n].term
    BY <2>2 DEF Mutation
  <2> HIDE DEF mut
  <2> QED BY <1>2, <2>3, <2>4, <2>5
<1>7. ASSUME NEW n \in Node, NEW ok \in PersistOutcome, SyncFence(n, ok)
      PROVE  m \in inflight \/ NewRequest(m)
  <2>1. PICK mut : mut = MutationAt(sync[n].src, sync[n].next)
    OBVIOUS
  <2>2. /\ sync[n].src \in Node /\ sync[n].next \in DOMAIN log[sync[n].src]
        /\ AcceptReplication(n, sync[n].src, mut.epoch, ok)
    BY <1>1, <1>7, <2>1 DEF SyncFence, ReplTypeOK
  <2>3. log[sync[n].src][sync[n].next] \in Entry
    BY <1>1, <2>2 DEF ReplTypeOK
  <2>4. Decided(mut) /\ mut.epoch \in Nat
    BY <2>1, <2>2, <2>3 DEF ReplInv, LeadersDecide, MutationAt, Entry
  <2>5. CASE ok
    <3>1. mut.epoch <= disk'[n].term
      BY <1>1, <2>2, <2>4, <2>5, FencePersists
    <3>2. inflight' = inflight \union {[kind |-> "sync", src |-> sync[n].src, dst |-> n,
                                        mut |-> mut, fenced |-> TRUE]}
      BY <1>7, <2>1, <2>5 DEF SyncFence
    <3> QED BY <2>4, <3>1, <3>2 DEF NewRequest
  <2>6. CASE ~ok
    BY <1>7, <2>6 DEF SyncFence
  <2> QED BY <2>5, <2>6
<1>8. ASSUME NEW x \in inflight, NEW ok \in PersistOutcome, FenceMessage(x, ok)
      PROVE  m \in inflight \/ NewRequest(m)
  <2>1. x.dst \in Node /\ x.mut.epoch \in Nat
    BY <1>1 DEF ReplTypeOK, Message, Mutation
  <2>2. \/ m \in inflight
        \/ /\ AcceptReplication(x.dst, x.src, x.mut.epoch, ok) /\ ok /\ ~x.fenced
           /\ m = [x EXCEPT !.fenced = TRUE]
    BY <1>8 DEF FenceMessage
  <2>3. ASSUME AcceptReplication(x.dst, x.src, x.mut.epoch, ok), ok, ~x.fenced,
               m = [x EXCEPT !.fenced = TRUE]
        PROVE  NewRequest(m)
    <3>1. x.mut.epoch <= disk'[x.dst].term
      BY <1>1, <2>1, <2>3, FencePersists
    <3>2. m.kind = x.kind /\ m.mut = x.mut /\ m.dst = x.dst
      BY <1>1, <2>3 DEF ReplTypeOK, Message
    <3> QED BY <2>3, <3>1, <3>2 DEF NewRequest
  <2> QED BY <2>2, <2>3
<1>9. ASSUME NEW n \in Node,
             \/ ElectionStep(n)
             \/ CrashRestart(n)
             \/ ReadElectionStatus(n) \/ ReadElectionPending(n)
             \/ \E op \in Op : AckDuplicate(n, op)
             \/ \E ok \in PersistOutcome : Campaign(n, ok) \/ RecoveryStops(n, ok)
             \/ LoadPending(n) \/ RecoverOld(n) \/ RecoveryEnds(n)
             \/ SyncBegin(n) \/ SyncEnd(n)
      PROVE  m \in inflight
  BY <1>9 DEF ElectionStep, replVars, CrashRestart, ReadElectionStatus, ReadElectionPending,
              AckDuplicate, Campaign, RecoveryStops, LoadPending, RecoverOld, RecoveryEnds,
              SyncBegin, SyncEnd
<1>10. ASSUME \/ \E x \in requests : ReadVoterStatus(x)
              \/ \E b \in ballots : ReadVoterPending(b)
              \/ \E b \in ballots, ok \in PersistOutcome : Vote(b, ok)
              \/ \E x \in inflight : \/ \E heard \in BOOLEAN : HandlePrepare(x, heard)
                                     \/ HandleCommit(x) \/ HandleAbort(x) \/ SyncApply(x)
       PROVE  m \in inflight
  BY <1>10 DEF ReadVoterStatus, ReadVoterPending, Vote, HandlePrepare, HandleCommit,
               HandleAbort, SyncApply
<1>11. CASE ElectionMessage
  BY <1>11 DEF ElectionMessage, replVars
<1>12. CASE UNCHANGED allVars
  BY <1>12 DEF allVars, replVars
<1> QED
  BY <1>3, <1>4, <1>5, <1>6, <1>7, <1>8, <1>9, <1>10, <1>11, <1>12, Zenon DEF ReplNext

\* A commit that a step begins has the epoch of an elected leader.
LEMMA StepCommits ==
  ASSUME ReplInv, [ReplNext]_allVars, NEW q \in Node, commit'[q] # None
  PROVE  Elected(commit'[q].mut.epoch)
<1>1. TypeOK /\ ReplTypeOK
  BY DEF ReplInv, ElectionInv
<1>2. ASSUME commit[q] # None, commit'[q].mut = commit[q].mut
      PROVE  Elected(commit'[q].mut.epoch)
  BY <1>2 DEF ReplInv, EpochsElected
<1>3. ASSUME NEW n \in Node, commit' = [commit EXCEPT ![n] = None]
      PROVE  Elected(commit'[q].mut.epoch)
  BY <1>1, <1>2, <1>3 DEF ReplTypeOK
<1>4. ASSUME NEW n \in Node, NEW op \in Op, BeginCommit(n, op)
      PROVE  Elected(commit'[q].mut.epoch)
  <2>1. CASE q # n
    BY <1>1, <1>2, <1>4, <2>1 DEF BeginCommit, ReplTypeOK
  <2>2. CASE q = n
    <3>1. commit'[q].mut.epoch = currentTerm[n]
      BY <1>1, <1>4, <2>2 DEF BeginCommit, ReplTypeOK
    <3> QED BY <1>4, <3>1 DEF BeginCommit, ReplInv, LeadersElected, Elected
  <2> QED BY <2>1, <2>2
<1>5. ASSUME NEW n \in Node, RecoverOne(n)
      PROVE  Elected(commit'[q].mut.epoch)
  <2>1. CASE q # n
    BY <1>1, <1>2, <1>5, <2>1 DEF RecoverOne, ReplTypeOK
  <2>2. CASE q = n
    <3> DEFINE x == FirstOf(recovery[n])
               mut == [x EXCEPT !.epoch = task[n].term]
    <3>1. recovery[n] \in SUBSET Mutation /\ recovery[n] # {}
      BY <1>1, <1>5 DEF RecoverOne, Recovering, ReplTypeOK
    <3>2. x \in Mutation
      BY <3>1, FirstIsOne
    <3>3. commit'[q].mut = mut
      BY <1>1, <1>5, <2>2 DEF RecoverOne, ReplTypeOK
    <3> HIDE DEF x
    <3>4. mut.epoch = task[n].term
      BY <3>2 DEF Mutation
    <3> QED
      BY <1>5, <3>3, <3>4 DEF RecoverOne, Recovering, ReplInv, LeadersElected, Elected
  <2> QED BY <2>1, <2>2
<1>6. ASSUME NEW n \in Node, NEW ok \in PersistOutcome,
             CommitTimesOut(n, ok) \/ CommitLosesAuthority(n, ok) \/ FinishCommit(n, ok)
      PROVE  Elected(commit'[q].mut.epoch)
  BY <1>3, <1>6 DEF CommitTimesOut, CommitLosesAuthority, FinishCommit, EndWithError
<1>7. ASSUME NEW n \in Node, CrashRestart(n)
      PROVE  Elected(commit'[q].mut.epoch)
  BY <1>3, <1>7 DEF CrashRestart
<1>8. ASSUME NEW m \in inflight, NEW heard \in BOOLEAN, HandlePrepare(m, heard)
      PROVE  Elected(commit'[q].mut.epoch)
  <2>1. \/ commit' = commit
        \/ /\ commit[m.src] # None /\ m.src \in Node
           /\ commit' = [commit EXCEPT ![m.src].acks = @ \union {m.dst}]
    BY <1>1, <1>8 DEF HandlePrepare, ReplTypeOK, Message
  <2>2. CASE commit' = commit
    BY <1>2, <2>2
  <2>3. CASE /\ commit[m.src] # None /\ m.src \in Node
             /\ commit' = [commit EXCEPT ![m.src].acks = @ \union {m.dst}]
    <3>1. commit[q] # None
      BY <1>1, <2>3 DEF ReplTypeOK
    <3>2. commit[q] \in Commit
      BY <1>1, <3>1 DEF ReplTypeOK
    <3>3. commit'[q] = commit[q] \/ commit'[q] = [commit[q] EXCEPT !.acks = @ \union {m.dst}]
      BY <1>1, <2>3 DEF ReplTypeOK
    <3>4. commit'[q].mut = commit[q].mut
      BY <3>2, <3>3 DEF Commit
    <3> QED BY <1>2, <3>1, <3>4
  <2> QED BY <2>1, <2>2, <2>3
<1>9. ASSUME UNCHANGED commit
      PROVE  Elected(commit'[q].mut.epoch)
  BY <1>2, <1>9
<1>10. ASSUME NEW n \in Node,
              \/ ElectionStep(n)
              \/ ReadElectionStatus(n) \/ ReadElectionPending(n)
              \/ \E op \in Op : AckDuplicate(n, op)
              \/ \E ok \in PersistOutcome : \/ Campaign(n, ok) \/ RecoveryStops(n, ok)
                                            \/ SyncFence(n, ok)
              \/ LoadPending(n) \/ RecoverOld(n) \/ RecoveryEnds(n)
              \/ SyncBegin(n) \/ SyncEnd(n)
       PROVE  UNCHANGED commit
  BY <1>10 DEF ElectionStep, replVars, ReadElectionStatus, ReadElectionPending, AckDuplicate,
               Campaign, RecoveryStops, SyncFence, LoadPending, RecoverOld, RecoveryEnds,
               SyncBegin, SyncEnd
<1>11. ASSUME \/ \E x \in requests : ReadVoterStatus(x)
              \/ \E b \in ballots : ReadVoterPending(b)
              \/ \E b \in ballots, ok \in PersistOutcome : Vote(b, ok)
              \/ \E x \in inflight : \/ \E ok \in PersistOutcome : FenceMessage(x, ok)
                                     \/ HandleCommit(x) \/ HandleAbort(x) \/ SyncApply(x)
       PROVE  UNCHANGED commit
  BY <1>11 DEF ReadVoterStatus, ReadVoterPending, Vote, FenceMessage, HandleCommit, HandleAbort,
               SyncApply
<1>12. CASE ElectionMessage
  BY <1>9, <1>12 DEF ElectionMessage, replVars
<1>13. CASE UNCHANGED allVars
  BY <1>9, <1>13 DEF allVars, replVars
<1> QED
  BY <1>4, <1>5, <1>6, <1>7, <1>8, <1>9, <1>10, <1>11, <1>12, <1>13, Zenon DEF ReplNext

\* Requests and commits keep to elected epochs, decided mutations and the fence.
LEMMA RequestsKeep ==
  ASSUME ReplInv, [ReplNext]_allVars, ReplTypeOK'
  PROVE  EpochsElected' /\ LeadersDecide' /\ FencedOnDisk'
<1>1. elected \subseteq elected' /\ \A n \in Node : disk[n].term <= disk'[n].term
  BY StepElects, ElectionGrows DEF ReplInv
<1>2. \A epoch : Elected(epoch) => Elected(epoch)'
  BY <1>1 DEF Elected
<1>3. TypeOK /\ TypeOK'
  BY StepElects, NextTypeOK DEF ReplInv, ElectionInv
<1>4. ASSUME NEW m \in inflight'
      PROVE  /\ Elected(m.mut.epoch)'
             /\ m.kind \in {"commit", "sync"} => Decided(m.mut)'
             /\ m.fenced => m.mut.epoch <= disk'[m.dst].term
  <2>1. m.dst \in Node /\ m.mut.epoch \in Nat
    BY DEF ReplTypeOK, Message, Mutation
  <2>2. CASE m \in inflight
    <3>1. Elected(m.mut.epoch) /\ (m.fenced => m.mut.epoch <= disk[m.dst].term)
      BY <2>2 DEF ReplInv, EpochsElected, FencedOnDisk
    <3>2. m.kind \in {"commit", "sync"} => Decided(m.mut)'
      BY <2>2, DecidedStays DEF ReplInv, LeadersDecide
    <3>3. disk[m.dst].term \in Nat /\ disk'[m.dst].term \in Nat
      BY <1>3, <2>1 DEF TypeOK
    <3> QED BY <1>1, <1>2, <2>1, <3>1, <3>2, <3>3
  <2>3. CASE NewRequest(m)
    <3>1. CASE m.kind \in {"prepare", "abort"} /\ ~m.fenced /\ Elected(m.mut.epoch)
      BY <1>2, <3>1
    <3>2. CASE m.kind = "commit" /\ ~m.fenced /\ Decided(m.mut)'
      BY <3>2 DEF Decided, Elected
    <3>3. CASE /\ m.kind = "sync" /\ m.fenced /\ Decided(m.mut)
               /\ m.mut.epoch <= disk'[m.dst].term
      <4>1. Elected(m.mut.epoch)
        BY <3>3 DEF Decided, Elected
      <4> QED BY <1>2, <3>3, <4>1, DecidedStays
    <3>4. ASSUME NEW x \in inflight, m.kind = x.kind, m.mut = x.mut,
                 m.mut.epoch <= disk'[m.dst].term
          PROVE  /\ Elected(m.mut.epoch)'
                 /\ m.kind \in {"commit", "sync"} => Decided(m.mut)'
                 /\ m.fenced => m.mut.epoch <= disk'[m.dst].term
      <4>1. Elected(m.mut.epoch) /\ (m.kind \in {"commit", "sync"} => Decided(m.mut))
        BY <3>4 DEF ReplInv, EpochsElected, LeadersDecide
      <4> QED BY <1>2, <3>4, <4>1, DecidedStays
    <3> QED BY <2>3, <3>1, <3>2, <3>3, <3>4 DEF NewRequest
  <2> QED BY <2>2, <2>3, StepSends
<1>5. \A n \in Node : commit'[n] # None => Elected(commit[n].mut.epoch)'
  BY <1>1, StepCommits DEF Elected
<1> QED BY <1>4, <1>5, EntriesKeep DEF EpochsElected, LeadersDecide, FencedOnDisk

\* A step that adds no catch-up request and leaves the passes of catch-up alone.
LEMMA SyncStays ==
  ASSUME OneSyncThread, UNCHANGED sync,
         \A m \in inflight' : m.kind = "sync" => m \in inflight
  PROVE  OneSyncThread'
  BY DEF OneSyncThread, SyncThreads

\* sync_from_leader has one mutation at a time under way on a node.
LEMMA SyncKeeps ==
  ASSUME ReplInv, [ReplNext]_allVars
  PROVE  OneSyncThread'
<1>1. ReplTypeOK /\ OneSyncThread
  BY DEF ReplInv
<1>2. ASSUME NEW kind \in {"prepare", "commit", "abort"}, NEW n, NEW mut, UNCHANGED sync,
             inflight' \subseteq inflight \union Posts(kind, n, mut)
      PROVE  OneSyncThread'
  <2>1. \A m \in Posts(kind, n, mut) : m.kind # "sync"
    BY DEF Posts
  <2> QED BY <1>1, <1>2, <2>1, SyncStays
<1>3. ASSUME NEW n \in Node,
             \/ \E op \in Op : BeginCommit(n, op)
             \/ \E ok \in PersistOutcome : \/ CommitTimesOut(n, ok) \/ CommitLosesAuthority(n, ok)
                                           \/ FinishCommit(n, ok)
             \/ RecoverOne(n)
      PROVE  OneSyncThread'
  <2>1. \E mut : \E kind \in {"prepare", "commit", "abort"} :
           inflight' \subseteq inflight \union Posts(kind, n, mut)
    BY <1>3 DEF BeginCommit, CommitTimesOut, CommitLosesAuthority, FinishCommit, RecoverOne
  <2>2. UNCHANGED sync
    BY <1>3 DEF BeginCommit, CommitTimesOut, CommitLosesAuthority, FinishCommit, RecoverOne
  <2> QED BY <1>2, <2>1, <2>2
<1>4. ASSUME NEW n \in Node, CrashRestart(n)
      PROVE  OneSyncThread'
  <2>1. \A m \in inflight' : m \in inflight /\ (m.kind = "sync" => m.dst # n)
    BY <1>1, <1>4 DEF CrashRestart, OneSyncThread
  <2>2. \A p \in Node : p # n => sync'[p] = sync[p]
    BY <1>1, <1>4 DEF CrashRestart, ReplTypeOK
  <2>3. \A m \in inflight : m.dst \in Node
    BY <1>1 DEF ReplTypeOK, Message
  <2> QED BY <1>1, <2>1, <2>2, <2>3 DEF OneSyncThread, SyncThreads
<1>5. ASSUME NEW n \in Node, SyncBegin(n)
      PROVE  OneSyncThread'
  <2>1. inflight' = inflight /\ sync[n] = None
    BY <1>5 DEF SyncBegin
  <2>2. \A p \in Node : p # n => sync'[p] = sync[p]
    BY <1>1, <1>5 DEF SyncBegin, ReplTypeOK
  <2>3. \A m \in inflight : m.dst \in Node
    BY <1>1 DEF ReplTypeOK, Message
  <2> QED BY <1>1, <2>1, <2>2, <2>3 DEF OneSyncThread, SyncThreads
<1>6. ASSUME NEW n \in Node, SyncThreads(n) = {}, sync' = [sync EXCEPT ![n] = None],
             inflight' = inflight
      PROVE  OneSyncThread'
  <2>1. \A p \in Node : p # n => sync'[p] = sync[p]
    BY <1>1, <1>6 DEF ReplTypeOK
  <2>2. \A m \in inflight : m.dst \in Node
    BY <1>1 DEF ReplTypeOK, Message
  <2> QED BY <1>1, <1>6, <2>1, <2>2 DEF OneSyncThread, SyncThreads
<1>7. ASSUME NEW n \in Node, SyncEnd(n)
      PROVE  OneSyncThread'
  BY <1>6, <1>7 DEF SyncEnd
<1>8. ASSUME NEW n \in Node, NEW ok \in PersistOutcome, SyncFence(n, ok)
      PROVE  OneSyncThread'
  <2> DEFINE new == [kind |-> "sync", src |-> sync[n].src, dst |-> n,
                     mut |-> MutationAt(sync[n].src, sync[n].next), fenced |-> TRUE]
  <2>1. SyncThreads(n) = {} /\ sync[n] # None
    BY <1>8 DEF SyncFence
  <2>2. CASE ok
    <3>1. inflight' = inflight \union {new} /\ sync' = sync
      BY <1>8, <2>2 DEF SyncFence
    <3>2. new.kind = "sync" /\ new.dst = n /\ new.fenced
      OBVIOUS
    <3> HIDE DEF new
    <3> QED BY <1>1, <2>1, <3>1, <3>2 DEF OneSyncThread, SyncThreads
  <2>3. CASE ~ok
    BY <1>6, <1>8, <2>1, <2>3 DEF SyncFence
  <2> QED BY <2>2, <2>3
<1>9. ASSUME NEW x \in inflight, SyncApply(x)
      PROVE  OneSyncThread'
  <2>1. x.kind = "sync" /\ inflight' = inflight \ {x}
    BY <1>9 DEF SyncApply
  <2>2. \A m \in inflight : m.dst \in Node
    BY <1>1 DEF ReplTypeOK, Message
  <2>3. \A p \in Node : p # x.dst => sync'[p] = sync[p]
    BY <1>1, <1>9, <2>2 DEF SyncApply, ReplTypeOK
  <2>4. \A m \in inflight' : m.kind = "sync" => m.dst # x.dst
    BY <1>1, <2>1 DEF OneSyncThread, SyncThreads
  <2> QED BY <1>1, <2>1, <2>2, <2>3, <2>4 DEF OneSyncThread, SyncThreads
<1>10. ASSUME NEW x \in inflight, NEW ok \in PersistOutcome, FenceMessage(x, ok)
       PROVE  OneSyncThread'
  <2>1. x.kind # "sync"
    BY <1>1, <1>10 DEF FenceMessage, OneSyncThread
  <2>2. [x EXCEPT !.fenced = TRUE].kind # "sync"
    BY <1>1, <2>1 DEF ReplTypeOK, Message
  <2>3. UNCHANGED sync /\ inflight' \subseteq inflight \union {[x EXCEPT !.fenced = TRUE]}
    BY <1>10 DEF FenceMessage
  <2> QED BY <1>1, <2>2, <2>3, SyncStays
<1>11. ASSUME UNCHANGED sync, inflight' \subseteq inflight
       PROVE  OneSyncThread'
  BY <1>1, <1>11, SyncStays
<1>12. ASSUME NEW n \in Node,
              \/ ElectionStep(n)
              \/ ReadElectionStatus(n) \/ ReadElectionPending(n)
              \/ \E op \in Op : AckDuplicate(n, op)
              \/ \E ok \in PersistOutcome : Campaign(n, ok) \/ RecoveryStops(n, ok)
              \/ LoadPending(n) \/ RecoverOld(n) \/ RecoveryEnds(n)
       PROVE  UNCHANGED sync /\ inflight' \subseteq inflight
  BY <1>12 DEF ElectionStep, replVars, ReadElectionStatus, ReadElectionPending, AckDuplicate,
               Campaign, RecoveryStops, LoadPending, RecoverOld, RecoveryEnds
<1>13. ASSUME \/ \E x \in requests : ReadVoterStatus(x)
              \/ \E b \in ballots : ReadVoterPending(b)
              \/ \E b \in ballots, ok \in PersistOutcome : Vote(b, ok)
              \/ \E x \in inflight : \/ \E heard \in BOOLEAN : HandlePrepare(x, heard)
                                     \/ HandleCommit(x) \/ HandleAbort(x)
       PROVE  UNCHANGED sync /\ inflight' \subseteq inflight
  BY <1>13 DEF ReadVoterStatus, ReadVoterPending, Vote, HandlePrepare, HandleCommit, HandleAbort
<1>14. CASE ElectionMessage
  BY <1>11, <1>14 DEF ElectionMessage, replVars
<1>15. CASE UNCHANGED allVars
  BY <1>11, <1>15 DEF allVars, replVars
<1> QED
  BY <1>3, <1>4, <1>5, <1>7, <1>8, <1>9, <1>10, <1>11, <1>12, <1>13, <1>14, <1>15, Zenon
     DEF ReplNext

\* A vote request stays open as long as a handler has a ballot for it.
LEMMA BallotsKeep ==
  ASSUME ReplInv, [ReplNext]_allVars
  PROVE  BallotsOpen'
<1>1. TypeOK /\ ReplTypeOK /\ BallotsOpen
  BY DEF ReplInv, ElectionInv
<1>2. ASSUME \A x \in requests : x.type = "elect" => x \in requests', ballots' \subseteq ballots
      PROVE  BallotsOpen'
  BY <1>1, <1>2 DEF BallotsOpen
<1>3. ASSUME NEW x \in requests, ReadVoterStatus(x)
      PROVE  BallotsOpen'
  <2>1. requests' = requests
    BY <1>3 DEF ReadVoterStatus, electionVars
  <2> QED BY <1>1, <1>3, <2>1 DEF ReadVoterStatus, BallotsOpen
<1>4. ASSUME NEW b \in ballots, ReadVoterPending(b)
      PROVE  BallotsOpen'
  <2> DEFINE new == [b EXCEPT !.status = WithPending(b.req.dst, @)]
  <2>1. requests' = requests /\ ballots' = (ballots \ {b}) \union {new}
    BY <1>4 DEF ReadVoterPending, electionVars
  <2>2. new.req = b.req
    BY <1>1 DEF ReplTypeOK
  <2> HIDE DEF new
  <2> QED BY <1>1, <2>1, <2>2 DEF BallotsOpen
<1>5. ASSUME NEW b \in ballots, NEW ok \in PersistOutcome, Vote(b, ok)
      PROVE  BallotsOpen'
  <2>1. requests' = requests \ {b.req} /\ ballots' = ballots \ {b}
    BY <1>5 DEF Vote, HandleRequestVote
  <2> QED BY <1>1, <2>1 DEF BallotsOpen
<1>6. ASSUME NEW n \in Node, CrashRestart(n)
      PROVE  BallotsOpen'
  <2>1. requests' = requests /\ ballots' \subseteq ballots
    BY <1>6 DEF CrashRestart, Restart
  <2> QED BY <1>2, <2>1
<1>7. ASSUME NEW n \in Node, ElectionStep(n)
      PROVE  BallotsOpen'
  <2>1. requests \subseteq requests' /\ ballots' = ballots
    BY <1>7 DEF ElectionStep, replVars, SendRpc, RpcFails, BecomeLeader, LoseElection,
                SendHeartbeats, RoundDone
  <2> QED BY <1>2, <2>1
<1>8. ASSUME ElectionMessage
      PROVE  BallotsOpen'
  <2>1. ballots' = ballots /\ \A x \in requests : x.type = "elect" => x \in requests'
    BY <1>8 DEF ElectionMessage, replVars, HandleHeartbeat, ReceiveVoteReply,
                ReceiveHeartbeatReply
  <2> QED BY <1>2, <2>1
<1>9. ASSUME UNCHANGED <<requests, ballots>>
      PROVE  BallotsOpen'
  BY <1>2, <1>9
<1>10. ASSUME NEW n \in Node, NEW ok \in PersistOutcome,
              \/ Campaign(n, ok) \/ CommitTimesOut(n, ok) \/ CommitLosesAuthority(n, ok)
              \/ FinishCommit(n, ok) \/ RecoveryStops(n, ok) \/ SyncFence(n, ok)
       PROVE  UNCHANGED <<requests, ballots>>
  BY <1>10 DEF Campaign, StartElection, CommitTimesOut, CommitLosesAuthority, FinishCommit,
               EndWithError, RecoveryStops, RecoveryFails, SyncFence, AcceptReplication,
               electionVars
<1>11. ASSUME NEW n \in Node,
              \/ ReadElectionStatus(n) \/ ReadElectionPending(n)
              \/ \E op \in Op : BeginCommit(n, op) \/ AckDuplicate(n, op)
              \/ LoadPending(n) \/ RecoverOld(n) \/ RecoverOne(n) \/ RecoveryEnds(n)
              \/ SyncBegin(n) \/ SyncEnd(n)
       PROVE  UNCHANGED <<requests, ballots>>
  BY <1>11 DEF ReadElectionStatus, ReadElectionPending, BeginCommit, AckDuplicate, LoadPending,
               RecoverOld, RecoverOne, RecoveryEnds, RecoveryDone, SyncBegin, SyncEnd,
               electionVars
<1>12. ASSUME NEW x \in inflight,
              \/ \E ok \in PersistOutcome : FenceMessage(x, ok)
              \/ \E heard \in BOOLEAN : HandlePrepare(x, heard)
              \/ HandleCommit(x) \/ HandleAbort(x) \/ SyncApply(x)
       PROVE  UNCHANGED <<requests, ballots>>
  BY <1>12 DEF FenceMessage, AcceptReplication, HandlePrepare, HandleCommit, HandleAbort,
               SyncApply, electionVars
<1>13. CASE UNCHANGED allVars
  BY <1>9, <1>13 DEF allVars, replVars, electionVars
<1> QED
  BY <1>3, <1>4, <1>5, <1>6, <1>7, <1>8, <1>9, <1>10, <1>11, <1>12, <1>13, Zenon DEF ReplNext

(***************************************************************************)
(* Acknowledgements.                                                       *)
(***************************************************************************)

\* op_index is asked before a mutation is applied, by the leader, the followers,
\* catch-up and the recovery alike, so no log gets an operation twice.
LEMMA OpsStayOnce ==
  ASSUME ReplInv, [ReplNext]_allVars
  PROVE  OpsOnce'
<1> SUFFICES ASSUME NEW q \in Node, NEW i \in DOMAIN log'[q], NEW j \in DOMAIN log'[q],
                    log'[q][i].op = log'[q][j].op
             PROVE  i = j
  BY DEF OpsOnce
<1>1. log \in [Node -> Seq(Entry)]
  BY DEF ReplInv, ReplTypeOK
<1>2. \A k, l \in DOMAIN log[q] : log[q][k].op = log[q][l].op => k = l
  BY DEF ReplInv, OpsOnce
<1>3. CASE log'[q] = log[q]
  BY <1>2, <1>3
<1>4. ASSUME NEW n \in Node, NEW mut \in Mutation, mut.op \notin Ops(n),
             log' = [log EXCEPT ![n] = Append(@, [op |-> mut.op, epoch |-> mut.epoch])]
      PROVE  i = j
  <2> DEFINE e == [op |-> mut.op, epoch |-> mut.epoch]
  <2>1. e \in Entry /\ e.op = mut.op
    BY DEF Mutation, Entry
  <2>2. log' = [log EXCEPT ![n] = Append(log[n], e)]
    BY <1>4
  <2> HIDE DEF e
  <2>3. CASE q # n
    BY <1>1, <1>3, <2>2, <2>3
  <2>4. CASE q = n
    <3>1. log'[q] = Append(log[q], e) /\ log[q] \in Seq(Entry)
      BY <1>1, <2>2, <2>4
    <3>2. \A k \in DOMAIN log[q] : log[q][k].op # e.op
      BY <1>4, <2>1, <2>4 DEF Ops
    <3>3. \A k \in DOMAIN log'[q] : \/ k \in DOMAIN log[q] /\ log'[q][k] = log[q][k]
                                    \/ k = Len(log[q]) + 1 /\ log'[q][k] = e
      BY <2>1, <3>1
    <3> QED BY <1>2, <3>2, <3>3
  <2> QED BY <2>3, <2>4
<1> QED BY <1>3, <1>4, StepAppends

\* A step acknowledges nothing, or a mutation that is in the log of the node that
\* answers when it does: a duplicate, or the one it has just applied.
LEMMA StepAcks ==
  ASSUME ReplInv, [ReplNext]_allVars
  PROVE  \/ acked' = acked
         \/ \E n \in Node : \E i \in DOMAIN log'[n] :
               acked' = acked \union {AckOf(n, MutationAt(n, i)')}
<1> DEFINE Goal == \/ acked' = acked
                   \/ \E n \in Node : \E i \in DOMAIN log'[n] :
                         acked' = acked \union {AckOf(n, MutationAt(n, i)')}
<1> SUFFICES Goal
  OBVIOUS
<1>1. ReplTypeOK /\ log \in [Node -> Seq(Entry)]
  BY DEF ReplInv, ReplTypeOK
<1>2. ASSUME NEW n \in Node, NEW op \in Op, AckDuplicate(n, op)
      PROVE  Goal
  <2>1. PICK i \in DOMAIN log[n] : acked' = acked \union {AckOf(n, MutationAt(n, i))}
    BY <1>2 DEF AckDuplicate
  <2>2. log' = log
    BY <1>2 DEF AckDuplicate
  <2>3. MutationAt(n, i)' = MutationAt(n, i)
    BY <2>2 DEF MutationAt
  <2> QED BY <2>1, <2>2, <2>3
<1>3. ASSUME NEW n \in Node, NEW ok \in PersistOutcome, FinishCommit(n, ok)
      PROVE  Goal
  <2>1. PICK mut : mut = commit[n].mut
    OBVIOUS
  <2>2. mut \in Mutation
    BY <1>1, <1>3, <2>1 DEF FinishCommit, Prepared, StateFree, ReplTypeOK, Commit
  <2>3. /\ ApplyPrepared(n, mut)
        /\ acked' = acked \/ (Applies(n, mut) /\ acked' = acked \union {AckOf(n, mut)})
    BY <1>3, <2>1 DEF FinishCommit
  <2>4. ASSUME Applies(n, mut)
        PROVE  mut.seq \in DOMAIN log'[n] /\ MutationAt(n, mut.seq)' = mut
    <3>1. CASE Duplicate(n, mut)
      <4>1. log' = log
        BY <1>1, <2>3, <3>1 DEF ApplyPrepared, Appends, Duplicate
      <4> QED BY <3>1, <4>1 DEF Duplicate, MutationAt
    <3>2. CASE Appends(n, mut)
      <4> DEFINE e == [op |-> mut.op, epoch |-> mut.epoch]
      <4>1. e \in Entry /\ e.op = mut.op /\ e.epoch = mut.epoch
        BY <2>2 DEF Mutation, Entry
      <4>2. log' = [log EXCEPT ![n] = Append(log[n], e)]
        BY <2>3, <3>2 DEF ApplyPrepared
      <4>3. mut.seq = Len(log[n]) + 1
        BY <3>2 DEF Appends
      <4> HIDE DEF e
      <4>4. log'[n] = Append(log[n], e) /\ log[n] \in Seq(Entry)
        BY <1>1, <4>2
      <4>5. mut.seq \in DOMAIN log'[n] /\ log'[n][mut.seq] = e
        BY <4>1, <4>3, <4>4
      <4> QED BY <2>2, <4>1, <4>5 DEF MutationAt, Mutation
    <3> QED BY <2>4, <3>1, <3>2 DEF Applies
  <2> QED BY <2>3, <2>4
<1>4. ASSUME UNCHANGED acked
      PROVE  Goal
  BY <1>4
<1> HIDE DEF Goal
<1>5. ASSUME NEW n \in Node,
             \/ ElectionStep(n)
             \/ CrashRestart(n)
             \/ ReadElectionStatus(n) \/ ReadElectionPending(n)
             \/ \E op \in Op : BeginCommit(n, op)
             \/ LoadPending(n) \/ RecoverOld(n) \/ RecoverOne(n) \/ RecoveryEnds(n)
             \/ SyncBegin(n) \/ SyncEnd(n)
      PROVE  UNCHANGED acked
  BY <1>5 DEF ElectionStep, replVars, CrashRestart, ReadElectionStatus, ReadElectionPending,
              BeginCommit, LoadPending, RecoverOld, RecoverOne, RecoveryEnds, SyncBegin, SyncEnd
<1>6. ASSUME NEW n \in Node, NEW ok \in PersistOutcome,
             \/ Campaign(n, ok) \/ CommitTimesOut(n, ok) \/ CommitLosesAuthority(n, ok)
             \/ RecoveryStops(n, ok) \/ SyncFence(n, ok)
      PROVE  UNCHANGED acked
  BY <1>6 DEF Campaign, CommitTimesOut, CommitLosesAuthority, RecoveryStops, SyncFence
<1>7. ASSUME \/ \E m \in requests : ReadVoterStatus(m)
             \/ \E b \in ballots : ReadVoterPending(b)
             \/ \E b \in ballots, ok \in PersistOutcome : Vote(b, ok)
             \/ \E m \in inflight : \/ \E ok \in PersistOutcome : FenceMessage(m, ok)
                                    \/ \E heard \in BOOLEAN : HandlePrepare(m, heard)
                                    \/ HandleCommit(m) \/ HandleAbort(m) \/ SyncApply(m)
      PROVE  UNCHANGED acked
  BY <1>7 DEF ReadVoterStatus, ReadVoterPending, Vote, FenceMessage, HandlePrepare,
              HandleCommit, HandleAbort, SyncApply
<1>8. CASE ElectionMessage
  BY <1>4, <1>8 DEF ElectionMessage, replVars
<1>9. CASE UNCHANGED allVars
  BY <1>4, <1>9 DEF allVars, replVars
<1> QED
  BY <1>2, <1>3, <1>4, <1>5, <1>6, <1>7, <1>8, <1>9, Zenon DEF ReplNext

\* What a node has acknowledged stays in its log.
LEMMA AckedStaysInLog ==
  ASSUME ReplInv, [ReplNext]_allVars
  PROVE  AckedInLog'
<1> SUFFICES ASSUME NEW x \in acked'
             PROVE  /\ x.seq \in DOMAIN log'[x.by]
                    /\ x = AckOf(x.by, MutationAt(x.by, x.seq)')
  BY DEF AckedInLog, AckOf, MutationAt
<1>1. CASE x \in acked
  <2>1. /\ x.by \in Node /\ x.seq \in DOMAIN log[x.by]
        /\ x = AckOf(x.by, MutationAt(x.by, x.seq))
    BY <1>1 DEF ReplInv, ReplTypeOK, Ack, AckedInLog
  <2>2. x.seq \in DOMAIN log'[x.by] /\ log'[x.by][x.seq] = log[x.by][x.seq]
    BY <2>1, EntriesStay
  <2>3. MutationAt(x.by, x.seq)' = MutationAt(x.by, x.seq)
    BY <2>2 DEF MutationAt
  <2> QED BY <2>1, <2>2, <2>3
<1>2. ASSUME NEW n \in Node, NEW i \in DOMAIN log'[n], x = AckOf(n, MutationAt(n, i)')
      PROVE  x.seq \in DOMAIN log'[x.by] /\ x = AckOf(x.by, MutationAt(x.by, x.seq)')
  <2>1. x.by = n /\ x.seq = i
    BY <1>2 DEF AckOf, MutationAt
  <2> QED BY <1>2, <2>1
<1> QED BY <1>1, <1>2, StepAcks

(***************************************************************************)
(* The theorems.                                                           *)
(***************************************************************************)

\* The invariant holds when the cluster starts.
LEMMA InitReplInv == ReplInit => ReplInv
<1> SUFFICES ASSUME ReplInit PROVE ReplInv
  OBVIOUS
<1>1. ElectionInv
  BY InitElectionInv DEF ReplInit
<1>2. ReplTypeOK
  BY ReplicationAssumption DEF ReplInit, ReplTypeOK
<1>3. LeadersElected
  BY DEF ReplInit, Init, LeadersElected, Idle
<1>4. BallotsOpen /\ EpochsElected /\ LeadersDecide /\ FencedOnDisk /\ OneSyncThread
  BY DEF ReplInit, BallotsOpen, EpochsElected, LeadersDecide, FencedOnDisk, OneSyncThread
<1>5. LogBehindTerm /\ OpsOnce /\ AckedInLog
  BY DEF ReplInit, LogBehindTerm, OpsOnce, AckedInLog
<1> QED BY <1>1, <1>2, <1>3, <1>4, <1>5 DEF ReplInv

\* Every step preserves it.
LEMMA NextReplInv == ReplInv /\ [ReplNext]_allVars => ReplInv'
<1> SUFFICES ASSUME ReplInv, [ReplNext]_allVars PROVE ReplInv'
  OBVIOUS
<1>1. [ElectionNext]_electionVars
  BY StepElects
<1>2. ElectionInv' /\ LeadersElected'
  BY <1>1, NextElectionInv, LeadersStayElected DEF ReplInv
<1>3. ReplTypeOK'
  BY NextReplTypeOK DEF ReplInv, ElectionInv
<1>4. EpochsElected' /\ LeadersDecide' /\ FencedOnDisk' /\ LogBehindTerm'
  BY <1>3, RequestsKeep, EntriesKeep
<1>5. OneSyncThread' /\ BallotsOpen'
  BY SyncKeeps, BallotsKeep
<1>6. OpsOnce' /\ AckedInLog'
  BY OpsStayOnce, AckedStaysInLog
<1> QED BY <1>2, <1>3, <1>4, <1>5, <1>6 DEF ReplInv

\* The inductive invariant holds in every reachable state.
THEOREM ReplInvariant == ReplSpec => []ReplInv
  BY InitReplInv, NextReplInv, PTL DEF ReplSpec

\* A replicating cluster elects the way Election says: commits, catch-up and
\* recovery touch the consensus state only through the fences and step-downs that
\* Election has.  So every theorem of ElectionProofs holds of it.
THEOREM ReplicationElects == ReplSpec => ElectionSpec
<1>1. ReplInit => Init
  BY DEF ReplInit
<1>2. ReplInv /\ [ReplNext]_allVars => [ElectionNext]_electionVars
  BY StepElects
<1> QED BY <1>1, <1>2, ReplInvariant, PTL DEF ReplSpec, ElectionSpec

\* The replicated state and what is under way keep their types.
THEOREM ReplicationTypeOK == ReplSpec => []ReplTypeOK
<1>1. ReplInv => ReplTypeOK
  BY DEF ReplInv
<1> QED BY <1>1, ReplInvariant, PTL

\* No log is ahead of the term that its node loads after a restart.
THEOREM LogsStayBehindTerm == ReplSpec => []LogBehindTerm
<1>1. ReplInv => LogBehindTerm
  BY DEF ReplInv
<1> QED BY <1>1, ReplInvariant, PTL

\* The leader of an epoch is one node, whose log nobody rewrites.
LEMMA InvSameEpoch == ReplInv => SameEpochSameEntry
<1> SUFFICES ASSUME ReplInv, NEW m \in Node, NEW n \in Node,
                    NEW i \in DOMAIN log[m] \cap DOMAIN log[n],
                    log[m][i].epoch = log[n][i].epoch
             PROVE  log[m][i] = log[n][i]
  BY DEF SameEpochSameEntry
<1>1. log[m][i] \in Entry /\ log[n][i] \in Entry
  BY DEF ReplInv, ReplTypeOK
<1>2. Decided(MutationAt(m, i)) /\ Decided(MutationAt(n, i))
  BY DEF ReplInv, LeadersDecide
<1>3. PICK k \in Node : /\ <<k, log[m][i].epoch>> \in elected
                        /\ MutationAt(k, i) = MutationAt(m, i)
  BY <1>2 DEF Decided, MutationAt
<1>4. PICK l \in Node : /\ <<l, log[n][i].epoch>> \in elected
                        /\ MutationAt(l, i) = MutationAt(n, i)
  BY <1>2 DEF Decided, MutationAt
<1>5. k = l
  BY <1>3, <1>4, InvElectionSafety DEF ReplInv, ElectionSafety
<1>6. MutationAt(m, i) = MutationAt(n, i)
  BY <1>3, <1>4, <1>5
<1>7. log[m][i].op = log[n][i].op
  BY <1>6 DEF MutationAt
<1> QED BY <1>1, <1>7 DEF Entry

\* Two nodes that hold a mutation of one epoch at one sequence number hold the
\* same one, in any cluster and whatever was lost, aborted, recovered or pulled.
THEOREM EpochsDecideOnce == ReplSpec => []SameEpochSameEntry
  BY InvSameEpoch, ReplInvariant, PTL

\* An acknowledgement is an entry of the log of the node that sent it, and of the
\* log of the leader of its epoch.  Neither log has an operation twice.
LEMMA InvOneSeqPerOp == ReplInv => OneSeqPerOp
<1> SUFFICES ASSUME ReplInv, NEW x \in acked, NEW y \in acked,
                    x.by = y.by \/ x.epoch = y.epoch
             PROVE  x.op = y.op <=> x.seq = y.seq
  BY DEF OneSeqPerOp
<1>1. \A n \in Node : \A i, j \in DOMAIN log[n] : log[n][i].op = log[n][j].op => i = j
  BY DEF ReplInv, OpsOnce
<1>2. ASSUME NEW z \in acked
      PROVE  /\ z.by \in Node /\ z.seq \in DOMAIN log[z.by]
             /\ log[z.by][z.seq].op = z.op /\ log[z.by][z.seq].epoch = z.epoch
  <2>1. /\ z.by \in Node /\ z.seq \in DOMAIN log[z.by]
        /\ z = AckOf(z.by, MutationAt(z.by, z.seq))
    BY DEF ReplInv, ReplTypeOK, Ack, AckedInLog
  <2> QED BY <2>1 DEF AckOf, MutationAt
<1>3. ASSUME NEW n \in Node, x.seq \in DOMAIN log[n], y.seq \in DOMAIN log[n],
             log[n][x.seq].op = x.op, log[n][y.seq].op = y.op
      PROVE  x.op = y.op <=> x.seq = y.seq
  BY <1>1, <1>3
<1>4. CASE x.by = y.by
  BY <1>2, <1>3, <1>4
<1>5. CASE x.epoch = y.epoch
  <2>1. ASSUME NEW z \in acked
        PROVE  \E l \in Node : /\ <<l, z.epoch>> \in elected
                               /\ z.seq \in DOMAIN log[l] /\ log[l][z.seq].op = z.op
    <3>1. Decided(MutationAt(z.by, z.seq))
      BY <1>2 DEF ReplInv, LeadersDecide
    <3> QED BY <1>2, <3>1 DEF Decided, MutationAt
  <2>2. PICK k \in Node : /\ <<k, x.epoch>> \in elected
                          /\ x.seq \in DOMAIN log[k] /\ log[k][x.seq].op = x.op
    BY <2>1
  <2>3. PICK l \in Node : /\ <<l, y.epoch>> \in elected
                          /\ y.seq \in DOMAIN log[l] /\ log[l][y.seq].op = y.op
    BY <2>1
  <2>4. k = l
    BY <1>5, <2>2, <2>3, InvElectionSafety DEF ReplInv, ElectionSafety
  <2> QED BY <1>3, <2>2, <2>3, <2>4
<1> QED BY <1>4, <1>5

\* The answers that clients get from one leader, or for one epoch, agree: a retried
\* op_id is told the sequence number it has, and no other op_id is told that one.
THEOREM OperationsAnsweredOnce == ReplSpec => []OneSeqPerOp
  BY InvOneSeqPerOp, ReplInvariant, PTL

\* Whatever was acknowledged since the cluster started is in the log of the node that
\* acknowledged it, restarts, lost leaderships and later reigns notwithstanding.
THEOREM AcknowledgedStaysInLog == ReplSpec => []AckedInLog
<1>1. ReplInv => AckedInLog
  BY DEF ReplInv
<1> QED BY <1>1, ReplInvariant, PTL

\* A term has one leader also while mutations are replicated.
THEOREM OneLeaderWhileReplicating == ReplSpec => []ElectionSafety
  BY ReplicationElects, OneLeaderPerTerm, PTL
=============================================================================
