----------------------------- MODULE Replication -----------------------------
(***************************************************************************)
(* Mutation replication among the commitd peers, on top of Election.       *)
(*                                                                         *)
(* A leader commits a mutation in two phases: it posts a prepare to every  *)
(* peer, waits for a quorum of answers (itself counted, without a pending  *)
(* file of its own), appends the mutation to its log and posts commits.    *)
(* It holds its state mutex all the while, so whatever needs that mutex on *)
(* the leader waits.  A new leader first commits the pending mutations it  *)
(* finds on its disk; followers also pull committed mutations from the     *)
(* node they take for the leader.                                          *)
(*                                                                         *)
(* One shard is modelled: shards share nothing but the election, whose     *)
(* vote check asks for every shard what it asks here for one.  Log         *)
(* compaction, and with it the installation of snapshots, does not happen: *)
(* it starts at COMPACTION_MIN_LOG_ENTRIES mutations, 10000 by default.    *)
(* Of a mutation the model keeps what tells two of them apart: sequence    *)
(* number, op_id and epoch; committed_at_unix would only tell apart two    *)
(* attempts of one op_id in one epoch.                                     *)
(***************************************************************************)
EXTENDS Election, Integers, Sequences, FiniteSetsExt

CONSTANTS
    Op,             \* client operation ids
    MaxSeq,         \* bound on the length of a log
    PersistOutcome  \* outcomes of writing consensus.state that are explored

ASSUME ReplicationAssumption ==
    MaxSeq \in Nat /\ PersistOutcome \subseteq BOOLEAN

VARIABLES
    log,        \* applied mutations of each node: SourceOfTruth and shard log
    pending,    \* the pending directory of each node: one file per seq
    poisoned,   \* nodes whose log file has an entry that was never applied
    commit,     \* the commit that holds the state mutex of each node, or None
    recovery,   \* what recover_pending_mutations_as_leader has yet to commit
    inflight,   \* replication requests, and the threads that handle them
    ballots,    \* vote requests whose handler has read its log status
    draft,      \* log status read by start_election, before it takes a term
    claim,      \* the watermark in the vote requests of each node and term
    sync,       \* what sync_from_leader pulls next and from whom, or None
    acked       \* history: mutations acknowledged to a client, and by which leader

logVars == <<log, pending, poisoned>>
replVars == <<log, pending, poisoned, commit, recovery, inflight, ballots,
              draft, claim, sync, acked>>
allVars == <<electionVars, replVars>>

Entry == [op : Op, epoch : Nat]
Mutation == [seq : 1 .. MaxSeq, op : Op, epoch : Nat]
Message == [kind : {"prepare", "commit", "abort", "sync"}, src : Node,
            dst : Node, mut : Mutation, fenced : BOOLEAN]
\* A log status: the watermark, and whether pending files are counted yet.
Status == [seq : Nat, whole : BOOLEAN]
Commit == [mut : Mutation, acks : SUBSET Node, recovering : BOOLEAN]
\* The answer to a client: the commit_id, and the leader that sent it.
Ack == [seq : Nat, op : Op, epoch : Nat, by : Node]
AckOf(n, mut) == [seq |-> mut.seq, op |-> mut.op, epoch |-> mut.epoch, by |-> n]

\* The types of the replicated state and of what is under way.
ReplTypeOK ==
    /\ log \in [Node -> Seq(Entry)]
    /\ \A n \in Node : Len(log[n]) <= MaxSeq
    /\ pending \in [Node -> SUBSET Mutation]
    /\ poisoned \subseteq Node
    /\ commit \in [Node -> Commit \union {None}]
    /\ recovery \in [Node -> (SUBSET Mutation) \union {None}]
    /\ inflight \subseteq Message
    /\ ballots \subseteq [req : Request, status : Status]
    /\ draft \in [Node -> Status \union {None}]
    /\ claim \in [Node -> [1 .. MaxTerm -> Nat]]
    /\ sync \in [Node -> [src : Node, next : Nat] \union {None}]
    /\ acked \subseteq Ack

ReplInit ==
    /\ Init
    /\ log = [n \in Node |-> <<>>]
    /\ pending = [n \in Node |-> {}]
    /\ poisoned = {}
    /\ commit = [n \in Node |-> None]
    /\ recovery = [n \in Node |-> None]
    /\ inflight = {}
    /\ ballots = {}
    /\ draft = [n \in Node |-> None]
    /\ claim = [n \in Node |-> [t \in 1 .. MaxTerm |-> 0]]
    /\ sync = [n \in Node |-> None]
    /\ acked = {}

-----------------------------------------------------------------------------
(* The state of one node.                                                   *)

StateFree(n) == commit[n] = None

\* Slip: op_index is never filled.
OpsUnindexed(n) == {}

Ops(n) == {log[n][i].op : i \in DOMAIN log[n]}

MutationAt(n, i) == [seq |-> i, op |-> log[n][i].op, epoch |-> log[n][i].epoch]

AtSeq(files, seq) == {x \in files : x.seq = seq}

\* local_log_status reads the watermark under the state mutex, and then,
\* without it, the pending files.
Watermark(n) == [seq |-> Len(log[n]), whole |-> FALSE]
WithPending(n, s) ==
    [seq |-> Max({s.seq} \union {x.seq : x \in pending[n]}), whole |-> TRUE]

\* apply_replicated_mutation: a mutation that is there already is a duplicate,
\* one whose op_id or seq is taken by another is an error.
Appends(n, mut) == mut.op \notin Ops(n) /\ mut.seq = Len(log[n]) + 1
Duplicate(n, mut) == mut.seq \in DOMAIN log[n] /\ MutationAt(n, mut.seq) = mut
Applies(n, mut) == Appends(n, mut) \/ Duplicate(n, mut)

\* apply_prepared_mutation: a mutation past the watermark is in the log file
\* before apply_replicated_mutation can reject it.
ApplyPrepared(n, mut) ==
    /\ log' = IF Appends(n, mut)
              THEN [log EXCEPT ![n] = Append(@, [op |-> mut.op, epoch |-> mut.epoch])]
              ELSE log
    /\ pending' = IF Applies(n, mut)
                  THEN [pending EXCEPT ![n] = @ \ AtSeq(@, mut.seq)]
                  ELSE pending
    /\ poisoned' = IF ~Applies(n, mut) /\ mut.seq > Len(log[n])
                   THEN poisoned \union {n}
                   ELSE poisoned

-----------------------------------------------------------------------------
(* Elections: the log status is read before the consensus mutex is taken,   *)
(* by the candidate and by the voter.                                       *)

ReadElectionStatus(n) ==
    /\ task[n].phase = "idle"
    /\ role[n] # "Leader"
    /\ currentTerm[n] < MaxTerm
    /\ draft[n] = None
    /\ StateFree(n)
    /\ draft' = [draft EXCEPT ![n] = Watermark(n)]
    /\ UNCHANGED <<electionVars, log, pending, poisoned, commit, recovery,
                   inflight, ballots, claim, sync, acked>>

ReadElectionPending(n) ==
    /\ draft[n] # None
    /\ ~draft[n].whole
    /\ draft' = [draft EXCEPT ![n] = WithPending(n, @)]
    /\ UNCHANGED <<electionVars, log, pending, poisoned, commit, recovery,
                   inflight, ballots, claim, sync, acked>>

Campaign(n, ok) ==
    /\ draft[n] # None
    /\ draft[n].whole
    /\ StartElection(n, ok)
    /\ claim' = [claim EXCEPT ![n][currentTerm[n] + 1] = draft[n].seq]
    /\ draft' = [draft EXCEPT ![n] = None]
    /\ UNCHANGED <<log, pending, poisoned, commit, recovery, inflight, ballots,
                   sync, acked>>

ReadVoterStatus(m) ==
    /\ m.type = "elect"
    /\ \A b \in ballots : b.req # m
    /\ StateFree(m.dst)
    /\ ballots' = ballots \union {[req |-> m, status |-> Watermark(m.dst)]}
    /\ UNCHANGED <<electionVars, log, pending, poisoned, commit, recovery,
                   inflight, draft, claim, sync, acked>>

ReadVoterPending(b) ==
    /\ ~b.status.whole
    /\ ballots' = (ballots \ {b}) \union
                    {[b EXCEPT !.status = WithPending(b.req.dst, @)]}
    /\ UNCHANGED <<electionVars, log, pending, poisoned, commit, recovery,
                   inflight, draft, claim, sync, acked>>

Vote(b, ok) ==
    LET m == b.req IN
    /\ b.status.whole
    /\ HandleRequestVote(m, claim[m.src][m.term] >= b.status.seq, ok)
    /\ ballots' = ballots \ {b}
    /\ UNCHANGED <<log, pending, poisoned, commit, recovery, inflight, draft,
                   claim, sync, acked>>

-----------------------------------------------------------------------------
(* Committing on the leader: commit_request and commit_prepared_outcome.    *)

Posts(kind, n, mut) ==
    {[kind |-> kind, src |-> n, dst |-> p, mut |-> mut, fenced |-> FALSE] : p \in Peers(n)}

BeginCommit(n, op) ==
    LET mut == [seq |-> Len(log[n]) + 1, op |-> op, epoch |-> currentTerm[n]] IN
    /\ role[n] = "Leader"
    /\ StateFree(n)
    /\ op \notin Ops(n)
    /\ Len(log[n]) < MaxSeq
    /\ commit' = [commit EXCEPT ![n] = [mut |-> mut, acks |-> {}, recovering |-> FALSE]]
    /\ inflight' = inflight \union Posts("prepare", n, mut)
    /\ UNCHANGED <<electionVars, log, pending, poisoned, recovery, ballots,
                   draft, claim, sync, acked>>

\* The op_id is known: the client gets the mutation that is in the log.  The
\* code looks at the role before it takes the mutex, and not again: here that
\* is one step, and such a late answer would name the same mutation.
AckDuplicate(n, op) ==
    /\ role[n] = "Leader"
    /\ StateFree(n)
    /\ \E i \in DOMAIN log[n] :
          /\ log[n][i].op = op
          /\ acked' = acked \union {AckOf(n, MutationAt(n, i))}
    /\ UNCHANGED <<electionVars, log, pending, poisoned, commit, recovery,
                   inflight, ballots, draft, claim, sync>>

\* Slip: the leader keeps its role when the recovery fails.
EndWithErrorInOffice(n, ok) ==
    /\ commit' = [commit EXCEPT ![n] = None]
    /\ IF commit[n].recovering
       THEN /\ task' = [task EXCEPT ![n] = Idle]
            /\ recovery' = [recovery EXCEPT ![n] = None]
            /\ UNCHANGED <<currentTerm, votedFor, role, leaderId, disk, requests,
                           replies, voteLog, elected>>
       ELSE UNCHANGED <<electionVars, recovery>>

\* A commit of the recovery that ends in an error ends the recovery.
EndWithError(n, ok) ==
    /\ commit' = [commit EXCEPT ![n] = None]
    /\ IF commit[n].recovering
       THEN RecoveryFails(n, ok) /\ recovery' = [recovery EXCEPT ![n] = None]
       ELSE UNCHANGED <<electionVars, recovery>>

\* No quorum answered in time: prepare_on_quorum aborts the mutation.
CommitTimesOut(n, ok) ==
    /\ ~StateFree(n)
    /\ Cardinality(commit[n].acks) + 1 < Quorum
    /\ EndWithError(n, ok)
    /\ inflight' = inflight \union Posts("abort", n, commit[n].mut)
    /\ UNCHANGED <<log, pending, poisoned, ballots, draft, claim, sync, acked>>

Prepared(n) == ~StateFree(n) /\ Cardinality(commit[n].acks) + 1 >= Quorum

HasAuthority(n) == role[n] = "Leader" /\ currentTerm[n] = commit[n].mut.epoch

\* The leadership is gone: the error return leaves the peers' pending files,
\* unless the node leads a newer term by now.
CommitLosesAuthority(n, ok) ==
    /\ Prepared(n)
    /\ ~HasAuthority(n)
    /\ EndWithError(n, ok)
    /\ inflight' = IF role[n] = "Leader"
                   THEN inflight \union Posts("abort", n, commit[n].mut)
                   ELSE inflight
    /\ UNCHANGED <<log, pending, poisoned, ballots, draft, claim, sync, acked>>

\* The mutation is applied, the client answered and the peers told.  It is
\* rejected, and nobody told, when it was recovered and its op_id is in the
\* log under another seq or epoch.
FinishCommit(n, ok) ==
    LET mut == commit[n].mut IN
    /\ Prepared(n)
    /\ HasAuthority(n)
    /\ ApplyPrepared(n, mut)
    /\ IF Applies(n, mut)
       THEN /\ commit' = [commit EXCEPT ![n] = None]
            /\ inflight' = inflight \union Posts("commit", n, mut)
            /\ acked' = IF commit[n].recovering
                        THEN acked
                        ELSE acked \union {AckOf(n, mut)}
            /\ UNCHANGED <<electionVars, recovery>>
       ELSE EndWithError(n, ok) /\ UNCHANGED <<inflight, acked>>
    /\ UNCHANGED <<ballots, draft, claim, sync>>

-----------------------------------------------------------------------------
(* The handlers on the peers: a consensus fence under the consensus mutex,  *)
(* then, as a step of its own, the work under the state mutex.              *)

\* Slip: the result of writing consensus.state is dropped.
FenceMessageUnsaved(m, ok) ==
    /\ ~m.fenced
    /\ \/ /\ AcceptReplication(m.dst, m.src, m.mut.epoch, ok)
          /\ inflight' = (inflight \ {m}) \union {[m EXCEPT !.fenced = TRUE]}
       \/ /\ ~FenceAdmits(m.dst, m.src, m.mut.epoch)
          /\ inflight' = inflight \ {m}
          /\ UNCHANGED electionVars
    /\ UNCHANGED <<log, pending, poisoned, commit, recovery, ballots, draft,
                   claim, sync, acked>>

FenceMessage(m, ok) ==
    /\ ~m.fenced
    /\ \/ /\ AcceptReplication(m.dst, m.src, m.mut.epoch, ok)
          /\ inflight' = (inflight \ {m}) \union
                           (IF ok THEN {[m EXCEPT !.fenced = TRUE]} ELSE {})
       \/ /\ ~FenceAdmits(m.dst, m.src, m.mut.epoch)
          /\ inflight' = inflight \ {m}
          /\ UNCHANGED electionVars
    /\ UNCHANGED <<log, pending, poisoned, commit, recovery, ballots, draft,
                   claim, sync, acked>>

\* write_pending_mutation: an equal file is kept, one of an older epoch is
\* replaced, any other is a conflict.
CanWritePending(n, mut) ==
    \A x \in AtSeq(pending[n], mut.seq) : x = mut \/ x.epoch < mut.epoch

\* heard: the answer reaches the leader while it waits.
HandlePrepare(m, heard) ==
    LET n == m.dst
        old == m.mut.seq <= Len(log[n])
        writes == m.mut.seq = Len(log[n]) + 1 /\ CanWritePending(n, m.mut)
        waits == commit[m.src] # None /\ commit[m.src].mut = m.mut
    IN  /\ m.kind = "prepare"
        /\ m.fenced
        /\ StateFree(n)
        /\ pending' = IF writes
                      THEN [pending EXCEPT ![n] = (@ \ AtSeq(@, m.mut.seq)) \union {m.mut}]
                      ELSE pending
        /\ commit' = IF (old \/ writes) /\ heard /\ waits
                     THEN [commit EXCEPT ![m.src].acks = @ \union {n}]
                     ELSE commit
        /\ inflight' = inflight \ {m}
        /\ UNCHANGED <<electionVars, log, poisoned, recovery, ballots, draft,
                       claim, sync, acked>>

\* Slip: the pending file of that seq is applied, whatever is in it.
HandleCommitOfFile(m) ==
    LET files == AtSeq(pending[m.dst], m.mut.seq) IN
    /\ m.kind = "commit"
    /\ m.fenced
    /\ StateFree(m.dst)
    /\ IF m.mut.seq > Len(log[m.dst]) /\ files # {}
       THEN ApplyPrepared(m.dst, CHOOSE x \in files : TRUE)
       ELSE UNCHANGED logVars
    /\ inflight' = inflight \ {m}
    /\ UNCHANGED <<electionVars, commit, recovery, ballots, draft, claim,
                   sync, acked>>

\* commit_replicated_mutation, with the pending file required.
HandleCommit(m) ==
    LET n == m.dst IN
    /\ m.kind = "commit"
    /\ m.fenced
    /\ StateFree(n)
    /\ IF m.mut.seq <= Len(log[n]) \/ m.mut \in pending[n]
       THEN ApplyPrepared(n, m.mut)
       ELSE UNCHANGED logVars
    /\ inflight' = inflight \ {m}
    /\ UNCHANGED <<electionVars, commit, recovery, ballots, draft, claim,
                   sync, acked>>

\* The file of that seq goes, whichever mutation is in it.
HandleAbort(m) ==
    /\ m.kind = "abort"
    /\ m.fenced
    /\ pending' = [pending EXCEPT ![m.dst] = @ \ AtSeq(@, m.mut.seq)]
    /\ inflight' = inflight \ {m}
    /\ UNCHANGED <<electionVars, log, poisoned, commit, recovery, ballots,
                   draft, claim, sync, acked>>

-----------------------------------------------------------------------------
(* Recovery of pending mutations by a new leader.                           *)

FirstOf(files) == CHOOSE x \in files : \A y \in files : x.seq <= y.seq

LoadPending(n) ==
    /\ task[n].phase = "recover"
    /\ recovery[n] = None
    /\ role[n] = "Leader"
    /\ recovery' = [recovery EXCEPT ![n] = pending[n]]
    /\ UNCHANGED <<electionVars, log, pending, poisoned, commit, inflight,
                   ballots, draft, claim, sync, acked>>

Recovering(n) ==
    /\ task[n].phase = "recover"
    /\ recovery[n] \notin {None, {}}
    /\ StateFree(n)

\* The sequence number is taken: the file is removed.
RecoverOld(n) ==
    LET x == FirstOf(recovery[n]) IN
    /\ Recovering(n)
    /\ x.seq <= Len(log[n])
    /\ pending' = [pending EXCEPT ![n] = @ \ AtSeq(@, x.seq)]
    /\ recovery' = [recovery EXCEPT ![n] = @ \ {x}]
    /\ UNCHANGED <<electionVars, log, poisoned, commit, inflight, ballots,
                   draft, claim, sync, acked>>

\* The mutation is committed again, under the epoch of the new leader.
RecoverOne(n) ==
    LET x == FirstOf(recovery[n])
        mut == [x EXCEPT !.epoch = task[n].term]
    IN  /\ Recovering(n)
        /\ x.seq = Len(log[n]) + 1
        /\ role[n] = "Leader"
        /\ commit' = [commit EXCEPT ![n] = [mut |-> mut, acks |-> {}, recovering |-> TRUE]]
        /\ recovery' = [recovery EXCEPT ![n] = @ \ {x}]
        /\ inflight' = inflight \union Posts("prepare", n, mut)
        /\ UNCHANGED <<electionVars, log, pending, poisoned, ballots, draft,
                       claim, sync, acked>>

\* The leadership is gone before or between two pending mutations, or the
\* next one does not follow the log.
RecoveryStops(n, ok) ==
    /\ \/ recovery[n] = None /\ role[n] # "Leader"
       \/ Recovering(n) /\ LET x == FirstOf(recovery[n]) IN
             x.seq > Len(log[n]) /\ (x.seq = Len(log[n]) + 1 => role[n] # "Leader")
    /\ RecoveryFails(n, ok)
    /\ recovery' = [recovery EXCEPT ![n] = None]
    /\ UNCHANGED <<log, pending, poisoned, commit, inflight, ballots, draft,
                   claim, sync, acked>>

RecoveryEnds(n) ==
    /\ recovery[n] = {}
    /\ ~StateFree(n) => ~commit[n].recovering
    /\ RecoveryDone(n)
    /\ recovery' = [recovery EXCEPT ![n] = None]
    /\ UNCHANGED <<log, pending, poisoned, commit, inflight, ballots, draft,
                   claim, sync, acked>>

-----------------------------------------------------------------------------
(* Catch-up: sync_from_leader.                                              *)

SyncBegin(n) ==
    /\ role[n] # "Leader"
    /\ sync[n] = None
    /\ leaderId[n] \in Peers(n)
    /\ Len(log[leaderId[n]]) > Len(log[n])
    /\ sync' = [sync EXCEPT ![n] = [src |-> leaderId[n], next |-> Len(log[n]) + 1]]
    /\ UNCHANGED <<electionVars, log, pending, poisoned, commit, recovery,
                   inflight, ballots, draft, claim, acked>>

SyncThreads(n) == {m \in inflight : m.kind = "sync" /\ m.dst = n}

\* The next mutation of the stream is fenced like one from a leader: its epoch
\* is compared with the local term.  An error ends the pass.
SyncFence(n, ok) ==
    LET mut == MutationAt(sync[n].src, sync[n].next) IN
    /\ sync[n] # None
    /\ SyncThreads(n) = {}
    /\ sync[n].next \in DOMAIN log[sync[n].src]
    /\ AcceptReplication(n, sync[n].src, mut.epoch, ok)
    /\ IF ok
       THEN /\ inflight' = inflight \union
                 {[kind |-> "sync", src |-> sync[n].src, dst |-> n, mut |-> mut,
                   fenced |-> TRUE]}
            /\ UNCHANGED sync
       ELSE /\ sync' = [sync EXCEPT ![n] = None]
            /\ UNCHANGED inflight
    /\ UNCHANGED <<log, pending, poisoned, commit, recovery, ballots, draft,
                   claim, acked>>

\* commit_replicated_mutation, no pending file required.
SyncApply(m) ==
    /\ m.kind = "sync"
    /\ StateFree(m.dst)
    /\ ApplyPrepared(m.dst, m.mut)
    /\ inflight' = inflight \ {m}
    /\ sync' = IF Applies(m.dst, m.mut)
               THEN [sync EXCEPT ![m.dst].next = @ + 1]
               ELSE [sync EXCEPT ![m.dst] = None]
    /\ UNCHANGED <<electionVars, commit, recovery, ballots, draft, claim, acked>>

\* The pass is over: nothing left to pull, a rejected mutation, or a failed GET.
SyncEnd(n) ==
    /\ sync[n] # None
    /\ SyncThreads(n) = {}
    /\ sync' = [sync EXCEPT ![n] = None]
    /\ UNCHANGED <<electionVars, log, pending, poisoned, commit, recovery,
                   inflight, ballots, draft, claim, acked>>

-----------------------------------------------------------------------------
(* A crash: the threads of the node are gone, its files stay.  A log file   *)
(* with an entry that never applied does not load, the node stays down.     *)

CrashRestart(n) ==
    /\ n \notin poisoned
    /\ Restart(n)
    /\ commit' = [commit EXCEPT ![n] = None]
    /\ recovery' = [recovery EXCEPT ![n] = None]
    /\ inflight' = {m \in inflight : ~(m.fenced /\ m.dst = n)}
    /\ ballots' = {b \in ballots : b.req.dst # n}
    /\ draft' = [draft EXCEPT ![n] = None]
    /\ sync' = [sync EXCEPT ![n] = None]
    /\ UNCHANGED <<log, pending, poisoned, claim, acked>>

\* Steps of the election alone.
ElectionStep(n) ==
    /\ \/ \E p \in Node : SendRpc(n, p)
       \/ RpcFails(n)
       \/ \E ok \in PersistOutcome : BecomeLeader(n, ok)
       \/ LoseElection(n)
       \/ SendHeartbeats(n)
       \/ RoundDone(n)
    /\ UNCHANGED replVars

ElectionMessage ==
    /\ \/ \E m \in requests, ok \in PersistOutcome : HandleHeartbeat(m, ok)
       \/ \E r \in replies, ok \in PersistOutcome : ReceiveVoteReply(r, ok)
       \/ \E r \in replies, ok \in PersistOutcome : ReceiveHeartbeatReply(r, ok)
    /\ UNCHANGED replVars

ReplNext ==
    \/ \E n \in Node :
          \/ ElectionStep(n)
          \/ CrashRestart(n)
          \/ ReadElectionStatus(n)
          \/ ReadElectionPending(n)
          \/ \E ok \in PersistOutcome : Campaign(n, ok)
          \/ \E op \in Op : BeginCommit(n, op) \/ AckDuplicate(n, op)
          \/ \E ok \in PersistOutcome : \/ CommitTimesOut(n, ok)
                                        \/ CommitLosesAuthority(n, ok)
                                        \/ FinishCommit(n, ok)
          \/ LoadPending(n)
          \/ RecoverOld(n)
          \/ RecoverOne(n)
          \/ \E ok \in PersistOutcome : RecoveryStops(n, ok)
          \/ RecoveryEnds(n)
          \/ SyncBegin(n)
          \/ \E ok \in PersistOutcome : SyncFence(n, ok)
          \/ SyncEnd(n)
    \/ ElectionMessage
    \/ \E m \in requests : ReadVoterStatus(m)
    \/ \E b \in ballots : ReadVoterPending(b)
    \/ \E b \in ballots, ok \in PersistOutcome : Vote(b, ok)
    \/ \E m \in inflight :
          \/ \E ok \in PersistOutcome : FenceMessage(m, ok)
          \/ \E heard \in BOOLEAN : HandlePrepare(m, heard)
          \/ HandleCommit(m)
          \/ HandleAbort(m)
          \/ SyncApply(m)

ReplSpec == ReplInit /\ [][ReplNext]_allVars
-----------------------------------------------------------------------------
(* Safety.                                                                  *)

\* An epoch decides a sequence number once: two nodes that hold a mutation of
\* one epoch at one sequence number hold the same operation, whatever commits
\* timed out, were aborted, retried, recovered or pulled by catch-up.
SameEpochSameEntry ==
    \A m, n \in Node : \A i \in DOMAIN log[m] \cap DOMAIN log[n] :
        log[m][i].epoch = log[n][i].epoch => log[m][i] = log[n][i]

\* The fence works across restarts: consensus.state is never behind the log, so
\* a node that starts again admits no mutation of an epoch older than one that
\* it has applied.  (Epochs may decrease along a log: the fence is checked
\* before the state mutex is taken, and not again.)
LogBehindTerm ==
    \A n \in Node : \A i \in DOMAIN log[n] : log[n][i].epoch <= disk[n].term

\* A retried operation is not committed twice, and a sequence number is not
\* answered for two operations: two acknowledgements of one node, whatever terms
\* it led and however often it restarted in between, and two of one epoch,
\* whoever sent them, name the same op_id iff they name the same seq.  Between
\* two nodes and two epochs nothing of the kind holds (OneOpPerSeq).
OneSeqPerOp ==
    \A x, y \in acked : x.by = y.by \/ x.epoch = y.epoch
        => (x.op = y.op <=> x.seq = y.seq)

\* Two acknowledged operations never share a sequence number.
OneOpPerSeq ==
    \A x, y \in acked : x.seq = y.seq => x.op = y.op

-----------------------------------------------------------------------------
(* The inductive invariant behind the safety properties.                    *)

\* Whoever leads, or recovers as a leader, was elected in that term.
LeadersElected ==
    \A n \in Node :
        /\ role[n] = "Leader" => <<n, currentTerm[n]>> \in elected
        /\ task[n].phase = "recover" => <<n, task[n].term>> \in elected

\* A ballot is that of a vote request which is not answered yet, and the only one.
BallotsOpen ==
    /\ \A b \in ballots : b.req \in requests /\ b.req.type = "elect"
    /\ \A b, c \in ballots : b.req = c.req => b = c

\* What is proposed, and what is under way, has the epoch of an elected leader.
Elected(epoch) == \E e \in elected : e[2] = epoch

EpochsElected ==
    /\ \A n \in Node : commit[n] # None => Elected(commit[n].mut.epoch)
    /\ \A m \in inflight : Elected(m.mut.epoch)

\* A mutation in a log, in a commit or in an answer to catch-up is in the log
\* of the leader of its epoch.
Decided(mut) ==
    \E l \in Node : /\ <<l, mut.epoch>> \in elected
                    /\ mut.seq \in DOMAIN log[l]
                    /\ MutationAt(l, mut.seq) = mut

LeadersDecide ==
    /\ \A n \in Node : \A i \in DOMAIN log[n] : Decided(MutationAt(n, i))
    /\ \A m \in inflight : m.kind \in {"commit", "sync"} => Decided(m.mut)

\* A request that passed the fence has its epoch on the disk of the node it is at.
FencedOnDisk ==
    \A m \in inflight : m.fenced => m.mut.epoch <= disk[m.dst].term

\* Catch-up applies one mutation at a time, in a pass under way and behind the fence.
OneSyncThread ==
    \A m \in inflight : m.kind = "sync" =>
        /\ m.fenced
        /\ sync[m.dst] # None
        /\ SyncThreads(m.dst) = {m}

\* A node does not hold an operation twice: op_index knows what it has applied.
OpsOnce ==
    \A n \in Node : \A i, j \in DOMAIN log[n] : log[n][i].op = log[n][j].op => i = j

\* What a node has acknowledged stays in its log, where the answer said it is.
AckedInLog ==
    \A x \in acked : x.seq \in DOMAIN log[x.by] /\ x = AckOf(x.by, MutationAt(x.by, x.seq))

\* The log of an epoch is the log of its leader, behind a fence on every disk.
ReplInv ==
    /\ ElectionInv
    /\ ReplTypeOK
    /\ LeadersElected
    /\ BallotsOpen
    /\ EpochsElected
    /\ LeadersDecide
    /\ FencedOnDisk
    /\ OneSyncThread
    /\ LogBehindTerm
    /\ OpsOnce
    /\ AckedInLog

-----------------------------------------------------------------------------
(* Catch-up.  The sync loop runs for ever, the GETs of a pass succeed again *)
(* and again, and a commit does not hold the state mutex for good, because  *)
(* its calls have timeouts.                                                 *)

CommitStep(n) ==
    \E ok \in PersistOutcome : \/ CommitTimesOut(n, ok)
                               \/ CommitLosesAuthority(n, ok)
                               \/ FinishCommit(n, ok)

SyncFairness ==
    \A n \in Node :
        /\ WF_allVars(SyncBegin(n))
        /\ SF_allVars(\E ok \in PersistOutcome : SyncFence(n, ok))
        /\ WF_allVars(SyncEnd(n))
        /\ WF_allVars(\E m \in SyncThreads(n) : SyncApply(m))
        /\ WF_allVars(CommitStep(n))

FairReplSpec == ReplSpec /\ SyncFairness

\* A follower of a leader that stays in office gets what that leader has
\* committed, the mutations of its earlier terms included: docs/deployment.md
\* has followers run a catch-up loop against the leader.  The code does not
\* satisfy this once a leader has served in two terms: SyncFence compares the
\* epoch of a mutation with the term of the follower, and a follower that
\* missed a mutation of an older term never gets past it.
FollowersCatchUp ==
    \A n, p \in Node : \A k \in 1 .. MaxSeq :
        <>[](role[p] = "Leader" /\ leaderId[n] = p /\ Len(log[p]) >= k)
            => <>(Len(log[n]) >= k)
=============================================================================
