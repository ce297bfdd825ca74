# globacl: a TLA+ verification project

globacl distributes access-control denies to edge nodes. Writes enter a stateless
control gateway, are sequenced and replicated by a small cluster of `commitd`
nodes, leave it as a mutation stream, and are applied by relays and agents at the
edge. This project models the parts of the program whose correctness depends on
the order in which threads, nodes, disks and messages act.

## Inventory

| Component | State | Operations | Interacts with |
|---|---|---|---|
| leader election (`commitd/src/app/consensus.rs`, `config.rs`) | `ConsensusState` (term, vote, role, leader hint, deadlines) in memory; term and vote in `consensus.state` | `consensus_loop`, `start_election`, `handle_request_vote`, `send_heartbeats`, `handle_heartbeat`, `step_down_to_term`, `load_consensus_state` | peers by blocking HTTP POST; replication reads role and term and changes them through its fence |
| mutation replication (`commit.rs`, `consensus.rs`, `storage.rs`) | `SourceOfTruth` under the state mutex, shard logs, `pending/*.gmut` | `commit_request`, `prepare_on_quorum`, `commit_on_peers`, `abort_on_peers`, the three handlers, `recover_pending_mutations_as_leader`, `sync_from_leader` | peers by HTTP from spawned threads; election through `ensure_write_authority` and `ensure_replication_leader` |
| storage and compaction (`storage.rs`, `commit.rs`, core `snapshots.rs`) | logs, latest and archived snapshots, manifest, idempotency stream | `persist_mutation`, `compact_mutation_logs`, `persist_latest_snapshot`, `load_source_of_truth`, `install_snapshot_from_leader` | publisher offsets cap compaction |
| source of truth (core `source.rs`) | entries, rules, watermarks, mutation history, op index | `prepare_commit`, `prepare_rule_commit`, `apply_replicated_mutation`, `restore_snapshot`, `compact_mutation_history`, rollback | called under the state mutex |
| edge state (core `active_state.rs`, `rules.rs`) | base tables, delta overlay, watermarks | `apply_mutation`, `lookup`, `check`, `compact_delta_overlay` | agents, relays |
| propagation (`propagation.rs`) | publisher offsets, ack store | `publish_committed_mutations`, `record_propagation_ack`, ack merge | NATS JetStream, relays, peers |
| relay (`globacl-relay`) | cached upstream state, ack table | JetStream cache or pass-through, snapshot rebuild, ack forwarding | control or commitd upstream, agents downstream |
| agent (`globacl-agent`) | edge state, snapshot file, metrics | poll, apply deltas, bundle repair, snapshot repair, acks | relay |
| object store (`object_store.rs`, manifests in `storage.rs`) | local and remote artifacts, latest manifest and signature | publication after commits, uploads and rollbacks; restore of a node that lost its disk | S3, agents that bootstrap |
| control gateway | none | HTTP proxying, blast-radius gate | commitd |
| routes, audit, codecs, signatures, NATS client, metrics | I/O, formats | | |

What is hard here: every node runs a consensus loop, a sync loop, a publisher loop
and a thread per request over two mutexes that are taken one after the other;
HTTP calls time out while the peer may still handle them; threads spawned for
commits and aborts deliver them late and in any order; a crash falls between any
two writes of `consensus.state`, the pending directory and the shard log, between
any two files of a publication, and between any two puts of an upload. At the edge
every answer may come from another node, older or newer than the last one.

Correctness, per component:

* election: at most one leader per term; one vote per node and term across
  crashes; an old leader steps down;
* replication: a sequence number is decided once, an acknowledged mutation is on a
  quorum and stays, a retried operation commits once, followers catch up (the code
  does so within a term: see `repl_catch_up`);
* storage: what was acknowledged is loaded again after a crash between any two
  writes; compaction keeps what the publisher and followers still need;
* source of truth and edge state: the overlay answers like the map that the
  mutations define; op ids are idempotent; rollback restores the snapshot;
* propagation, relay, agent: every committed mutation reaches every live agent in
  sequence order; acks never run ahead of what is durable, and what is confirmed is
  on a quorum;
* publication: what is served verifies, and a node that lost its disk can be restored
  at any moment, with what was acknowledged when uploads are required (but for the
  retries under known limits).

The hazards in the code behind these properties are listed, with their lines, in
`PROJECT.json`.

## Modules

| Module | What it is |
|---|---|
| `Election` | the consensus state of every node, the consensus loop threads and the vote and heartbeat RPCs |
| `ElectionProofs` | its theorems |
| `MCElection` | instances of `Election` for TLC |
| `Replication` | extends `Election` with logs, pending files, commits, recovery and catch-up of one shard |
| `ReplicationProofs` | its theorems, the refinement of `ElectionSpec` among them |
| `MCReplication` | instances of `Replication` for TLC, with the constraints that bound them |
| `Journal` | abstract: the mutations of a shard only grow, by the next number and a new operation, and a crash loses all or nothing |
| `Storage` | the files of one node, their writes, the publisher, and what a restart loads; implements `Journal` |
| `StorageProofs` | its theorems, the refinement of `Journal` among them |
| `MCStorage` | instances of `Storage` for TLC |
| `AclData` | the data of the list and the pure functions on it: patterns, precedence, blast radius, the changes of a rollback |
| `AclReplica` | abstract: a replica is at a position of the mutation stream and holds exactly what the mutations up to it leave |
| `EdgeState` | extends `AclData`: the source of truth's content, rollback, and an edge's `ActiveState`, which implements `AclReplica` |
| `EdgeStateProofs` | its theorems, the refinement of `AclReplica` among them |
| `MCEdgeState` | an instance of `EdgeState`: addresses of 2 bits, two shards |
| `Delivery` | one shard from commitd through JetStream and a relay to an agent |
| `DeliveryProofs` | its theorems |
| `MCDelivery` | an instance of `Delivery` |
| `Acks` | the agent's acks on their way back, and their storage on a quorum |
| `AcksProofs` | its theorems |
| `MCAcks` | an instance of `Acks` |
| `Publication` | snapshot file, artifacts and manifest on disk and in the object store; restore |
| `PublicationProofs` | its theorems |
| `MCPublication` | an instance of `Publication` |

The modules meet at their interfaces. `Storage` says what a node loads from its files;
`Publication` takes that as `source`. `Replication` decides what is committed;
`EdgeState`, `Delivery` and `Publication` start from committed mutations in order.
`Delivery` ends at the relay's ack table, where `Acks` begins; a leader of `Acks` is
one of `Election`, overtaken ones included.

### Election

`currentTerm`, `votedFor`, `role` and `leaderId` are the fields of
`ConsensusState`; `disk` is `consensus.state`. `task[n]` is the program counter of
node n's consensus loop thread: idle, polling for votes, recovering, or in a round
of heartbeats, with the peers still to call and the peer whose answer it awaits.
A handler holds the consensus mutex from its first read to the end of
`persist_consensus_state`, so each handler is one action. `requests` holds calls
not yet handled, `replies` the answers to callers that still wait.

* Time is left out: a deadline may have passed whenever the loop looks, a call may
  time out (`RpcFails`) at any moment after it was sent, and its request is still
  handled later or never.
* Writing `consensus.state` may fail. The code has changed the state in memory by
  then and returns without undoing it; the parameter `ok` of the actions is the
  outcome of the write. The write itself goes to a temporary file that is synced
  and renamed, hence old content or new.
* `Restart` is a crash followed by `load_consensus_state`: term and vote come from
  disk, the leader hint from the configuration.
* `AcceptReplication` is the fence (`ensure_replication_leader` and
  `ensure_mutation_term`) by which a replicated mutation changes term, role and
  leader. In `Election` it happens with the epoch of any leader that was elected;
  `Replication` says when.
* `voteLog` and `elected` are history variables.
* `MaxTerm` bounds the term; the code's own bound is the checked addition at
  `consensus.rs:45`.

### Replication

One shard is modelled. The log of a node is both its `SourceOfTruth` history and
its log file: `apply_prepared_mutation` changes them under the state mutex, and a
crash between its writes leaves the log with or without the mutation and possibly
a pending file that recovery discards, as does a crash before or after the action.
`commit[n]` is the commit that holds node n's state mutex while it waits for
prepares; actions that need the mutex have `StateFree(n)` as a guard. Handlers of
replication requests take two steps, because the fence and the work are under
different mutexes: `FenceMessage` and then `HandlePrepare`, `HandleCommit` or
`HandleAbort`. `acked` records every answer to a client: the sequence number and
operation of the `CommitOutcome`, its epoch and the node that gave it, whether it had
committed the operation or found it in its op index. `local_log_status` is read in two steps as well (watermark, then
pending files), before the consensus mutex is taken.

Recovery (`LoadPending`, `RecoverOld`, `RecoverOne`, `RecoveryStops`,
`RecoveryEnds`) runs on the consensus loop thread, between `BecomeLeader` and the
first heartbeats, while client writes are accepted already, as in the code.
Catch-up (`SyncBegin`, `SyncFence`, `SyncApply`, `SyncEnd`) pulls from the node
that the follower takes for the leader. Compaction and snapshot installation do
not happen: they start at `COMPACTION_MIN_LOG_ENTRIES` mutations, 10000 by default.

Every step of `ReplSpec` is a step of `ElectionSpec` or leaves the election
untouched; the run `repl_reigns` checks this refinement and `ReplicationElects` proves it,
so what is proved of `Election` holds of the composed system.

### Storage and Journal

One node and one shard, seen from the disk: `log` (with `doubled` for records that
are in it twice and `torn` for one that was cut short), `snap`, `idem` and `offsets`
are the shard log, the latest snapshot, `idempotency.glog` and the publisher's offset
file. `state` is the `SourceOfTruth`: what was applied, the retained history, the
compaction watermark and the op index. `pc` is where the holder of the state mutex is
between two writes, `batch` and `next` what the publisher thread has in hand.

* A commit is `Commit` (prepare and log append), `ApplyLogged` (delta bundle, then
  memory), `PersistSnapshot` (snapshot, manifest, archive), then, when the history is
  long enough, `CompactSnapshot`, `CompactIdempotency` and `CompactLogs`. Each is one
  write that a crash or an error may separate from the next.
* Files that are written to a temporary name, synced and renamed have old content or
  new. A log append is not atomic: `CommitTears`.
* `load_source_of_truth` is an operator over the files, so the properties can ask at
  every state what a crash at this moment would leave. Its three constructors keep
  their names and their checks; a missing snapshot file loads like the snapshot of an
  empty state.
* `Faults` selects the writes that may fail. JetStream (`stream`) is external: a send
  that returns an error may have arrived.
* The wall clock gives a commit any `committed_at_unix`; the publisher sorts by it.
* `publishing`, chosen at the start, says whether a publisher is configured.
* Replication is left out: `set_epoch`, prepares and peers change no local file but
  the pending directory. Manifests and the object store are in `Publication`;
  snapshot installation from a leader is not modelled.

`ImplementsJournal` is the refinement of `Journal`: `Held` is what the process has
applied, or, while it is down, what `load_source_of_truth` will make of the files, and
`told` is what clients were answered and relays can read. `ApplyLogged` appends, answers
and publications tell, a load is a stutter. A crash is a stutter in most states; it
appends when a request stopped between the log append and the application, and loses the
journal when the log is torn, or by the finding of `storage_offsets`. This says more than
`AckedKept`: mutations that were applied and served, but whose client got an error, are
not taken back either.

### AclData, EdgeState and AclReplica

A raw value is what the parsers make of it: an address or none, and the labels of a
domain. Hashes of keys are injective, addresses have `AddrBits` bits, there is one
tenant. `AclData` keeps the code's names (`mask_ipv4`, `canonicalize_domain`,
`compile_rule_pattern`, `is_expired`, `action_rank`, ...); `RestorePhases` and
`RestoreNext` give the mutations of `restore_snapshot` in its order: entries no longer
wanted, entries that differ, then the same for rules.

In `EdgeState` the `source` has entries, rules and watermarks; `Commit` and
`CommitRule` are the two write routes with the blast-radius gate in front of them. A
rollback is `RollbackBegin`, one `RollbackStep` per mutation, and `RollbackDone` or
`RollbackFails`: no client write falls between them, because the route holds the state
mutex, but the edge may be handed any part. `edge` is an `ActiveState`: the base, its
negative filter as a set of bits, the overlay (additions and removals of entries and
of rules) and watermarks. `Receive` hands it any committed mutation, `Compact` is
`compact_delta_overlay`, `Repair` replaces it by an archived snapshot.

`ImplementsReplica` is the refinement: with the materialised entries and rules for the
abstract ones and the watermarks for its position, every behaviour of `EdgeState` is
one of `AclReplica`. Duplicates, gaps and late deliveries are stutters, compaction is
one, a repair is a jump to an archived position.

### Delivery

A mutation is its sequence number. `node` has for each commitd node the applied
number, the compaction floor and the number of its snapshot file; reads go to any
node. `published` and `acked` are JetStream and the relay's durable consumer (external:
at least once, redelivered until acknowledged). `cache` is the `RelayCache` with its
two watermarks; `mode` says whether the relay reads JetStream or passes requests on.

A commitd node answers a request for mutations or for a bundle under two locks, one
after the other: the first looks whether history from there on is compacted away
(`compacted_seq_for_query`, `commit.rs:12`; then the answer is 409), the second reads
(`mutations_for_query`, `delta_bundle_for_query`, `commit.rs:32` and `61`). A commit that
compacts in between leaves an answer that starts beyond a gap. Hence a request to a node
is two steps, for the relay (`PullAsks`, `PullReads`) and for the agent (`AgentAsks`,
`AgentIsAnswered`). Of the request for a signature only the outcome is modelled, in one
step: it verifies, there is none, or it is of another answer. The relay's cache answers
under one lock.

The relay takes a message that is no gap (`PullAcks`; `PullUnacked` when the ack is lost),
and for another it asks a node for the bundle between its watermark and the message. Any
status other than 200 makes it rebuild the cache from a snapshot (`PullRebuilds`).

The agent's poll is split where it makes a request or writes a file: it asks for
mutations, reads the answer, asks for the signature, applies what it got (`Accepts`),
writes the snapshot file, swaps the state and acks. A gap leads to `repair_gap`, which asks
for the bundle that ends before the first mutation of the answer: the same three steps,
with `agent.to` as the end of the bundle. When that is empty or not to be had, as after 409
or 410 in the first place, `repair_from_snapshot` follows (`AgentRepairs`), or fails because
manifest, artifact and signatures came from different nodes (`AgentRepairFails`).

### Acks

`ackTable` is the relay's table in memory, which takes any ack, `posts` what it ever
forwarded; any post may reach any node at any later time, again and again.
A request at a leader collects answers of peers until a quorum has stored the ack,
then stores and confirms it. `store[n]` keeps the newer ack (`Keep`). `merge` is
`sync_acks_from_peers` of a new leader. Peers ask neither for leader nor for term, so
leaders that were overtaken go on confirming.

### Publication

A snapshot is the sequence of mutations it is made of. Two writers are at work: `job["locked"]` is
a startup or a commit, under the state mutex, `job["free"]` an uploaded snapshot or the
end of a rollback, without it. Each writes the snapshot file (the locked one), the
artifact, then manifest and signature by way of one temporary name that both share,
then the puts to the object store. One request publishes more than once (`Follows`): a
commit its snapshot as the latest, as an archived one, and again when it compacts the
logs; a start the loaded snapshot, and again when it compacts on startup. Every write and
put may fail, the process may stop after each of them, and the disk may be lost.
`FailedJob` is the end of a publication that failed: the commit is refused, its mutation
stays applied and served (`commit.rs:240-248`). `Retry` is the answer to a client that
sends its `op_id` again: a duplicate, acknowledged without any upload
(`commit.rs:189-191`); `forgotten` counts the mutations whose `op_id` a restored node does
not know. `refused` and `retold` are history: the last publication under the mutex failed,
and a client was told of a duplicate while that was so. A write of the temporary file is
one step: of two writers at the same moment, one is taken to write all of it before the
other. `Restore` is
`restore_latest_snapshot_from_object_store`, `RestoreCrashes` its beginning, and
`StartEmpty` the empty bootstrap when the store has nothing. `requireUpload` is chosen
at the start. The agent bootstraps from the manifest and then polls.

## Runs

| Run | Instance | Shows |
|---|---|---|
| `election` | 3 nodes, one contested term, symmetric | `ElectionSafety`, `ElectionInv` |
| `election_fair` | 2 nodes, 2 elections, leader hint | `OneVotePerTerm`, `NoSecondReign`, `StaleLeaderStepsDown` |
| `repl_reigns` | 2 nodes, 2 reigns, 2 operations, logs up to 2, 1 message | `ReplInv`, `OneSeqPerOp`, `ElectionSpec` |
| `repl_three` | 3 nodes, 1 candidate, 2 operations, 2 messages, failing writes of `consensus.state` | `LogBehindTerm`, `SameEpochSameEntry` |
| `repl_takeover` | 2 nodes, 2 reigns | violates `OneOpPerSeq` |
| `repl_catch_up` | 2 nodes, 2 reigns, 1 operation, 1 message, fair sync loop | violates `FollowersCatchUp` |
| `storage` | no publisher: 4 commits, 3 crashes, two clock values, failing snapshot and compaction writes; or a publisher: 3 commits, 2 crashes, every write may fail, logs of up to 3 different records; compaction at 2 entries and on startup | `StartsAgainAlone`, `AckedKept`, `OpIndexExact`, `StreamKept`, `UnpublishedRetained`, `StorageInv`, `ImplementsJournal` |
| `storage_offsets` | publisher, no failing writes | violates `StartsAgain` |
| `edge` | 3 commits, 1 rollback, 2 shards, entries and rules that overlap, expire and need an override | `EdgeInv`, `LookupAgrees`, `CheckAgreesUnlessReplaced`, `RollbackRestores`, `RulesCoverWhatTheyName`, `ImplementsReplica` |
| `delivery` | 2 nodes, 3 mutations, 1 fault (failed write or request, lost ack, crash of the agent, restart of the relay, clock set back), both relay modes | `TypeOK`, `AnswersContinue`, `NeverStranded`, `AckedIsDurable`, `DeliveryInv`, `AgentCatchesUp` |
| `acks` | 3 nodes, 2 acks, 2 requests at a time, 2 changes of leader or restarts, symmetric | `ConfirmedOnQuorum`, `LeaderRemembers`, `AcksInv` |
| `publication` | 2 commits and their retries, 1 upload or rollback, 2 crashes, failures or losses of the disk, with and without `REQUIRE_UPLOAD`; an agent where there is no upload or rollback | `TypeOK`, `QuietServes`, `RemoteRestorable`, `AckedIsRemote`, `AgentsFollowRestore`, `PublicationInv`, `NeverEmptied` |

`ElectionInv`, `ReplInv`, `StorageInv`, `EdgeInv`, `DeliveryInv`, `AcksInv` and
`PublicationInv` are the inductive invariants of the proofs; the type invariant of each
module is a conjunct of it.

Terms start at 1, so `MaxTerm = 2` is one election per node and term 2 the only
one that can have a leader; 3 allows a second reign. Two nodes with quorum 2 are
enough for a takeover with pending mutations, because the prepared node and the
old leader can each win the next election; three nodes are used where followers
must see different things. The constraints of `MCReplication` bound the search, not
the system: rounds of heartbeats are explored while no replication request is under way
(`QuietBeats`), at most `MaxInflight` replication requests are under way
(`FewMessages`), and the run with three nodes has one candidate and starts
replication after the votes (`OneCandidate`, `VotesFirst`).

In the `storage` runs compaction at two entries happens more than once, so
that a compaction meets the files that an earlier, perhaps interrupted, one has left;
two values of the clock tell two attempts of one operation apart. `StartsAgainAlone`
is about the node without a publisher, `UnpublishedRetained` about the one with it, the
others about both; with a publisher every write may fail. These runs end when
the sequence numbers or the crashes are used up, or when the files do not load, so
they do not check for deadlock.

In `edge` two mutations of one key, a mutation of another shard, an old snapshot and a
rollback to it fit into the bounds, so an overlay entry can shadow, remove and restore
one of the base; a base of one entry and one of two give different filters. Three
mutations in `delivery` are enough for a cache with a base, a middle and an end while
the nodes are compacted past the agent, between the two locks of an answer as well. Two acks in `acks` are enough for an older one
to overtake a newer one, and three nodes for quorums that differ. In `publication` two
faults allow a crash and then the loss of the disk, or a failed put and a loss, with the
retry of the refused commit in between. `FollowedWithoutUploads` drops the states in which
an agent follows a node that has had an upload or a rollback: it bounds the search, and the
theorems are without it.
`delivery` and `publication` end when everything is delivered or the bounds are used up.

### What the violations show

* `repl_takeover`: the winner of an election is visible as leader before it has
  recovered its pending mutations. A client write in that window takes the
  sequence number of a mutation the old leader has acknowledged; the old leader
  answers the prepare with Ok since its watermark is there already. Two clients
  hold acknowledgements for one sequence number.
* `storage_offsets`: the loader takes the publisher's offsets for the point up to
  which the log was compacted. They move on without the log: one published mutation
  and a crash between the log append and the snapshot of the next, and the node
  finds a gap in a complete log and does not start. `storage` shows that without a
  publisher it always starts.
* `repl_catch_up`: a follower that missed a mutation of one term never gets it from a
  leader of a later term, though `docs/deployment.md:248` has followers "run a catch-up
  loop against the leader". `sync_from_leader` hands every mutation to
  `commit_replicated_mutation_from_leader` (`consensus.rs:455`), whose fence compares the
  epoch of the mutation with the term of the follower (`commit.rs:450`) and rejects what
  is older. In the trace one node commits in term 2, crashes before its commit message is
  handled, is elected again in term 3, and that node stays in office: the vote has moved
  the follower to term 3, the late commit message is rejected, and so is the same mutation
  in every pass of the sync loop. With two nodes nothing more can be committed then, since
  the follower's prepare for the next number fails on the gap. Only compaction ends this
  (the leader answers 409 and the follower installs a snapshot), which needs
  `COMPACTION_MIN_LOG_ENTRIES` mutations in the log, or the follower's own election, which
  recovers the pending file that it still has.

### Known limits of the program

The properties of the passing runs are stated so that they hold; what they leave out is
this:

* `commit.rs:394`: an abort names a sequence number, not a mutation. One that arrives
  late removes the pending file of the next attempt, whose mutation may then be
  acknowledged though only the leader holds it.
* `commit.rs:329`, `commit.rs:373`: the fence of a replicated mutation is released before
  the state mutex is taken, and not looked at again. In a cluster of five a mutation of an
  older epoch can so be appended after one of a newer epoch: epochs may decrease along a
  log, and `LogBehindTerm` compares them with the term on disk only.
* `storage.rs:4`: a record whose delta bundle could not be written stays in the log
  though its request failed. Without a publisher its operation counts as applied after a
  restart, whatever mutation has its sequence number by then (`OpIndexExact` is checked,
  and proved, for bundles that can be written there).
* `active_state.rs:216`: `check` masks rules of the base that the overlay removed, not
  those that it replaced. Until the overlay is compacted the old version of a rule may
  still decide (`CheckAgreesUnlessReplaced`).
* `relay/acks.rs:67`: a JetStream relay that restarts takes its base from the snapshot
  of whichever node answers. If that is behind what the durable consumer has
  acknowledged, it stays behind until the next mutation (`AgentCatchesUp` and
  `NeverStranded` exclude it).
* `object_store.rs:302`: without `REQUIRE_UPLOAD` a node restored from an older
  snapshot gives lost sequence numbers to new mutations; an agent that holds the lost
  ones does not notice (`AgentsFollowRestore` is about required uploads, and about
  agents that hold no more than what was acknowledged).
* `commit.rs:242`: `REQUIRE_UPLOAD` refuses a commit whose upload failed, but the mutation is
  applied and served by then. When the client sends it again it is acknowledged as a
  duplicate, without an upload (`commit.rs:189-191`), and a loss of the disk before the next
  publication that goes through, be it of another commit or of a restart, loses it. So
  `REQUIRE_UPLOAD` does not quite give what `docs/deployment.md:451` promises ("write
  unavailability over running with local PVC durability while remote snapshot publication
  is down"). `AckedIsRemote` and `AgentsFollowRestore` say what holds: everything
  acknowledged is remote unless such a retry was answered (`retold`) or an upload or a
  rollback published over it (`foreign`); a retry that is answered after a publication has
  gone through, or after a restart, is covered.
* A crash between the first manifest and its signature in the object store leaves a
  store from which no node can be restored; `RemoteRestorable` begins with the first
  complete publication.
* `commit.rs:12` and `commit.rs:32`: an answer may have a gap, because the floor is checked
  and the history read under two locks. `docs/api.md:384` provides for it: "Agents try this
  repair path when they detect a sequence gap, then fall back to the latest snapshot if
  bundle repair cannot recover the missing range." The model shows that every gap comes
  from a compaction (`AnswersContinue`: what is missing is below the floor of some node,
  so in its snapshot file). The bundle is therefore of use only when another node or the
  relay's cache still has what the first node has dropped; at that node it is refused with
  409 and the snapshot repairs the gap.

### Fairness

`election_fair` assumes that the loop thread keeps running (weak fairness of its
steps; every call has a read timeout, `core/http.rs`), and that a link that is used
again and again delivers a heartbeat and its answer in time again and again (strong
fairness of `HeartbeatHandled` and `HeartbeatAnswered`). Nothing is assumed of
elections, votes, restarts or disks. `StaleLeaderStepsDown` asks that the newer term
is on a peer's disk: a term that only a peer's memory holds can vanish in a restart.

`repl_catch_up` assumes that the sync loop keeps running, that its GETs and its
work succeed again and again (strong fairness of `SyncFence`), and that a commit ends
by an answer or a timeout. Its counterexample is one in spite of that: `SyncFence` is
never enabled again, because the fence does not admit the mutation.

`delivery` assumes that the loops of followers, publisher, relay and agent go on (weak
fairness; each sleeps and tries again after an error); that a message is delivered until
it is acknowledged, so that the relay takes the next one again and again (strong fairness
of `PullAcks`); and that a relay which rebuilds its cache, or an agent which repairs, again
and again is not answered by the same lagging node for ever (strong fairness of
`PullRebuilds` from the leader and, per node, of `AgentRepairs`; both reach commitd through
a Service that balances over its nodes, `docs/deployment.md:248`). Commits, compaction,
faults and restarts are not assumed to happen.

## Proofs

Seven modules hold theorems. Each proves `Spec => []Inv` for one inductive invariant, with
a lemma per action for its preservation, and derives the other results from it. No bound of
a run is in a theorem: `MaxTerm`, `MaxSeq`, `MaxFaults`, the sets of nodes, operations,
requests and uploads are any that the named assumptions of the module allow, and those say
no more than what the code enforces or what a type says.

| Theorem | Property |
|---|---|
| `ElectionProofs`: `ElectionInvariant`, `ElectionTypeOK`, `VotesAreUnique`, `OneLeaderPerTerm`, `ReignsAreFresh` | `ElectionInv`, `TypeOK`, `OneVotePerTerm`, `ElectionSafety`, `NoSecondReign` |
| `ReplicationProofs`: `ReplInvariant`, `ReplicationTypeOK`, `ReplicationElects`, `LogsStayBehindTerm`, `EpochsDecideOnce`, `OneLeaderWhileReplicating`, `OperationsAnsweredOnce`, `AcknowledgedStaysInLog` | `ReplInv`, `ReplTypeOK`, `ElectionSpec`, `LogBehindTerm`, `SameEpochSameEntry`, `ElectionSafety`, `OneSeqPerOp`, `AckedInLog` |
| `StorageProofs`: `StorageInvariant`, `StorageTypeOK`, `AcknowledgedSurvives`, `DuplicatesAreExact`, `PublishedSurvives`, `CompactionWaitsForPublisher`, `AloneStartsAgain`, `FilesAreJournal` | `StorageInv`, `TypeOK`, `AckedKept`, `OpIndexExact`, `StreamKept`, `UnpublishedRetained`, `StartsAgainAlone`, `ImplementsJournal` |
| `EdgeStateProofs`: `EdgeInvariant`, `EdgeIsReplica`, `LookupsAgree`, `ChecksAgree`, `RollbacksRestore`, `RulesCover` | `EdgeInv`, `ImplementsReplica`, `LookupAgrees`, `CheckAgreesUnlessReplaced`, `RollbackRestores`, `RulesCoverWhatTheyName` |
| `DeliveryProofs`: `DeliveryInvariant`, `NothingAheadOfSource`, `AnswersAlwaysContinue`, `RelayNeverStranded`, `AcksAreDurable` | `DeliveryInv`, `TypeOK`, `AnswersContinue`, `NeverStranded`, `AckedIsDurable` |
| `AcksProofs`: `AcksInvariant`, `AcksTypeOK`, `ConfirmedAcksStay`, `NewLeaderRemembers` | `AcksInv`, `TypeOK`, `ConfirmedOnQuorum`, `LeaderRemembers` |
| `PublicationProofs`: `PublicationInvariant`, `ManifestsNameArtifacts`, `QuietNodeServes`, `AlwaysRestorable`, `AcknowledgedIsRemote`, `AgentsGoOn`, `NeverPublishesEmpty` | `PublicationInv`, `TypeOK`, `QuietServes`, `RemoteRestorable`, `AckedIsRemote`, `AgentsFollowRestore`, `NeverEmptied` |

**Election** (`ClusterAssumption`: a finite cluster and a majority quorum, which
`replication_config` enforces at startup). `OneVotePerTerm` is not inductive: a restart
could load an older vote, and a failed write leaves memory ahead of disk. `VotesKept` ties
a recorded vote to the disk and to the memory of the voter; `CountedVotes` says that a
candidate counts, and is told of, recorded votes only; `RepliesAwaited` that a reply meets
the call it answers, so a late answer is never counted in another election; `QuorumElected`
that every reign has a quorum of recorded votes behind it and that the elected node does
not stand in that term again. Two quorums share a voter, who voted once: one leader per
term.

**Replication** (`ClusterAssumption`, `ReplicationAssumption`). `ReplInv` contains
`ElectionInv`, so it speaks of the state of both modules. `EpochsElected` and
`LeadersElected` say that whatever is prepared or on its way has the epoch of an elected
leader; with that every fence, step-down and recovery is a step of `Election` or touches
nothing of it (`ReplicationElects`), and the theorems of `ElectionProofs` hold of the
replicating cluster. `SameEpochSameEntry` compares two followers that may never have
spoken to each other; it becomes inductive through the leader: `LeadersDecide` has every
mutation in a log, in a commit request or in an answer to catch-up also in the log of the
one leader of its epoch, and logs only grow. `LogBehindTerm` needs `FencedOnDisk` (the fence
of a request under way is on the disk of the node that handles it) and `OneSyncThread`.
`OperationsAnsweredOnce` compares the answers of one node, in whatever reigns, and those of
one epoch. It rests on `OpsOnce` (a log has an operation once, because `op_index` is looked
at again before every application, also of commits, recovery and catch-up) and `AckedInLog`
(an answer stays true of the log of the node that gave it, because logs only grow); two
answers of one epoch come from logs that `SameEpochSameEntry` makes agree. Answers of
different nodes in different epochs are left out for a reason: `repl_takeover` shows that
they may disagree.

**Storage** (`StorageAssumption`, `NoneAssumption`). `FilesAddUp` is the heart:
what the log has above the snapshot's watermark, together with the snapshot, holds
everything acknowledged or published; where a mutation has left the log, all before it
have; and the idempotency stream with the log covers the snapshot. `StateAddsUp` says the
same of the memory, `CommitUnderWay` how far the writes of a commit or compaction have come,
`PublisherInStep` that the offsets never pass what the stream has, and that compaction
never passes the offsets, although the two run at the same time. The theorems about nodes
without a publisher carry hypotheses on the writes that may fail: `BundlesAlone` (delta
bundles can be written; see the known limits for what happens else) and, for
`AloneStartsAgain` only, `TearsNotAlone` (no record is cut short; a node with a torn log
refuses to start, by design). With a publisher every write may fail in all theorems.
`FilesAreJournal` follows from `StorageInv` step by step. The step that needs an argument
is the crash: what the files load holds what the state holds, and the log is never more
than one number ahead of the state (the last conjunct of `StateAddsUp`), so a load that
gives more gives exactly one mutation more, at the next number, and its operation is new
because the load has checked that the op index agrees.

**EdgeState** (`EdgeAssumption`, `RequestAssumption`, `AddrBitsAssumption`, and
`ParsedAssumption`: a parser gives an address of `AddrBits` bits or none, and labels that
are strings). `EdgeInv` says
that the source, each archived snapshot and the edge (base and overlay together) are
exactly what the mutations up to their watermarks leave, for any requests, any hash
function of the filter and any parameters of it. The lemma that carries it is
`ViewAdvances`: one mutation more is one `Put` on the map, because nothing about its
subject comes after it; `OverlayPut` says that the overlay commutes with it as long as no
key is both added and removed, a conjunct of `TypeOK`. `EdgeIsReplica` is the refinement
of `AclReplica`, step by step. `LookupsAgree` adds that the filter has no false negatives
(its bits were set for the very length they are asked for) and `LenCounts`, that
`entries_len` is right without building the map. `ChecksAgree` adds `BucketsMatch`: the
buckets by prefix length and suffix find the rules that a scan finds. `RollbacksRestore`
compares maps that differ in every sequence number: `OutranksOrders` and `BestExists` give
a best rule of any finite set, and `AlikeBest` says that renumbering can only choose
another rule of the same priority and action. `RulesCover` is about `mask_ipv4` and
`canonicalize_domain`: two addresses have equal masks exactly when they lie in one block of
`2^(AddrBits - prefix)` addresses, that is, when they share their first `prefix` bits, and
a suffix of labels matches exactly the names that end with it after trailing empty labels
are trimmed. The laws of powers of two that this needs would take an induction; they are
taken from the cardinality of power sets instead (`PowerPositive`, `PowerSum`).

**Delivery** (`DeliveryAssumption`). `PollUnderWay` says what the agent holds between
the requests of one poll, whichever nodes answered them and whatever they compacted
between the check and the read: an answer goes on where the agent ends, or after a number
up to which some node has compacted, and a gap to be repaired ends there too. The
argument is that a floor only rises and that a node reads what it has above its floor of
that moment. `PullUnderWay` says the same of the relay: the message it repairs a gap for is
still unacknowledged. `BehindIsOwed` says that a relay whose cache is behind an
acknowledged message, which happens when a gap made it start again from an older
snapshot, still has a later message to come: the acknowledgement of that one is what
`NeverStranded` depends on. That the cache itself never has a gap (`TypeOK`) is due to
`RelayCache::apply`, which rejects an answer that does not continue.

**Acks** (`AcksAssumption`). Stores only grow; `CountedHaveIt` says that a peer counted
for a request has its ack, `OwedIsUnread` that a new leader has what was confirmed before,
or a quorum of the nodes it has not read yet has it. A read set that misses less than a
quorum therefore cannot miss it.

**Publication** (`PublicationAssumption`, `NoneAssumption`). `SnapInStep` and
`ManifestInStep` say where the two writers are between two writes of the files that they
share, `JobsInStep` what each carries and has already stored, `RemoteInStep` how the
object store, the files and what was acknowledged are related. Its heart is that a node
with required uploads that serves, with no publication under the mutex and none refused
since the last that went through, has its whole state in the store: that is what a
`Retry` may acknowledge, also after a crash in the middle of the first attempt, because a
start publishes before it serves. `published`, `failed`, `overlapped`, `foreign`, `refused`
and `retold` are the history that the properties are conditional on.

Checked by TLC only:

* liveness: `StaleLeaderStepsDown`, `AgentCatchesUp`. The prover has no rules for fairness;
* the three violations, which are counterexamples.

## Plan

1. Snapshot installation from a leader (`consensus.rs:472`), which needs the files of
   `Storage` and the messages of `Replication` in one state: snapshot and idempotency
   stream come from two requests, the new state is built without the state mutex.
2. A run with three nodes and two reigns on a reduced election for the vote check that
   compares sequence numbers only (`consensus.rs:226`).
3. Several nodes that upload to one object store.
4. What catch-up does give across terms: a liveness property whose premise is that what
   the follower misses is of its own term.

## Not modelled

Snapshot installation on followers; several tenants; the canary check of the agent. The control gateway keeps no state; its
blast-radius gate is in `EdgeState`. Codecs, signatures, S3 requests, the NATS
client, authentication, metrics, audit rendering, the demo application, the
benchmark and the generated clients are formats and I/O: the models keep what they
decide (delivered or not, verifies or not). Byzantine peers are
outside the program's assumptions: internal endpoints require the peer token.
