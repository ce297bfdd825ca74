------------------------------- MODULE Storage -------------------------------
(***************************************************************************)
(* The files of one commitd node, and what a restart makes of them.        *)
(*                                                                         *)
(* A commit appends its mutation to the shard log, writes a delta bundle,  *)
(* applies the mutation to the SourceOfTruth in memory and rewrites the    *)
(* latest snapshot.  When the history in memory is long enough, compaction *)
(* writes the snapshot, then the idempotency stream, and then drops from   *)
(* the log what the snapshot covers; with a publisher, only what JetStream *)
(* has.  A publisher thread sends the history to the stream and records    *)
(* its offsets.  The process may stop between any two of these writes, and *)
(* writes may fail; load_source_of_truth then has to rebuild the state.    *)
(*                                                                         *)
(* One node and one shard: the files of different shards are independent.  *)
(* All of a commit runs under the state mutex, the publisher takes it only *)
(* to read the history.  Of a mutation the model keeps what its equality   *)
(* can depend on: sequence number, op_id and committed_at_unix, which is   *)
(* whatever the wall clock says.  The entries and rules of a snapshot are  *)
(* a function of the mutations applied, so those stand for them.           *)
(***************************************************************************)
EXTENDS Naturals, FiniteSets

CONSTANTS
    None,               \* no request in hand; the load failed
    Op,                 \* client operation ids
    MaxSeq,             \* bound on the sequence numbers
    MaxAt,              \* bound on committed_at_unix
    MaxCrashes,         \* bound on the number of crashes
    MinLogEntries,      \* COMPACTION_MIN_LOG_ENTRIES; 0 turns compaction off
    CompactOnStartup,   \* COMPACT_ON_STARTUP
    Publishing,         \* with a JetStream publisher, without, or either
    Faults,             \* the writes that may fail without a publisher
    PublisherFaults     \* and those that may fail with one

ASSUME StorageAssumption ==
    /\ {MaxSeq, MaxAt, MaxCrashes, MinLogEntries} \subseteq Nat
    /\ CompactOnStartup \in BOOLEAN /\ Publishing \subseteq BOOLEAN
    /\ Faults \union PublisherFaults
           \subseteq {"torn", "bundle", "snapshot", "compact", "publish"}

VARIABLES
    \* The disk.
    log,        \* the records of the shard log
    doubled,    \* the records that are in it more than once
    torn,       \* whether it has a record that was cut short
    snap,       \* the latest snapshot
    idem,       \* the idempotency stream, {} when there is no file
    offsets,    \* publisher.offsets
    \* The process.
    publishing, \* whether a publisher is configured
    pc,         \* what the holder of the state mutex does
    cur,        \* the mutation it commits, or None
    state,      \* the SourceOfTruth
    cut,        \* the sequence number up to which the log is being compacted
    published,  \* last_published of the publisher status
    batch,      \* the mutations that the publisher has yet to send
    next,       \* next_published of the publisher thread
    \* Outside.
    stream,     \* the mutations in the JetStream stream
    acked,      \* history: mutations acknowledged to a client
    crashes     \* number of crashes so far

disk == <<log, doubled, torn, snap, idem, offsets>>
publisher == <<publishing, published, batch, next>>
vars == <<disk, pc, cur, state, cut, publisher, stream, acked, crashes>>

Mutation == [seq : 1 .. MaxSeq, op : Op, at : 0 .. MaxAt]
Snapshot == [watermark : 0 .. MaxSeq, applied : SUBSET Mutation]
SourceOfTruth ==
    [watermark : 0 .. MaxSeq, applied : SUBSET Mutation, compacted : 0 .. MaxSeq,
     mutations : SUBSET Mutation, op_index : SUBSET Mutation]

\* No state and no mutation is None.
ASSUME NoneAssumption == None \notin SourceOfTruth \union Mutation

\* SourceOfTruth::new
Empty == [watermark |-> 0, applied |-> {}, compacted |-> 0,
          mutations |-> {}, op_index |-> {}]

\* The types of the files, of the process and of the stream.
TypeOK ==
    /\ log \subseteq Mutation /\ doubled \subseteq log /\ torn \in BOOLEAN
    /\ snap \in Snapshot /\ idem \subseteq Mutation /\ offsets \in 0 .. MaxSeq
    /\ publishing \in BOOLEAN
    /\ pc \in {"down", "loaded", "idle", "logged", "applied", "compact", "idem",
               "logs"}
    /\ cur \in Mutation \union {None}
    /\ state \in SourceOfTruth
    /\ cut \in 0 .. MaxSeq
    /\ published \in 0 .. MaxSeq /\ next \in 0 .. MaxSeq /\ batch \subseteq Mutation
    /\ stream \subseteq Mutation /\ acked \subseteq Mutation
    /\ crashes \in 0 .. MaxCrashes

\* No file exists.  A missing snapshot loads like a snapshot of nothing.
Init ==
    /\ log = {} /\ doubled = {} /\ torn = FALSE
    /\ snap = [watermark |-> 0, applied |-> {}]
    /\ idem = {} /\ offsets = 0
    /\ publishing \in Publishing
    /\ pc = "down" /\ cur = None /\ state = Empty /\ cut = 0
    /\ published = 0 /\ batch = {} /\ next = 0
    /\ stream = {} /\ acked = {} /\ crashes = 0

MayFail(write) == write \in IF publishing THEN PublisherFaults ELSE Faults

Least(i, j) == IF i < j THEN i ELSE j
Greatest(i, j) == IF i < j THEN j ELSE i
After(ms, seq) == {m \in ms : m.seq > seq}

-----------------------------------------------------------------------------
(* Loading: what the files amount to.  A load that returns an error is None. *)

\* The records of ms, read from the log and sorted, are one each at
\* from + 1, from + 2, and so on (apply_committed_mutation).
Contiguous(ms, from) ==
    /\ ms \intersect doubled = {}
    /\ \A m, n \in ms : m.seq = n.seq => m = n
    /\ \E seq \in from .. MaxSeq : {m.seq : m \in ms} = (from + 1) .. seq

\* The watermark after the records of ms.
LastSeq(ms, from) ==
    CHOOSE seq \in from .. MaxSeq : {m.seq : m \in ms} = (from + 1) .. seq

\* insert_op_index accepts all of ms.
OpsAgree(ms) == \A m, n \in ms : m.op = n.op => m = n

from_mutations(ms) ==
    IF Contiguous(ms, 0) /\ OpsAgree(ms)
    THEN [watermark |-> LastSeq(ms, 0), applied |-> ms, compacted |-> 0,
          mutations |-> ms, op_index |-> ms]
    ELSE None

from_snapshot_and_mutations(s, idempotency, tail) ==
    IF Contiguous(tail, s.watermark) /\ OpsAgree(idempotency \union tail)
    THEN [watermark |-> LastSeq(tail, s.watermark),
          applied |-> s.applied \union tail, compacted |-> s.watermark,
          mutations |-> tail, op_index |-> idempotency \union tail]
    ELSE None

from_snapshot_and_retained_history(s, idempotency, ms, compacted) ==
    IF /\ Contiguous(ms, compacted) /\ LastSeq(ms, compacted) >= s.watermark
       /\ OpsAgree(idempotency \union ms)
    THEN [watermark |-> LastSeq(ms, compacted),
          applied |-> s.applied \union After(ms, s.watermark),
          compacted |-> compacted, mutations |-> ms,
          op_index |-> idempotency \union ms]
    ELSE None

\* Slip: the record at the watermark of the snapshot counts as its tail.
TailFromSnapshot(s) == {m \in log : m.seq >= s.watermark}

TailOfSnapshot(s) == After(log, s.watermark)

load_source_of_truth ==
    LET replayed == from_mutations(log)
        idempotency == idem \union log
    IN CASE torn -> None
         [] ~torn /\ ~publishing ->
              from_snapshot_and_mutations(snap, idempotency, TailOfSnapshot(snap))
         [] ~torn /\ publishing ->
              IF log # {} /\ replayed # None /\ replayed.watermark = snap.watermark
              THEN replayed
              ELSE from_snapshot_and_retained_history(snap, idempotency, log,
                       Least(offsets, snap.watermark))

-----------------------------------------------------------------------------
(* Starting.                                                                *)

Load ==
    /\ pc = "down" /\ load_source_of_truth # None
    /\ state' = load_source_of_truth
    /\ published' = offsets /\ next' = offsets
    /\ pc' = "loaded"
    /\ UNCHANGED <<disk, publishing, cur, cut, batch, stream, acked, crashes>>

SnapshotOf(s) == [watermark |-> s.watermark, applied |-> s.applied]

\* The startup snapshot; the publisher and the requests come after compaction.
WriteStartupSnapshot ==
    /\ pc = "loaded"
    /\ snap' = SnapshotOf(state)
    /\ pc' = IF CompactOnStartup THEN "compact" ELSE "idle"
    /\ UNCHANGED <<log, doubled, torn, idem, offsets, cur, state, cut, publisher,
                   stream, acked, crashes>>

-----------------------------------------------------------------------------
(* Committing.                                                              *)

\* Slip: only the operations that are still in the history are known.
KnownOpRetained(op) == {m \in state.mutations : m.op = op}

KnownOp(op) == {m \in state.op_index : m.op = op}

\* A request whose op_id is known is acknowledged with the mutation on record.
CommitDuplicate(op) ==
    /\ pc = "idle"
    /\ KnownOp(op) # {}
    /\ acked' = acked \union KnownOp(op)
    /\ UNCHANGED <<disk, pc, cur, state, cut, publisher, stream, crashes>>

CanPrepare(op) == pc = "idle" /\ KnownOp(op) = {} /\ state.watermark < MaxSeq

Append(mut) ==
    /\ log' = log \union {mut}
    /\ doubled' = doubled \union ({mut} \intersect log)

\* Slip: the mutation is in the log only once the snapshot is written.
AppendNothing(mut) == UNCHANGED <<log, doubled>>

AppendToLog(mut) == Append(mut)

\* prepare_commit, and the append to the log.
Commit(op, at) ==
    /\ CanPrepare(op)
    /\ cur' = [seq |-> state.watermark + 1, op |-> op, at |-> at]
    /\ AppendToLog(cur')
    /\ pc' = "logged"
    /\ UNCHANGED <<torn, snap, idem, offsets, state, cut, publisher, stream,
                   acked, crashes>>

\* The append fails, or the process stops, after part of the record.
CommitTears(op) ==
    /\ MayFail("torn")
    /\ CanPrepare(op)
    /\ torn' = TRUE
    /\ UNCHANGED <<log, doubled, snap, idem, offsets, pc, cur, state, cut,
                   publisher, stream, acked, crashes>>

\* The request is answered with an error, or startup compaction is skipped.
GiveUp ==
    /\ pc' = "idle" /\ cur' = None /\ cut' = 0
    /\ UNCHANGED <<publisher, stream, acked, crashes>>

BundleFails ==
    /\ MayFail("bundle")
    /\ pc = "logged"
    /\ GiveUp
    /\ UNCHANGED <<disk, state>>

\* apply_replicated_mutation finds a new op_id and the next sequence number.
Applied(s, mut) ==
    [s EXCEPT !.watermark = mut.seq, !.applied = @ \union {mut},
              !.mutations = @ \union {mut}, !.op_index = @ \union {mut}]

\* The delta bundle is written and the mutation applied in memory.
ApplyLogged ==
    /\ pc = "logged"
    /\ state' = Applied(state, cur)
    /\ pc' = "applied"
    /\ UNCHANGED <<disk, cur, cut, publisher, stream, acked, crashes>>

CompactionDue == MinLogEntries > 0 /\ Cardinality(state.mutations) >= MinLogEntries

Answer ==
    /\ pc' = "idle" /\ cur' = None /\ cut' = 0
    /\ acked' = acked \union ({cur} \ {None})

\* The latest snapshot, its manifest and the archived snapshot are written.
PersistSnapshot ==
    /\ pc = "applied"
    /\ snap' = SnapshotOf(state)
    /\ \/ CompactionDue /\ pc' = "compact" /\ UNCHANGED <<cur, cut, acked>>
       \/ ~CompactionDue /\ Answer
    /\ UNCHANGED <<log, doubled, torn, idem, offsets, state, publisher, stream,
                   crashes>>

\* One of these files cannot be written, with or without the first of them.
SnapshotFails ==
    /\ MayFail("snapshot")
    /\ pc = "applied"
    /\ snap' \in {snap, SnapshotOf(state)}
    /\ GiveUp
    /\ UNCHANGED <<log, doubled, torn, idem, offsets, state>>

-----------------------------------------------------------------------------
(* Compacting.                                                              *)

\* Slip: the publisher is not waited for.
CompactionWatermarkAtOnce == Greatest(state.watermark, state.compacted)

CompactionWatermark ==
    Greatest(IF publishing THEN Least(state.watermark, published)
                           ELSE state.watermark,
             state.compacted)

CompactSnapshot ==
    /\ pc = "compact"
    /\ cut' = CompactionWatermark
    /\ snap' = SnapshotOf(state)
    /\ pc' = "idem"
    /\ UNCHANGED <<log, doubled, torn, idem, offsets, cur, state, publisher,
                   stream, acked, crashes>>

\* Slip: the operations of the history, not of all time.
RecentOps == state.mutations

IdempotencyMutations == state.op_index

CompactIdempotency ==
    /\ pc = "idem"
    /\ idem' = IdempotencyMutations
    /\ pc' = "logs"
    /\ UNCHANGED <<log, doubled, torn, snap, offsets, cur, state, cut, publisher,
                   stream, acked, crashes>>

\* compact_logs_to_watermarks, which has to read the log, and
\* compact_mutation_history.
CompactLogs ==
    /\ pc = "logs" /\ ~torn
    /\ log' = After(log, cut)
    /\ doubled' = After(doubled, cut)
    /\ state' = [state EXCEPT !.mutations = After(@, cut),
                              !.compacted = Greatest(@, cut)]
    /\ Answer
    /\ UNCHANGED <<torn, snap, idem, offsets, publisher, stream, crashes>>

CompactionFails ==
    /\ \/ MayFail("compact") /\ pc \in {"compact", "idem", "logs"}
       \/ torn /\ pc = "logs"
    /\ GiveUp
    /\ UNCHANGED <<disk, state>>

-----------------------------------------------------------------------------
(* Publishing.                                                              *)

PublisherIdle == batch = {} /\ next = published

PublishRead ==
    /\ publishing
    /\ pc = "idle" /\ PublisherIdle
    /\ batch' = After(state.mutations, published)
    /\ batch' # {}
    /\ UNCHANGED <<disk, publishing, pc, cur, state, cut, published, next, stream,
                   acked, crashes>>

\* The batch is sent in the order of the commit times.
SentBefore(m, n) == m.at < n.at \/ (m.at = n.at /\ m.seq <= n.seq)

PublishOne ==
    \E m \in batch :
        /\ \A n \in batch : SentBefore(m, n)
        /\ stream' = stream \union {m}
        /\ batch' = batch \ {m}
        /\ next' = Greatest(next, m.seq)
        /\ UNCHANGED <<disk, publishing, pc, cur, state, cut, published, acked,
                   crashes>>

PublishPersist ==
    /\ batch = {} /\ next # published
    /\ offsets' = next /\ published' = next
    /\ UNCHANGED <<log, doubled, torn, snap, idem, publishing, pc, cur, state, cut,
                   batch, next, stream, acked, crashes>>

\* A send or the write of the offsets fails; the send may have arrived.
PublishFails ==
    /\ MayFail("publish")
    /\ ~PublisherIdle
    /\ \E arrived \in SUBSET batch :
          /\ \A m \in arrived, n \in batch : SentBefore(m, n)
          /\ stream' = stream \union arrived
    /\ batch' = {} /\ next' = published
    /\ UNCHANGED <<disk, publishing, pc, cur, state, cut, published, acked,
                   crashes>>

-----------------------------------------------------------------------------

Crash ==
    /\ pc # "down" /\ crashes < MaxCrashes
    /\ crashes' = crashes + 1
    /\ pc' = "down" /\ cur' = None /\ state' = Empty /\ cut' = 0
    /\ published' = 0 /\ batch' = {} /\ next' = 0
    /\ UNCHANGED <<disk, publishing, stream, acked>>

Next ==
    \/ Load \/ WriteStartupSnapshot
    \/ \E op \in Op : CommitDuplicate(op) \/ CommitTears(op)
    \/ \E op \in Op, at \in 0 .. MaxAt : Commit(op, at)
    \/ BundleFails \/ ApplyLogged \/ PersistSnapshot \/ SnapshotFails
    \/ CompactSnapshot \/ CompactIdempotency \/ CompactLogs \/ CompactionFails
    \/ PublishRead \/ PublishOne \/ PublishPersist \/ PublishFails
    \/ Crash

Spec == Init /\ [][Next]_vars

-----------------------------------------------------------------------------
(* Properties.                                                              *)

\* Wherever the process stops, it starts again: at any moment the files add up
\* to a state for load_source_of_truth (commit.rs:84), also between the writes
\* of a commit and between those of a compaction.
StartsAgain == load_source_of_truth # None

\* The same of a node without a publisher, whose loader takes the snapshot's
\* watermark for the point of compaction (commit.rs:141).
StartsAgainAlone == ~publishing => StartsAgain

\* A mutation that a client was told is committed is in memory, and in whatever
\* state the files give after a crash at this point (commit.rs:225): failed
\* snapshots, interrupted compactions and retries of an op_id included.
AckedKept ==
    /\ pc # "down" => acked \subseteq state.applied
    /\ LET loaded == load_source_of_truth
       IN  loaded # None => acked \subseteq loaded.applied

\* A running node answers "duplicate" for exactly the operations it has applied,
\* each applied once, after any number of failed writes, compactions and restarts
\* (source.rs:138, source.rs:205): no operation is applied again, and none is
\* skipped.  (Without a publisher, delta bundles are written: a record left in the
\* log by a request that was refused counts as applied after a restart.)
OpIndexExact ==
    pc # "down" => state.op_index = state.applied /\ OpsAgree(state.applied)

\* What relays have read from JetStream is never taken back: the stream has one
\* mutation at a sequence number, and a restart of commitd still has it
\* (propagation.rs:13).
StreamKept ==
    /\ \A m, n \in stream : m.seq = n.seq => m = n
    /\ LET loaded == load_source_of_truth
       IN  loaded # None => stream \subseteq loaded.applied

\* Compaction does not outrun the publisher: a mutation that the running node
\* has applied is in the stream, or still in the history above last_published,
\* from which the publisher thread will send it (storage.rs:43).
UnpublishedRetained ==
    publishing /\ pc # "down" =>
        \A m \in state.applied :
            m \in stream \/ (m \in state.mutations /\ m.seq > published)

\* The mutations of ms are one each at the sequence numbers up to seq.
Numbered(ms, seq) ==
    {m.seq : m \in ms} = 1 .. seq /\ \A m, n \in ms : m.seq = n.seq => m = n

\* Where a mutation of ms is no longer in the log, nothing at or below it is.
DroppedBelow(ms) == \A m \in ms, x \in log : m \in log \/ m.seq < x.seq

\* What snapshot and log hold between them.
Recoverable == snap.applied \union After(log, snap.watermark)

\* The files and the stream, at any moment.
FilesAddUp ==
    /\ Numbered(snap.applied, snap.watermark) /\ DroppedBelow(snap.applied)
    /\ idem \subseteq snap.applied /\ snap.applied \subseteq idem \union log
    /\ acked \union stream \subseteq Recoverable
    /\ \A m, n \in stream : m.seq = n.seq => m = n
    /\ 1 .. offsets \subseteq {m.seq : m \in stream}

\* The state in memory, which is ahead of the files' only by the log.
StateAddsUp ==
    /\ Numbered(state.applied, state.watermark) /\ DroppedBelow(state.applied)
    /\ state.compacted <= state.watermark
    /\ state.mutations = After(state.applied, state.compacted)
    /\ state.op_index = state.applied /\ OpsAgree(state.applied)
    /\ snap.applied \subseteq state.applied /\ state.applied \subseteq Recoverable
    /\ state.applied \subseteq idem \union log
    /\ acked \union stream \subseteq state.applied
    /\ \A x \in log : x.seq <= state.watermark + 1

\* How far a commit or a compaction has come.
CommitUnderWay ==
    /\ pc \in {"loaded", "idle"} => cur = None
    /\ pc = "logged" =>
          /\ cur # None /\ cur \in log /\ cur.seq = state.watermark + 1
          /\ KnownOp(cur.op) = {}
    /\ pc = "applied" => cur # None
    /\ pc \in {"applied", "compact", "idem", "logs"} => cur \in state.applied \union {None}
    /\ pc \in {"idem", "logs"} =>
          /\ snap = SnapshotOf(state)
          /\ state.compacted <= cut /\ cut <= state.watermark
          /\ publishing => cut <= published
    /\ pc = "logs" => idem = state.op_index

\* The publisher has sent everything up to last_published, and has in hand what is
\* missing up to the last mutation it sent or holds.
PublisherInStep ==
    /\ published = offsets /\ published <= next
    /\ batch \subseteq After(state.applied, published)
    /\ \A i \in {next} \union {m.seq : m \in batch} :
          1 .. i \subseteq {m.seq : m \in stream \union batch}
    /\ publishing => state.compacted <= published

\* A node without a publisher has nothing to do with the stream, and its log holds
\* only what is applied or about to be.
AloneAddsUp ==
    /\ stream = {} /\ offsets = 0
    /\ doubled = {}
    /\ \A m \in log : m.seq <= snap.watermark => m \in snap.applied
    /\ ~torn => StartsAgain
    /\ pc # "down" =>
          /\ log \subseteq state.applied \union IF pc = "logged" THEN {cur} ELSE {}
          /\ batch = {} /\ next = 0

\* The inductive invariant behind the safety properties.
StorageInv ==
    /\ TypeOK /\ publishing \in Publishing
    /\ FilesAddUp
    /\ pc = "down" => cur = None /\ PublisherIdle
    /\ pc # "down" => StateAddsUp /\ CommitUnderWay /\ PublisherInStep
    /\ ~publishing => AloneAddsUp

-----------------------------------------------------------------------------
(* The files implement a journal.  While the process is down, the journal is *)
(* what load_source_of_truth will make of them.                              *)

Held ==
    LET loaded == load_source_of_truth
    IN  CASE pc # "down" -> [readable |-> TRUE, journal |-> state.applied]
          [] pc = "down" /\ loaded # None -> [readable |-> TRUE, journal |-> loaded.applied]
          [] pc = "down" /\ loaded = None -> [readable |-> FALSE, journal |-> {}]

J == INSTANCE Journal WITH journal <- Held.journal, readable <- Held.readable,
                           told <- acked \union stream

\* What a node has applied, acknowledged or not, is never taken back or replaced by
\* a restart (commit.rs:84): after a crash the files give all of it, with at most the
\* one mutation more that a request left in the log, or they give nothing, and the
\* node does not start.  No operation and no sequence number is in it twice, and
\* clients and relays only hear of what is in it.
ImplementsJournal == J!Spec
=============================================================================
