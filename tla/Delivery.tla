------------------------------ MODULE Delivery ------------------------------
(***************************************************************************)
(* How the mutations of one shard travel from commitd to an agent: commitd *)
(* nodes that answer reads, the JetStream stream with its durable consumer,*)
(* a relay that caches what it pulls (or, in its http mode, only passes    *)
(* requests on), and the agent's poll loop with its snapshot file and the  *)
(* acknowledgement it leaves at the relay (module Acks goes on from there).*)
(*                                                                         *)
(* A mutation is its sequence number.  Requests of the relay and the agent *)
(* reach commitd through the gateway and are answered by any node, each    *)
(* time another.                                                           *)
(***************************************************************************)
EXTENDS Integers, Sequences, FiniteSets

CONSTANTS
    Nodes,           \* commitd nodes
    Leader,          \* the one that takes writes
    MaxSeq,          \* bound: mutations committed
    MaxFaults        \* bound: failed snapshot writes, crashes of the agent,
                     \* restarts of the relay, failed requests, lost acks and
                     \* clocks set back

ASSUME DeliveryAssumption ==
    /\ Leader \in Nodes
    /\ IsFiniteSet(Nodes)
    /\ MaxSeq \in Nat /\ MaxFaults \in Nat

VARIABLES
    mode,        \* GLOBACL_RELAY_SOURCE: "http" or "jetstream"
    node,        \* per node: seq applied, floor compacted to, seq of snapshot file
    published,   \* the mutations in the stream
    acked,       \* those the relay's durable consumer has acknowledged
    cache,       \* RelayCache: base watermark, watermark, mutations
    pull,        \* the message in the relay's apply_or_repair, its step and the
                 \* node that was asked
    ackTable,    \* the relay's last ack of the agent, 0 when it has none
    agent,       \* pc, state in memory, snapshot file, and the poll under way: the
                 \* node that was asked, where the bundle asked for ends, what
                 \* the answer was, what is to be served
    regressed,   \* whether a repair ever wrote an older snapshot file
    restarted,   \* whether the relay was
    faults

vars == << mode, node, published, acked, cache, pull, ackTable, agent, regressed,
           restarted, faults >>

NoFile == -1
NoBound == -1
Max2(a, b) == IF a > b THEN a ELSE b

-----------------------------------------------------------------------------
(***************************************************************************)
(* commitd                                                                 *)
(***************************************************************************)

\* A mutation is applied and the snapshot file rewritten after it, unless that
\* write fails.
ApplyAt(n) ==
    /\ \/ /\ node' = [node EXCEPT ![n].seq = @ + 1, ![n].snap = node[n].seq + 1]
          /\ UNCHANGED faults
       \/ /\ faults < MaxFaults
          /\ node' = [node EXCEPT ![n].seq = @ + 1]
          /\ faults' = faults + 1
    /\ UNCHANGED << mode, published, acked, cache, pull, ackTable, agent, regressed,
                    restarted >>

LeaderCommits == node[Leader].seq < MaxSeq /\ ApplyAt(Leader)

FollowerApplies(n) == node[n].seq < node[Leader].seq /\ ApplyAt(n)

\* maybe_compact_mutation_logs rewrites the snapshot file and drops the history it
\* holds.  With a publisher it keeps what this node has not yet sent to the stream,
\* and only a leader sends.
Compact == \E n \in Nodes, k \in 1 .. MaxSeq :
    /\ node[n].floor < k /\ k <= node[n].seq
    /\ CASE mode = "http"      -> k = node[n].seq
         [] mode = "jetstream" -> n = Leader /\ 1 .. k \subseteq published
    /\ node' = [node EXCEPT ![n].floor = k, ![n].snap = node[n].seq]
    /\ UNCHANGED << mode, published, acked, cache, pull, ackTable, agent, regressed,
                    restarted, faults >>

\* publish_committed_mutations sends what the leader has in the order of commit
\* times, which is that of the numbers unless a clock was set back.
Publish == \E i \in (1 .. node[Leader].seq) \ published :
    /\ mode = "jetstream"
    /\ \/ 1 .. (i - 1) \subseteq published /\ UNCHANGED faults
       \/ faults < MaxFaults /\ faults' = faults + 1
    /\ published' = published \cup {i}
    /\ UNCHANGED << mode, node, acked, cache, pull, ackTable, agent, regressed, restarted >>

\* The k mutations after a sequence number.
After(from, k) == [i \in 1 .. k |-> from + i]

\* What a filter of the vector s returns that keeps these positions.
Filtered(s, keep) ==
    [j \in 1 .. Cardinality(keep) |->
        s[CHOOSE i \in keep : Cardinality(keep \cap (1 .. i)) = j]]

\* A request for mutations takes the state's lock twice.  First, whether history
\* from there on is compacted away, which is answered 409.
compacted_seq_for_query(n, from) == from < node[n].floor

\* Then what the node has after that, which is less when it compacted in between.
mutations_for_query(n, from) ==
    LET first == Max2(from, node[n].floor)
    IN  After(first, Max2(node[n].seq - first, 0))

\* The same for a bundle, which ends at a given mutation.
delta_bundle_for_query(n, from, to) ==
    LET found == mutations_for_query(n, from)
    IN  Filtered(found, {i \in DOMAIN found : found[i] <= to})

\* Where a state at mem ends after the mutations s, and that no gap comes up
\* among them.
Reached(mem, s) == IF s = <<>> THEN mem ELSE Max2(mem, s[Len(s)])
Gapless(mem, s) ==
    \A i \in 1 .. Len(s) :
        s[i] <= 1 + Max2(mem, IF i = 1 THEN 0 ELSE s[i - 1])

-----------------------------------------------------------------------------
(***************************************************************************)
(* The relay                                                               *)
(***************************************************************************)

RelayCache(watermark) ==
    [base |-> watermark, watermark |-> watermark, mutations |-> <<>>]

\* Slip: a message that is delivered again is cached again.
CachedAgain(c, i) == [c EXCEPT !.watermark = Max2(@, i), !.mutations = Append(@, i)]

\* RelayCache::apply of a mutation that is not a gap; an old one changes nothing.
Cached(c, i) ==
    IF i <= c.watermark THEN c
    ELSE [c EXCEPT !.watermark = i, !.mutations = Append(@, i)]

Pulling(i, step, n) == [msg |-> i, step |-> step, at |-> n]
NoPull == Pulling(0, "idle", Leader)

PullStays == UNCHANGED << mode, node, published, ackTable, agent, regressed, restarted >>

\* Slip: a message is acknowledged although there is a gap before it.
PullAcksAll == \E i \in published \ acked :
    /\ pull.step = "idle"
    /\ cache' = IF i > cache.watermark + 1 THEN cache ELSE Cached(cache, i)
    /\ acked' = acked \cup {i}
    /\ PullStays /\ UNCHANGED << pull, faults >>

\* pull_once: a message that is no gap is applied and acknowledged.
PullAcks == \E i \in published \ acked :
    /\ pull.step = "idle" /\ i <= cache.watermark + 1
    /\ cache' = Cached(cache, i)
    /\ acked' = acked \cup {i}
    /\ PullStays /\ UNCHANGED << pull, faults >>

\* The same when the acknowledgement is lost: the message comes again.
PullUnacked == \E i \in published \ acked :
    /\ faults < MaxFaults
    /\ pull.step = "idle" /\ i <= cache.watermark + 1
    /\ cache' = Cached(cache, i)
    /\ faults' = faults + 1
    /\ PullStays /\ UNCHANGED << acked, pull >>

\* repair_gap asks a node for the bundle from the watermark to the message.  A
\* status other than 200, for compacted history or because the request failed on
\* the way, makes it rebuild the cache.
PullAsks(n) == \E i \in published \ acked :
    /\ pull.step = "idle" /\ i > cache.watermark + 1
    /\ \/ /\ pull' = IF compacted_seq_for_query(n, cache.watermark)
                     THEN Pulling(i, "rebuild", Leader) ELSE Pulling(i, "asked", n)
          /\ UNCHANGED faults
       \/ /\ faults < MaxFaults
          /\ pull' = Pulling(i, "rebuild", Leader)
          /\ faults' = faults + 1
    /\ PullStays /\ UNCHANGED << acked, cache >>

\* The bundle is applied as far as the node has it; one that starts beyond a gap is
\* an error.  After the repair the message is tried again: here, like any other that
\* is not acknowledged, which it also is when there still is a gap.
PullReads ==
    LET bundle == delta_bundle_for_query(pull.at, cache.watermark, pull.msg)
    IN  /\ pull.step = "asked"
        /\ cache' = IF Gapless(cache.watermark, bundle)
                    THEN [cache EXCEPT !.watermark = Reached(@, bundle), !.mutations = @ \o bundle]
                    ELSE cache
        /\ pull' = NoPull
        /\ PullStays /\ UNCHANGED << acked, faults >>

\* rebuild_cache_from_snapshot empties the cache and puts it at the snapshot of a
\* node, which may be another, and older.
PullRebuilds(m) ==
    /\ pull.step = "rebuild"
    /\ cache' = RelayCache(node[m].snap)
    /\ pull' = NoPull
    /\ PullStays /\ UNCHANGED << acked, faults >>

\* bootstrap_cache of a relay started again: at the snapshot of a node, else at
\* its watermark, else at zero.  The table of acks is lost.
RestartRelay == \E n \in Nodes :
    /\ faults < MaxFaults
    /\ \E w \in {node[n].snap, node[n].seq, 0} :
         cache' = IF mode = "http" THEN cache ELSE RelayCache(w)
    /\ pull' = NoPull
    /\ ackTable' = 0
    /\ restarted' = TRUE
    /\ faults' = faults + 1
    /\ UNCHANGED << mode, node, published, acked, agent, regressed >>

\* RelayCache::mutations_for_shard.
mutations_for_shard(from) ==
    LET found == cache.mutations
    IN  Filtered(found, {i \in DOMAIN found : found[i] > from})

\* RelayCache::delta_bundle.
delta_bundle(from, to) ==
    LET found == cache.mutations
    IN  Filtered(found, {i \in DOMAIN found : found[i] > from /\ found[i] <= to})

\* Slip: the cache answers although it does not reach back far enough.
AnsweredFromCacheAlways(from) == mode = "jetstream"

\* The relay answers from its cache, under one lock, where that reaches back far
\* enough; else it passes the request on.
AnsweredFromCache(from) == mode = "jetstream" /\ from >= cache.base

-----------------------------------------------------------------------------
(***************************************************************************)
(* The agent                                                               *)
(***************************************************************************)

AgentStays == UNCHANGED << mode, node, published, acked, cache, pull, ackTable, restarted >>

\* The agent's request: mutations after its own watermark or, once a gap has come
\* up, a bundle of those before it.
CacheAnswer ==
    IF agent.to = NoBound THEN mutations_for_shard(agent.mem) ELSE delta_bundle(agent.mem, agent.to)
NodeAnswer(n) ==
    IF agent.to = NoBound THEN mutations_for_query(n, agent.mem)
    ELSE delta_bundle_for_query(n, agent.mem, agent.to)

\* The agent at another step of the poll.
Polling(pc, n, payload) == [agent EXCEPT !.pc = pc, !.at = n, !.payload = payload]
Idle == [agent EXCEPT !.pc = "idle", !.at = Leader, !.to = NoBound, !.payload = <<>>]
Repairing(pc, to) == [agent EXCEPT !.pc = pc, !.at = Leader, !.to = to, !.payload = <<>>]

\* Slip: history that is compacted away fails the poll like any other error.
AgentAsksOnly200(n) ==
    /\ agent.pc \in {"idle", "gap"}
    /\ IF AnsweredFromCache(agent.mem)
       THEN /\ agent.pc = "gap" \/ CacheAnswer # <<>>
            /\ agent' = Polling("got", Leader, CacheAnswer)
       ELSE /\ agent.pc = "gap" \/ node[n].seq > agent.mem
            /\ ~compacted_seq_for_query(n, agent.mem)
            /\ agent' = Polling("asked", n, <<>>)
    /\ AgentStays /\ UNCHANGED << regressed, faults >>

\* poll_once and repair_gap ask the relay.  (poll_once asks first for the relay's
\* watermark, and saves a request that would return nothing.)  History that is
\* compacted away leads to repair_from_snapshot.
AgentAsks(n) ==
    /\ agent.pc \in {"idle", "gap"}
    /\ IF AnsweredFromCache(agent.mem)
       THEN /\ agent.pc = "gap" \/ CacheAnswer # <<>>
            /\ agent' = Polling("got", Leader, CacheAnswer)
       ELSE /\ agent.pc = "gap" \/ node[n].seq > agent.mem
            /\ agent' = IF compacted_seq_for_query(n, agent.mem) THEN Repairing("repair", NoBound)
                        ELSE Polling("asked", n, <<>>)
    /\ AgentStays /\ UNCHANGED << regressed, faults >>

\* The node that was asked reads its history.
AgentIsAnswered ==
    /\ agent.pc = "asked"
    /\ agent' = Polling("got", Leader, NodeAnswer(agent.at))
    /\ AgentStays /\ UNCHANGED << regressed, faults >>

\* Slip: the file is left as it was.
WriteSnapshotFileNot(next) ==
    /\ agent' = [Idle EXCEPT !.pc = "swap", !.next = next]
    /\ UNCHANGED regressed

\* What is to become the new state is in the snapshot file before it is served.
WriteSnapshotFile(next) ==
    /\ agent' = [Idle EXCEPT !.pc = "swap", !.disk = next, !.next = next]
    /\ regressed' = (regressed \/ next < agent.disk)

\* Slip: the bundle that repair_gap asks for includes the mutation after the gap.
AcceptsInclusive ==
    IF agent.payload # <<>> /\ Gapless(agent.mem, agent.payload)
    THEN WriteSnapshotFile(Reached(agent.mem, agent.payload))
    ELSE /\ agent' = CASE agent.to = NoBound /\ agent.payload = <<>> -> Idle
                      [] agent.to = NoBound /\ agent.payload # <<>> -> Repairing("gap", agent.payload[1])
                      [] agent.to # NoBound /\ agent.payload = <<>> -> Repairing("repair", NoBound)
                      [] agent.to # NoBound /\ agent.payload # <<>> -> Idle
         /\ UNCHANGED regressed

\* An answer that is accepted is applied to the state.  When it starts beyond a gap,
\* poll_once leaves the state as it was and goes on with repair_gap, and repair_gap
\* fails.  A bundle with nothing in it leads to repair_from_snapshot.
Accepts ==
    IF agent.payload # <<>> /\ Gapless(agent.mem, agent.payload)
    THEN WriteSnapshotFile(Reached(agent.mem, agent.payload))
    ELSE /\ agent' = CASE agent.to = NoBound /\ agent.payload = <<>> -> Idle
                      [] agent.to = NoBound /\ agent.payload # <<>> -> Repairing("gap", agent.payload[1] - 1)
                      [] agent.to # NoBound /\ agent.payload = <<>> -> Repairing("repair", NoBound)
                      [] agent.to # NoBound /\ agent.payload # <<>> -> Idle
         /\ UNCHANGED regressed

\* A signature of another answer fails the poll.
Verifies(signed) ==
    IF signed = agent.payload THEN Accepts ELSE agent' = Idle /\ UNCHANGED regressed

\* The signature is asked for on its own, perhaps of another node, and is of what
\* the answer is by then.  None (a status other than 200) is accepted.
AgentVerifies(n) ==
    /\ agent.pc = "got"
    /\ IF AnsweredFromCache(agent.mem) THEN Verifies(CacheAnswer)
       ELSE IF compacted_seq_for_query(n, agent.mem) THEN Accepts
       ELSE Verifies(NodeAnswer(n))
    /\ AgentStays /\ UNCHANGED faults

\* A request without an answer fails the poll.  So does the request for a signature
\* when the node compacts between its check and its read, and signs less.  A status
\* other than 200 is no signature, and to repair_gap it is like compacted history.
AgentRequestFails ==
    /\ faults < MaxFaults
    /\ \/ agent.pc \in {"asked", "got", "gap"} /\ agent' = Idle /\ UNCHANGED regressed
       \/ agent.pc = "got" /\ Accepts
       \/ agent.pc = "gap" /\ agent' = Repairing("repair", NoBound) /\ UNCHANGED regressed
    /\ faults' = faults + 1
    /\ AgentStays

\* repair_from_snapshot takes the snapshot of a node, older or newer.
AgentRepairs(n) ==
    /\ agent.pc = "repair"
    /\ WriteSnapshotFile(node[n].snap)
    /\ AgentStays /\ UNCHANGED faults

\* Manifest, artifact and their signatures, else the snapshot and its own, are
\* requests that different nodes may answer, each of another state: what is then
\* not verified fails the poll.
AgentRepairFails ==
    /\ agent.pc = "repair"
    /\ agent' = Idle
    /\ AgentStays /\ UNCHANGED << regressed, faults >>

\* swap_state, then send_ack, once, and POST /v1/ack at the relay, whose table
\* takes any ack and which forwards it.  When the request fails the agent polls
\* on all the same.
AgentSwaps ==
    /\ agent.pc = "swap"
    /\ agent' = [agent EXCEPT !.pc = "idle", !.mem = agent.next, !.next = 0]
    /\ \/ ackTable' = agent.next /\ UNCHANGED faults
       \/ faults < MaxFaults /\ faults' = faults + 1 /\ UNCHANGED ackTable
    /\ UNCHANGED << mode, node, published, acked, cache, pull, regressed, restarted >>

AgentCrashes ==
    /\ agent.pc # "down"
    /\ faults < MaxFaults
    /\ agent' = [Idle EXCEPT !.pc = "down", !.mem = 0, !.next = 0]
    /\ faults' = faults + 1
    /\ AgentStays /\ UNCHANGED regressed

\* build_app: the local snapshot file where there is one, else the relay's; no
\* ack is sent for it.
AgentStarts(n) ==
    LET seq == IF agent.disk = NoFile THEN node[n].snap ELSE agent.disk
    IN  /\ agent.pc = "down"
        /\ agent' = [agent EXCEPT !.pc = "idle", !.mem = seq, !.disk = seq]
        /\ AgentStays /\ UNCHANGED << regressed, faults >>

-----------------------------------------------------------------------------
Init ==
    /\ mode \in {"http", "jetstream"}
    /\ node = [n \in Nodes |-> [seq |-> 0, floor |-> 0, snap |-> 0]]
    /\ published = {}
    /\ acked = {}
    /\ cache = RelayCache(0)
    /\ pull = NoPull
    /\ ackTable = 0
    /\ agent = [pc |-> "down", mem |-> 0, disk |-> NoFile, at |-> Leader, to |-> NoBound,
                payload |-> <<>>, next |-> 0]
    /\ regressed = FALSE
    /\ restarted = FALSE
    /\ faults = 0

PullNext ==
    \/ PullAcks \/ PullUnacked \/ PullReads
    \/ \E n \in Nodes : PullAsks(n) \/ PullRebuilds(n)

AgentNext ==
    \/ \E n \in Nodes : AgentAsks(n) \/ AgentVerifies(n) \/ AgentRepairs(n) \/ AgentStarts(n)
    \/ AgentIsAnswered \/ AgentRepairFails \/ AgentSwaps

Next ==
    \/ LeaderCommits \/ Compact \/ Publish
    \/ \E n \in Nodes \ {Leader} : FollowerApplies(n)
    \/ PullNext \/ RestartRelay
    \/ AgentNext \/ AgentRequestFails \/ AgentCrashes

\* The loops of the processes go on: followers catch up, the publisher sends, the
\* relay pulls and the agent polls.  A message is delivered until it is acknowledged,
\* and what is tried again and again does not always fail or reach the same node.
Fairness ==
    /\ \A n \in Nodes \ {Leader} : WF_vars(FollowerApplies(n))
    /\ WF_vars(Publish) /\ WF_vars(PullNext) /\ WF_vars(AgentNext)
    /\ SF_vars(PullAcks)
    /\ SF_vars(PullRebuilds(Leader))
    /\ \A n \in Nodes : SF_vars(AgentRepairs(n))

Spec == Init /\ [][Next]_vars /\ Fairness

-----------------------------------------------------------------------------
(***************************************************************************)
(* Properties                                                              *)
(***************************************************************************)

Caught == agent.pc # "down" /\ agent.mem = node[Leader].seq

\* Nothing is ahead of the source: files, caches and watermarks are at sequence
\* numbers the leader has, history is compacted only below a snapshot file, and
\* the relay's cache is what its two watermarks say.
TypeOK ==
    /\ \A n \in Nodes :
         /\ node[n].floor <= node[n].snap /\ node[n].snap <= node[n].seq
         /\ node[n].seq <= node[Leader].seq
    /\ acked \subseteq published
    /\ published \subseteq 1 .. node[Leader].seq
    /\ cache.watermark <= node[Leader].seq
    /\ cache.mutations = After(cache.base, cache.watermark - cache.base)
    /\ agent.mem \in 0 .. node[Leader].seq
    /\ agent.disk \in {NoFile} \cup 0 .. node[Leader].seq
    /\ agent.pc \in {"down", "idle", "asked", "got", "gap", "repair", "swap"}

\* The mutations s are a stretch of the leader's history without a hole, which goes
\* on after a number or else after one up to which a node has compacted.
Continues(from, s) ==
    \E first \in from .. node[Leader].seq :
        /\ s = After(first, Len(s))
        /\ first + Len(s) <= node[Leader].seq
        /\ first > from => \E n \in Nodes : first <= node[n].floor

\* An answer the agent holds goes on where its own state ends, or else a node has
\* compacted everything in between, so that its snapshot file holds what the agent
\* misses: neither the relay's cache nor a node that lags withholds a mutation that
\* it could give.
AnswersContinue == agent.pc = "got" => Continues(agent.mem, agent.payload)

\* A relay that has run since it started is never stranded: as long as the
\* stream holds a mutation that its cache does not, some message beyond the
\* cache is still to be acknowledged, and will bring the repair with it.
NeverStranded ==
    (~restarted /\ \E i \in published : i > cache.watermark) =>
        \E j \in published \ acked : j > cache.watermark

\* The relay's ack claims no more than the agent would start from after a crash,
\* unless a repair took the agent back.
AckedIsDurable == ~regressed => ackTable <= Max2(agent.disk, 0)

\* The states of the agent.
AgentStates ==
    [pc : {"down", "idle", "asked", "got", "gap", "repair", "swap"},
     mem : Nat, disk : Nat \cup {NoFile}, at : Nodes, to : Nat \cup {NoBound},
     payload : Seq(Nat), next : Nat]

\* The shapes of the state.
Shapes ==
    /\ mode \in {"http", "jetstream"}
    /\ node \in [Nodes -> [seq : Nat, floor : Nat, snap : Nat]]
    /\ cache \in [base : Nat, watermark : Nat, mutations : Seq(Nat)]
    /\ cache.base <= cache.watermark
    /\ pull \in [msg : Nat, step : {"idle", "asked", "rebuild"}, at : Nodes]
    /\ ackTable \in Nat
    /\ regressed \in BOOLEAN /\ restarted \in BOOLEAN
    /\ agent \in AgentStates

\* What the agent holds between two steps of a poll: an answer that continues, the
\* end of a gap that a node has compacted away, or a state that is in the file.
PollUnderWay ==
    /\ AnswersContinue
    /\ agent.pc = "gap" => agent.to > agent.mem /\ \E n \in Nodes : agent.to <= node[n].floor
    /\ agent.pc = "swap" => agent.disk = agent.next /\ agent.next <= node[Leader].seq

\* The message the relay is repairing a gap for is beyond the cache and not
\* acknowledged.
PullUnderWay ==
    pull.step # "idle" => pull.msg \in published \ acked /\ pull.msg > cache.watermark + 1

\* The cache falls behind a message the relay has acknowledged only when a later
\* one made it start again from an older snapshot, and that one is unacknowledged.
BehindIsOwed ==
    ~restarted => \A i \in acked : i > cache.watermark => \E j \in published \ acked : j > i

\* The inductive invariant behind the safety properties.
DeliveryInv ==
    /\ Shapes /\ TypeOK /\ PollUnderWay /\ PullUnderWay /\ BehindIsOwed /\ AckedIsDurable

\* The agent ends up with every mutation, whatever was lost, repeated, compacted
\* away or repaired from a node that lags, unless a JetStream relay was restarted.
AgentCatchesUp == <>[]Caught \/ <>(restarted /\ mode = "jetstream")
=============================================================================
