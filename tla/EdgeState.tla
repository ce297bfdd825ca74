----------------------------- MODULE EdgeState -----------------------------
(***************************************************************************)
(* The source of truth's content, its rollback to an archived snapshot     *)
(* (POST /v1/rollback), and an edge's ActiveState: an immutable base with  *)
(* a negative filter, the delta overlay of mutations received since, and   *)
(* the compaction that folds the overlay into a new base.                  *)
(*                                                                         *)
(* The edge may be handed any committed mutation at any time: deliveries   *)
(* are repeated, late and out of order, and apply_mutation sorts them out. *)
(* It may be restarted from the snapshot it last wrote, and repaired from  *)
(* any snapshot the source of truth archived, an older one included.       *)
(***************************************************************************)
EXTENDS AclData

CONSTANTS
    EntryRequests,    \* POST /v1/mutations for a key
    RuleRequests,     \* POST /v1/rules: [raw, action, priority, expires_at, override]
    Queries,          \* the values looked up and checked
    Times,            \* the clock readings at which they are
    HashFirst(_),     \* the two halves of the filter's hash of a key
    HashSecond(_),
    FilterHashes,     \* NEGATIVE_FILTER_HASHES
    BitsPerEntry,     \* NEGATIVE_FILTER_BITS_PER_ENTRY
    WordBits,         \* 64 in the code
    MaxCommits,       \* bound: client mutations committed
    MaxRollbacks      \* bound: rollbacks begun

ASSUME EdgeAssumption ==
    /\ FilterHashes \in Nat \ {0} /\ BitsPerEntry \in Nat /\ WordBits \in Nat \ {0}
    /\ MaxCommits \in Nat /\ MaxRollbacks \in Nat

\* What the parsers make of a request: the fields are what their types say, and
\* the shard of a hash is one of the shards.
ASSUME RequestAssumption ==
    /\ \A r \in EntryRequests \cup RuleRequests :
         r.action \in Actions /\ r.priority \in Nat /\ r.expires_at \in Nat
    /\ \A r \in EntryRequests :
         /\ ShardOf(r.key) \in Shards
         /\ HashFirst(r.key) \in Nat /\ HashSecond(r.key) \in Nat
    /\ \A r \in RuleRequests :
         /\ r.raw.kind \in {"Ipv4Cidr", "DomainSuffix"} /\ r.raw.prefix_len \in Nat
         /\ compile_rule_pattern(r.raw) = Invalid
              \/ ShardOf(compile_rule_pattern(r.raw)) \in Shards

\* What is checked and what a pattern is written with: parse_ipv4_addr gives an address
\* of AddrBits bits or none, and a text split at its dots is a sequence of labels.
ASSUME ParsedAssumption ==
    \A v \in Queries \cup {r.raw : r \in RuleRequests} :
        v.addr \in {NoAddr} \cup 0 .. 2 ^ AddrBits - 1 /\ v.domain \in Seq(STRING)

VARIABLES
    source,      \* SourceOfTruth: entries, rules, watermarks
    history,     \* per shard, SourceOfTruth.mutations
    archive,     \* the snapshots in the archive directory
    rollback,    \* the rollback in progress or just completed
    commits,     \* client commits so far
    rollbacks,   \* rollbacks so far
    edge         \* ActiveState

vars == << source, history, archive, rollback, commits, rollbacks, edge >>

Idle == [stage |-> "idle", target |-> [entries |-> <<>>, rules |-> <<>>]]

-----------------------------------------------------------------------------
(***************************************************************************)
(* The source of truth                                                     *)
(***************************************************************************)

\* SourceOfTruth::snapshot.
SnapshotOf(state) ==
    [watermarks |-> state.watermarks, entries |-> state.entries, rules |-> state.rules]

\* prepare_commit and prepare_rule_commit: the shard is that of the hash, the
\* sequence number the shard's next.
NextMutation(change) ==
    LET s == ShardOf(change.subject)
    IN  [shard_id |-> s, seq |-> source.watermarks[s] + 1, rule |-> change.rule,
         subject |-> change.subject, action |-> change.action,
         priority |-> change.priority, expires_at |-> change.expires_at]

\* apply_committed_mutation with the log, and apply_prepared_mutation's archive.
CommitChange(change) ==
    LET m == NextMutation(change)
    IN  /\ source' = [entries |-> IF m.rule THEN source.entries
                                  ELSE Put(source.entries, m, m.seq),
                      rules   |-> IF m.rule THEN Put(source.rules, m, m.seq)
                                  ELSE source.rules,
                      watermarks |-> [source.watermarks EXCEPT ![m.shard_id] = m.seq]]
        /\ history' = [history EXCEPT ![m.shard_id] = Append(@, m)]
        /\ archive' = archive \cup {SnapshotOf(source')}

\* Gateway and commitd ask the same of a request, by way of any of three fields.
blast_radius_override_enabled(request) == request.override

\* A client's deny, allow or delete of one key.
Commit == \E r \in EntryRequests :
    /\ commits < MaxCommits
    /\ rollback.stage # "running"      \* the rollback holds the state lock
    /\ deny_requires_blast_radius_override(r) => blast_radius_override_enabled(r)
    /\ CommitChange(Change(FALSE, r.key, r.action, r.priority, r.expires_at))
    /\ commits' = commits + 1
    /\ rollback' = Idle
    /\ UNCHANGED << rollbacks, edge >>

\* A client's rule; an invalid pattern is refused by prepare_rule_commit.
CommitRule == \E r \in RuleRequests :
    /\ commits < MaxCommits
    /\ rollback.stage # "running"
    /\ rule_requires_blast_radius_override(r) => blast_radius_override_enabled(r)
    /\ compile_rule_pattern(r.raw) # Invalid
    /\ CommitChange(Change(TRUE, compile_rule_pattern(r.raw), r.action, r.priority,
                           r.expires_at))
    /\ commits' = commits + 1
    /\ rollback' = Idle
    /\ UNCHANGED << rollbacks, edge >>

\* POST /v1/rollback reads the archived snapshot and takes the state lock.
RollbackBegin == \E snapshot \in archive :
    /\ rollback.stage # "running"
    /\ rollbacks < MaxRollbacks
    /\ rollback' = [stage |-> "running",
                    target |-> [entries |-> snapshot.entries, rules |-> snapshot.rules]]
    /\ rollbacks' = rollbacks + 1
    /\ UNCHANGED << source, history, archive, commits, edge >>

\* The next planned mutation is committed through commit_prepared_outcome.
RollbackStep == \E change \in RestoreNext(source, rollback.target) :
    /\ rollback.stage = "running"
    /\ CommitChange(change)
    /\ UNCHANGED << rollback, commits, rollbacks, edge >>

\* No quorum for a mutation: the request fails and keeps what it committed.
RollbackFails ==
    /\ rollback.stage = "running"
    /\ RestoreNext(source, rollback.target) # {}
    /\ rollback' = Idle
    /\ UNCHANGED << source, history, archive, commits, rollbacks, edge >>

\* Nothing is left to commit: the result is archived and the client answered.
RollbackDone ==
    /\ rollback.stage = "running"
    /\ RestoreNext(source, rollback.target) = {}
    /\ rollback' = [rollback EXCEPT !.stage = "done"]
    /\ archive' = archive \cup {SnapshotOf(source)}
    /\ UNCHANGED << source, history, commits, rollbacks, edge >>

-----------------------------------------------------------------------------
(***************************************************************************)
(* The edge's base and its filter                                          *)
(***************************************************************************)

\* words * 64, with words = ceil(max(entries * bits_per_entry, 64) / 64).
FilterBitLen(n) ==
    LET desired == IF n * BitsPerEntry > WordBits THEN n * BitsPerEntry ELSE WordBits
    IN  IF n = 0 THEN 0 ELSE WordBits * ((desired + WordBits - 1) \div WordBits)

\* Slip: the hash is not reduced to the filter's length.
bit_index_unreduced(bit_len, key, i) == HashFirst(key) + i * HashSecond(key) + i * i

bit_index(bit_len, key, i) == (HashFirst(key) + i * HashSecond(key) + i * i) % bit_len

KeyBits(bit_len, key) == {bit_index(bit_len, key, i) : i \in 0 .. FilterHashes - 1}

\* ImmutableBase::from_entries: the entries with a filter sized for them.
ImmutableBase(entries) ==
    LET bit_len == FilterBitLen(Cardinality(DOMAIN entries))
    IN  [entries |-> entries, bit_len |-> bit_len,
         bits |-> UNION {KeyBits(bit_len, k) : k \in DOMAIN entries}]

may_contain(base, key) ==
    base.bit_len # 0 /\ KeyBits(base.bit_len, key) \subseteq base.bits

\* CompiledRules::from_rules keeps every rule but a deletion.
CompiledRules(rules) == [p \in {p \in DOMAIN rules : rules[p].action # "Delete"} |-> rules[p]]

\* CompiledRules::consider_matches: one bucket per prefix length, one per suffix.
BaseMatches(rule_base, q) ==
    LET kind == rule_kind_for_namespace(q.namespace)
    IN  {p \in DOMAIN rule_base :
            \/ /\ kind = "Ipv4Cidr" /\ p.kind = kind
               /\ q.addr # NoAddr
               /\ \E len \in 0 .. AddrBits :
                    p.prefix_len = len /\ p.network = mask_ipv4(q.addr, len)
            \/ /\ kind = "DomainSuffix" /\ p.kind = kind
               /\ p.suffix \in domain_suffix_candidates(canonicalize_domain(q.domain))}

-----------------------------------------------------------------------------
(***************************************************************************)
(* ActiveState                                                             *)
(***************************************************************************)

ActiveState(watermarks, entries, rules) ==
    [base |-> ImmutableBase(entries), delta_adds |-> <<>>, delta_removes |-> {},
     rule_base |-> CompiledRules(rules), delta_rule_adds |-> <<>>,
     delta_rule_removes |-> {}, watermarks |-> watermarks]

\* An entry of the overlay replaces one of the base; a removal masks it.
Materialized(base, adds, removes) ==
    [k \in ((DOMAIN base) \ removes) \cup DOMAIN adds |->
        IF k \in DOMAIN adds THEN adds[k] ELSE base[k]]

materialized_entries(e) == Materialized(e.base.entries, e.delta_adds, e.delta_removes)

\* Slip: a rule of the base is kept although the overlay has a newer one.
materialized_rules_base_wins(e) ==
    Materialized(e.delta_rule_adds,
                 [k \in DOMAIN e.rule_base \ e.delta_rule_removes |-> e.rule_base[k]], {})

materialized_rules(e) == Materialized(e.rule_base, e.delta_rule_adds, e.delta_rule_removes)

\* The size, counted without materializing.
entries_len(e) ==
    Cardinality(DOMAIN e.base.entries)
      - Cardinality({k \in e.delta_removes :
                       k \in DOMAIN e.base.entries /\ k \notin DOMAIN e.delta_adds})
      + Cardinality(DOMAIN e.delta_adds \ DOMAIN e.base.entries)

\* apply_mutation of the mutation that is next on its shard.
apply_mutation(e, m) ==
    LET Removes(r) == IF m.action = "Delete" THEN r \cup {m.subject} ELSE r \ {m.subject}
    IN  [e EXCEPT !.watermarks[m.shard_id] = m.seq,
                  !.delta_adds = IF m.rule THEN @ ELSE Put(@, m, m.seq),
                  !.delta_removes = IF m.rule THEN @ ELSE Removes(@),
                  !.delta_rule_adds = IF m.rule THEN Put(@, m, m.seq) ELSE @,
                  !.delta_rule_removes = IF m.rule THEN Removes(@) ELSE @]

\* ImmutableBase::decision_for_parts: the filter is asked before the entries are
\* searched.
decision_for_parts(base, key, now) ==
    IF may_contain(base, key) /\ key \in DOMAIN base.entries
    THEN decision_for_entry(base.entries[key], now) ELSE Allow

\* consider_delta_rules: the overlay's rules are tried one by one.
DeltaMatches(e, q) == {p \in DOMAIN e.delta_rule_adds : rule_matches_namespace(p, q)}

\* Slip: the base answers before the overlay's removals are looked at.
EdgeLookupBaseFirst(e, key, now) ==
    CASE key \in DOMAIN e.delta_adds -> decision_for_entry(e.delta_adds[key], now)
      [] OTHER -> decision_for_parts(e.base, key, now)

\* lookup: the overlay first, then the base behind its filter.
EdgeLookup(e, key, now) ==
    CASE key \in DOMAIN e.delta_adds -> decision_for_entry(e.delta_adds[key], now)
      [] key \notin DOMAIN e.delta_adds /\ key \in e.delta_removes -> Allow
      [] OTHER -> decision_for_parts(e.base, key, now)

\* Slip: rules the overlay removed still decide.
EdgeCheckUnmasked(e, q, now) ==
    LET point == EdgeLookup(e, q, now)
    IN  IF point.denied THEN point
        ELSE BestRule({e.delta_rule_adds[p] : p \in DeltaMatches(e, q)}
                        \cup {e.rule_base[p] : p \in BaseMatches(e.rule_base, q)}, now)

\* check: a denying entry first, else the best of the overlay's and the base's
\* rules.  Base rules are masked by delta_rule_removes alone.
EdgeCheck(e, q, now) ==
    LET point == EdgeLookup(e, q, now)
        based == BaseMatches(e.rule_base, q) \ e.delta_rule_removes
    IN  IF point.denied THEN point
        ELSE BestRule({e.delta_rule_adds[p] : p \in DeltaMatches(e, q)}
                        \cup {e.rule_base[p] : p \in based}, now)

-----------------------------------------------------------------------------
(***************************************************************************)
(* The edge's steps                                                        *)
(***************************************************************************)

\* A delivery: DuplicateOrOld and Gap leave the state alone.
Receive == \E s \in Shards : \E i \in 1 .. Len(history[s]) :
    /\ i > edge.watermarks[s]
    /\ i = edge.watermarks[s] + 1
    /\ edge' = apply_mutation(edge, history[s][i])
    /\ UNCHANGED << source, history, archive, rollback, commits, rollbacks >>

\* compact_delta_overlay, and a restart from the snapshot the edge wrote: both
\* make a base of what base and overlay show together.
Compact ==
    /\ edge' = ActiveState(edge.watermarks, materialized_entries(edge),
                           materialized_rules(edge))
    /\ edge' # edge
    /\ UNCHANGED << source, history, archive, rollback, commits, rollbacks >>

\* from_snapshot with a snapshot of the source, fetched for repair.
Repair == \E snapshot \in archive :
    /\ edge' = ActiveState(snapshot.watermarks, snapshot.entries, snapshot.rules)
    /\ UNCHANGED << source, history, archive, rollback, commits, rollbacks >>

-----------------------------------------------------------------------------
Init ==
    /\ source = [entries |-> <<>>, rules |-> <<>>, watermarks |-> [s \in Shards |-> 0]]
    /\ history = [s \in Shards |-> <<>>]
    /\ archive = {}
    /\ rollback = Idle
    /\ commits = 0
    /\ rollbacks = 0
    /\ edge = ActiveState([s \in Shards |-> 0], <<>>, <<>>)

Next ==
    \/ Commit \/ CommitRule
    \/ RollbackBegin \/ RollbackStep \/ RollbackFails \/ RollbackDone
    \/ Receive \/ Compact \/ Repair

Spec == Init /\ [][Next]_vars

-----------------------------------------------------------------------------
(***************************************************************************)
(* Properties                                                              *)
(***************************************************************************)

\* The abstract replica this edge implements.
Replica == INSTANCE AclReplica WITH
    past     <- {snapshot.watermarks : snapshot \in archive},
    position <- edge.watermarks,
    entries  <- materialized_entries(edge),
    rules    <- materialized_rules(edge)

\* What the mutations up to the edge's watermarks leave.
EntriesThere == Replica!ViewAt(history, edge.watermarks, FALSE)
RulesThere   == Replica!ViewAt(history, edge.watermarks, TRUE)

\* The rules of the base that the overlay has replaced.
Replaced == DOMAIN edge.delta_rule_adds \cap DOMAIN edge.rule_base

\* The values a request's raw pattern names: the addresses of the block that
\* contains the one written, the domains that end in the labels written.
Names(raw, q) ==
    \/ /\ raw.kind = "Ipv4Cidr" /\ rule_kind_for_namespace(q.namespace) = raw.kind
       /\ q.addr # NoAddr
       /\ \E block \in 0 .. 2 ^ raw.prefix_len - 1 :
            {q.addr, raw.addr} \subseteq
                {block * 2 ^ (AddrBits - raw.prefix_len) + i :
                    i \in 0 .. 2 ^ (AddrBits - raw.prefix_len) - 1}
    \/ /\ raw.kind = "DomainSuffix" /\ rule_kind_for_namespace(q.namespace) = raw.kind
       /\ LET want == canonicalize_domain(raw.domain)
              have == canonicalize_domain(q.domain)
          IN  /\ Len(have) >= Len(want)
              /\ \A i \in 0 .. Len(want) - 1 : have[Len(have) - i] = want[Len(want) - i]

\* The keys and the patterns that entries and rules can have, and what one is.
Keys     == {r.key : r \in EntryRequests}
Patterns == {compile_rule_pattern(r.raw) : r \in RuleRequests} \ {Invalid}
Entries  == [action : Actions \ {"Delete"}, priority : Nat, expires_at : Nat,
             commit_seq : Nat]
Mutations ==
    [shard_id : Shards, seq : Nat, rule : BOOLEAN, subject : Keys \cup Patterns,
     action : Actions, priority : Nat, expires_at : Nat]

IsMap(map, subjects) ==
    /\ map \in [DOMAIN map -> Entries]
    /\ DOMAIN map \subseteq subjects
    /\ IsFiniteSet(DOMAIN map)

\* Position p is one that history h reaches.
Reached(h, p) == p \in [Shards -> Nat] /\ \A s \in Shards : p[s] <= Len(h[s])

\* A shard's mutations are numbered from 1 and are about the shard's subjects.
Numbered(h) ==
    /\ h \in [Shards -> Seq(Mutations)]
    /\ \A s \in Shards : \A i \in 1 .. Len(h[s]) :
         LET m == h[s][i]
         IN  /\ m.seq = i
             /\ m.shard_id = s /\ ShardOf(m.subject) = s
             /\ m.subject \in (IF m.rule THEN Patterns ELSE Keys)

\* Every part of the state has the shape the code gives it: the source is at the end
\* of the stream and the edge at a position in it, the filter's bits lie inside its
\* words (an index outside them would panic), and no key is both added and removed.
TypeOK ==
    /\ Numbered(history)
    /\ \A s \in Shards : source.watermarks[s] = Len(history[s])
    /\ Reached(history, edge.watermarks)
    /\ edge.base.bits \subseteq 0 .. edge.base.bit_len - 1
    /\ edge.base.bit_len % WordBits = 0
    /\ DOMAIN edge.delta_adds \cap edge.delta_removes = {}
    /\ DOMAIN edge.delta_rule_adds \cap edge.delta_rule_removes = {}

\* state is what the mutations up to its watermarks leave.
IsPrefix(state) ==
    /\ state = [entries |-> state.entries, rules |-> state.rules,
                watermarks |-> state.watermarks]
    /\ Reached(history, state.watermarks)
    /\ state.entries = Replica!ViewAt(history, state.watermarks, FALSE)
    /\ state.rules = Replica!ViewAt(history, state.watermarks, TRUE)
    /\ IsMap(state.entries, Keys) /\ IsMap(state.rules, Patterns)

\* The source and its archived snapshots are prefixes of the stream.
SourceInStep ==
    /\ IsPrefix(source)
    /\ \A snapshot \in archive : IsPrefix(snapshot)

\* The source has been archived as it is since its first commit, and a rollback needs
\* an archive; one that is done has left nothing to restore.
RollbackInStep ==
    /\ rollback.stage \in {"idle", "running", "done"}
    /\ \/ SnapshotOf(source) \in archive
       \/ archive = {} /\ rollback.stage = "idle"
    /\ IsMap(rollback.target.entries, Keys) /\ IsMap(rollback.target.rules, Patterns)
    /\ rollback.stage = "done" => RestoreNext(source, rollback.target) = {}

IsActiveState(e) ==
    e = [base |-> e.base, delta_adds |-> e.delta_adds, delta_removes |-> e.delta_removes,
         rule_base |-> e.rule_base, delta_rule_adds |-> e.delta_rule_adds,
         delta_rule_removes |-> e.delta_rule_removes, watermarks |-> e.watermarks]

\* Base and overlay together are a prefix of the stream, and the base carries the
\* filter that was built for it.
EdgeInStep ==
    /\ IsActiveState(edge)
    /\ edge.base = ImmutableBase(edge.base.entries)
    /\ IsMap(edge.base.entries, Keys) /\ IsMap(edge.rule_base, Patterns)
    /\ IsMap(edge.delta_adds, Keys) /\ IsMap(edge.delta_rule_adds, Patterns)
    /\ materialized_entries(edge) = EntriesThere
    /\ materialized_rules(edge) = RulesThere

\* The inductive invariant.
EdgeInv == TypeOK /\ SourceInStep /\ RollbackInStep /\ EdgeInStep

\* The edge implements the abstract replica: whatever is delivered twice, late
\* or out of order, compacted, reloaded or repaired from an older snapshot, base
\* and overlay together are at every moment exactly a prefix of the source's
\* mutations on every shard.
ImplementsReplica == Replica!Spec

\* A lookup at the edge, overlay, filter and base together, gives the decision
\* the source of truth gives after the same mutations: the filter never hides
\* an entry of the base and the overlay never shows one the stream removed;
\* and entries_len counts what there is without building it.
LookupAgrees ==
    LET there == EntriesThere
    IN  /\ \A q \in Queries, now \in Times :
              EdgeLookup(edge, q, now) = LookupIn(there, q, now)
        /\ entries_len(edge) = Cardinality(DOMAIN there)

\* A check at the edge gives the decision of the source of truth after the same
\* mutations, whenever the overlay has replaced no rule of the base.
CheckAgreesUnlessReplaced ==
    LET entries == EntriesThere
        rules   == RulesThere
    IN  Replaced = {} => \A q \in Queries, now \in Times :
            EdgeCheck(edge, q, now) = CheckIn(entries, rules, q, now)

\* A rollback that reports success leaves a source of truth that decides every
\* check as the archived snapshot did, though each of its changes carries a new
\* sequence number; and an edge that has followed the stream to the end,
\* wherever it stood, looks up every key as the snapshot did.
RollbackRestores ==
    rollback.stage = "done" => \A q \in Queries, now \in Times :
        LET was  == CheckIn(rollback.target.entries, rollback.target.rules, q, now)
            is   == CheckIn(source.entries, source.rules, q, now)
            then == LookupIn(rollback.target.entries, q, now)
            here == EdgeLookup(edge, q, now)
        IN  /\ is.denied = was.denied /\ is.priority = was.priority
            /\ edge.watermarks = source.watermarks =>
                 here.denied = then.denied /\ here.priority = then.priority

\* A rule in force covers exactly the addresses or domains its request named,
\* however the pattern was spelt: host bits set, a leading "*.", trailing dots.
RulesCoverWhatTheyName ==
    \A r \in RuleRequests : compile_rule_pattern(r.raw) \in DOMAIN source.rules =>
        \A q \in Queries :
            rule_matches_namespace(compile_rule_pattern(r.raw), q) <=> Names(r.raw, q)
=============================================================================
