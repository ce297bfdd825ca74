------------------------------ MODULE AclData ------------------------------
(***************************************************************************)
(* The data of the access-control list and the pure functions on it that   *)
(* the source of truth and the edge share: how a rule pattern is compiled  *)
(* and matched (globacl-core rules.rs), which of several matching rules    *)
(* decides (RuleMatch in active_state.rs), which requests need a           *)
(* blast-radius override, and which changes a rollback makes               *)
(* (SourceOfTruth::restore_snapshot).                                      *)
(*                                                                         *)
(* A raw value, the text a client checks, is what the parsers make of it:  *)
(* addr is the address, or NoAddr when the text is no IPv4 address, and    *)
(* domain the labels between its dots.  AclKey is the namespace with the   *)
(* raw value: the key hash is taken to be injective and there is one       *)
(* tenant.  A RuleKey is the compiled pattern itself, for the same reason. *)
(***************************************************************************)
EXTENDS Integers, Sequences, FiniteSets

CONSTANTS
    AddrBits,      \* the width of an address, 32 in the code
    Shards,        \* the shard numbers 0 .. shard_count - 1
    ShardOf(_)     \* shard_for_hash of an AclKey's or a RuleKey's hash

ASSUME AddrBitsAssumption == AddrBits \in Nat \ {0}

NoAddr == -1
Actions == {"Deny", "AllowOverride", "Delete"}
Invalid == [kind |-> "invalid", network |-> 0, prefix_len |-> 0, suffix |-> <<>>]

-----------------------------------------------------------------------------
(***************************************************************************)
(* Patterns                                                                *)
(***************************************************************************)

\* Slip: the mask is one bit short, so hosts of the neighbour network match.
mask_ipv4_off_by_one(value, prefix_len) ==
    IF prefix_len = 0 THEN 0
    ELSE LET unit == 2 ^ (AddrBits - prefix_len + 1)
         IN  (value \div unit) * unit

\* value & (!0 << (32 - prefix_len)); a shift by 32 would overflow.
mask_ipv4(value, prefix_len) ==
    IF prefix_len = 0 THEN 0
    ELSE LET unit == 2 ^ (AddrBits - prefix_len)
         IN  (value \div unit) * unit

\* The text without its trailing dots.
TrimEndDots(labels) ==
    LET named == {i \in 1 .. Len(labels) : labels[i] # ""}
        last  == IF named = {} THEN 0
                 ELSE CHOOSE i \in named : \A j \in named : j <= i
    IN  SubSeq(labels, 1, last)

\* The labels of a domain without a leading "*."; <<>> is the parse error.
canonicalize_domain(labels) ==
    LET trimmed  == TrimEndDots(labels)
        stripped == IF Len(trimmed) > 1 /\ trimmed[1] = "*"
                    THEN Tail(trimmed) ELSE trimmed
    IN  IF \E i \in 1 .. Len(stripped) : stripped[i] = "" THEN <<>> ELSE stripped

domain_suffix_candidates(domain) ==
    {SubSeq(domain, i, Len(domain)) : i \in 1 .. Len(domain)}

\* The rule kind whose rules a namespace is checked against.
rule_kind_for_namespace(namespace) ==
    CASE namespace \in {"ip", "ipv4", "ipv4_cidr"}            -> "Ipv4Cidr"
      [] namespace \in {"domain", "host", "hostname", "dns"}  -> "DomainSuffix"
      [] OTHER                                                -> "none"

\* A raw pattern, [kind, addr, prefix_len, domain], in its canonical form.
compile_rule_pattern(raw) ==
    CASE raw.kind = "Ipv4Cidr" ->
           IF raw.prefix_len > AddrBits \/ raw.addr = NoAddr THEN Invalid
           ELSE [kind |-> "Ipv4Cidr", prefix_len |-> raw.prefix_len, suffix |-> <<>>,
                 network |-> mask_ipv4(raw.addr, raw.prefix_len)]
      [] raw.kind = "DomainSuffix" ->
           LET suffix == canonicalize_domain(raw.domain)
           IN  IF suffix = <<>> THEN Invalid
               ELSE [kind |-> "DomainSuffix", network |-> 0, prefix_len |-> 0,
                     suffix |-> suffix]

\* Whether the rule of pattern p applies to the value q of a namespace.
rule_matches_namespace(p, q) ==
    /\ rule_kind_for_namespace(q.namespace) = p.kind
    /\ \/ /\ p.kind = "Ipv4Cidr"
          /\ q.addr # NoAddr
          /\ mask_ipv4(q.addr, p.prefix_len) = p.network
       \/ /\ p.kind = "DomainSuffix"
          /\ p.suffix \in domain_suffix_candidates(canonicalize_domain(q.domain))

-----------------------------------------------------------------------------
(***************************************************************************)
(* Decisions                                                               *)
(***************************************************************************)

Allow == [denied |-> FALSE, priority |-> 0, seq |-> 0]
DenyBy(entry) ==
    [denied |-> TRUE, priority |-> entry.priority, seq |-> entry.commit_seq]

is_expired(entry, now) == entry.expires_at # 0 /\ entry.expires_at <= now

decision_for_entry(entry, now) ==
    IF is_expired(entry, now) \/ entry.action # "Deny" THEN Allow ELSE DenyBy(entry)

action_rank(action) ==
    CASE action = "Deny" -> 2 [] action = "AllowOverride" -> 1 [] action = "Delete" -> 0

\* compare_rules_for_match(l, r) = Less: l is taken before r.
Outranks(l, r) ==
    \/ l.priority > r.priority
    \/ /\ l.priority = r.priority
       /\ \/ action_rank(l.action) > action_rank(r.action)
          \/ /\ action_rank(l.action) = action_rank(r.action)
             /\ l.commit_seq > r.commit_seq

\* RuleMatch: every rule considered once, then into_decision.  Rules that tie
\* in all three comparisons give the same answer here.
BestRule(rules, now) ==
    LET live == {r \in rules : ~is_expired(r, now)}
    IN  IF live = {} THEN Allow
        ELSE LET best == CHOOSE r \in live : \A o \in live : ~Outranks(o, r)
             IN  IF best.action = "Deny" THEN DenyBy(best) ELSE Allow

\* SourceOfTruth::lookup and check: the maps scanned as they are.
LookupIn(entries, key, now) ==
    IF key \in DOMAIN entries THEN decision_for_entry(entries[key], now) ELSE Allow

CheckIn(entries, rules, q, now) ==
    LET point == LookupIn(entries, q, now)
    IN  IF point.denied THEN point
        ELSE BestRule({rules[p] : p \in {p \in DOMAIN rules :
                                           rule_matches_namespace(p, q)}}, now)

-----------------------------------------------------------------------------
(***************************************************************************)
(* Requests                                                                *)
(***************************************************************************)

WildNamespaces == {"*", "all", "global", "tenant"}
WildKeys       == {<<"*">>, <<"all">>}

deny_requires_blast_radius_override(request) ==
    /\ request.action = "Deny"
    /\ \/ request.key.namespace \in WildNamespaces
       \/ request.key.domain \in WildKeys

rule_requires_blast_radius_override(request) ==
    LET p == compile_rule_pattern(request.raw)
    IN  /\ request.action = "Deny"
        /\ \/ p = Invalid
           \/ p.kind = "Ipv4Cidr" /\ p.prefix_len = 0
           \/ p.kind = "DomainSuffix" /\ Len(p.suffix) < 2

-----------------------------------------------------------------------------
(***************************************************************************)
(* Mutations                                                               *)
(***************************************************************************)

\* One change: subject is the AclKey or, when rule is TRUE, the RuleKey.
Change(rule, subject, action, priority, expires_at) ==
    [rule |-> rule, subject |-> subject, action |-> action,
     priority |-> priority, expires_at |-> expires_at]

\* The entry or rule a change leaves, committed under sequence number seq.
EntryOf(change, seq) ==
    [action |-> change.action, priority |-> change.priority,
     expires_at |-> change.expires_at, commit_seq |-> seq]

Without(map, key) == [k \in DOMAIN map \ {key} |-> map[k]]
With(map, key, value) ==
    [k \in DOMAIN map \cup {key} |-> IF k = key THEN value ELSE map[k]]

\* SourceOfTruth::apply_committed_mutation on the map the change is for.
Put(map, change, seq) ==
    IF change.action = "Delete" THEN Without(map, change.subject)
    ELSE With(map, change.subject, EntryOf(change, seq))

\* entry_semantically_equal and rule_semantically_equal: all but the commit.
SemanticallyEqual(l, r) ==
    /\ l.action = r.action
    /\ l.priority = r.priority
    /\ l.expires_at = r.expires_at

\* Slip: what the snapshot does not hold is left in place.
RestoreDeletesNone(rule, current, target) == {}

\* The changes restore_snapshot makes to a map: first it deletes what the
\* target lacks, then it writes what the target has otherwise.
RestoreDeletes(rule, current, target) ==
    {Change(rule, k, "Delete", current[k].priority, 0) :
        k \in DOMAIN current \ DOMAIN target}

RestoreWrites(rule, current, target) ==
    {Change(rule, k, target[k].action, target[k].priority, target[k].expires_at) :
        k \in {k \in DOMAIN target :
                 IF k \in DOMAIN current
                 THEN ~SemanticallyEqual(current[k], target[k]) ELSE TRUE}}

\* What is left to do, and what is next: the four loops in the code's order,
\* the order inside a loop being that of the hashes.
RestorePhases(state, target) ==
    << RestoreDeletes(FALSE, state.entries, target.entries),
       RestoreWrites(FALSE, state.entries, target.entries),
       RestoreDeletes(TRUE, state.rules, target.rules),
       RestoreWrites(TRUE, state.rules, target.rules) >>

RestoreNext(state, target) ==
    LET phases == RestorePhases(state, target)
    IN  UNION {phases[i] : i \in {i \in 1 .. 4 : \A j \in 1 .. (i - 1) : phases[j] = {}}}
=============================================================================
