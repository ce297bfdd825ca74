---------------------------- MODULE MCEdgeState ----------------------------
(***************************************************************************)
(* EdgeState on addresses of two bits, three values and two shards.  The   *)
(* requests spell the same network in two ways, hold a pattern that is too *)
(* long and two that need an override, and deny, allow and delete the same *)
(* keys.                                                                   *)
(***************************************************************************)
EXTENDS EdgeState

IpValue(a)     == [namespace |-> "ip", addr |-> a, domain |-> <<"ip">>]
HostValue(d)   == [namespace |-> "host", addr |-> NoAddr, domain |-> d]
OtherValue     == [namespace |-> "user", addr |-> NoAddr, domain |-> <<"all">>]

Cidr(a, len)   == [kind |-> "Ipv4Cidr", addr |-> a, prefix_len |-> len, domain |-> <<>>]
Suffix(d)      == [kind |-> "DomainSuffix", addr |-> NoAddr, prefix_len |-> 0, domain |-> d]

Point(key, action, priority, expires_at) ==
    [key |-> key, action |-> action, priority |-> priority, expires_at |-> expires_at,
     override |-> FALSE]
Rule(raw, action, priority, expires_at) ==
    [raw |-> raw, action |-> action, priority |-> priority, expires_at |-> expires_at,
     override |-> FALSE]

MCQueries == {IpValue(1), IpValue(2), IpValue(3),
              HostValue(<<"a", "b">>), HostValue(<<"x", "a", "b", "">>)}
MCTimes == {0, 1}

MCEntryRequests == {
    Point(IpValue(2), "Deny", 1, 0), Point(IpValue(2), "Delete", 1, 0),
    Point(IpValue(3), "AllowOverride", 2, 0),
    Point(HostValue(<<"a", "b">>), "Deny", 1, 1),
    Point(OtherValue, "Deny", 1, 0)}

MCRuleRequests == {
    Rule(Cidr(3, 1), "Deny", 1, 0), Rule(Cidr(2, 1), "AllowOverride", 0, 0),
    Rule(Cidr(2, 1), "Delete", 0, 0), Rule(Cidr(2, 2), "AllowOverride", 2, 1),
    Rule(Suffix(<<"*", "a", "b", "">>), "Deny", 1, 0),
    Rule(Suffix(<<"a", "", "b">>), "AllowOverride", 1, 0),
    Rule(Cidr(0, 3), "AllowOverride", 1, 0), Rule(Cidr(1, 0), "Deny", 1, 0)}

MCShardOf(subject) ==
    IF "kind" \in DOMAIN subject THEN IF subject.kind = "Ipv4Cidr" THEN 1 ELSE 0
    ELSE IF subject.namespace = "ip" THEN 0 ELSE 1

MCHashFirst(key)  == 5 * Len(key.domain) + 3 * key.addr + 4
MCHashSecond(key) == 2 * key.addr + 3
=============================================================================
