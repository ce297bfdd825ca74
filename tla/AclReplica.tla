----------------------------- MODULE AclReplica -----------------------------
(***************************************************************************)
(* What a replica of the access-control list promises, whatever it is made *)
(* of: it stands at a position, one sequence number per shard, and holds   *)
(* exactly what the committed mutations up to that position leave, the     *)
(* last one about a key deciding.  It moves on by one mutation of one      *)
(* shard, or jumps to a position at which the source of truth once stood.  *)
(***************************************************************************)
EXTENDS Integers, Sequences

CONSTANT Shards

VARIABLES
    history,    \* per shard, the committed mutations in order
    past,       \* the positions at which the source of truth was archived
    position,   \* per shard, the last mutation the replica contains
    entries,    \* AclKey -> entry, as the replica shows them
    rules       \* RuleKey -> rule

vars == << history, past, position, entries, rules >>

\* The mutations of entries, or of rules, that position p contains.
Contained(h, p, rule) ==
    {m \in UNION {{h[s][i] : i \in 1 .. p[s]} : s \in Shards} : m.rule = rule}

\* The last ones about their subject, the deletions left out.
Surviving(h, p, rule) ==
    {m \in Contained(h, p, rule) :
        /\ m.action # "Delete"
        /\ \A o \in Contained(h, p, rule) : o.subject = m.subject => o.seq <= m.seq}

ViewAt(h, p, rule) ==
    [k \in {m.subject : m \in Surviving(h, p, rule)} |->
        LET m == CHOOSE m \in Surviving(h, p, rule) : m.subject = k
        IN  [action |-> m.action, priority |-> m.priority,
             expires_at |-> m.expires_at, commit_seq |-> m.seq]]

Init ==
    /\ history = [s \in Shards |-> <<>>]
    /\ past = {}
    /\ position = [s \in Shards |-> 0]
    /\ entries = ViewAt(history, position, FALSE)
    /\ rules = ViewAt(history, position, TRUE)

\* The source of truth commits; the replica is where it was.
Grow ==
    /\ \E s \in Shards :
         /\ Len(history'[s]) = Len(history[s]) + 1
         /\ SubSeq(history'[s], 1, Len(history[s])) = history[s]
         /\ \A t \in Shards \ {s} : history'[t] = history[t]
    /\ past \subseteq past'
    /\ UNCHANGED << position, entries, rules >>

\* The replica stands at position p from now on.
MoveTo(p) ==
    /\ position' = p
    /\ entries' = ViewAt(history, p, FALSE)
    /\ rules' = ViewAt(history, p, TRUE)
    /\ UNCHANGED << history, past >>

Advance == \E s \in Shards :
    /\ position[s] < Len(history[s])
    /\ MoveTo([position EXCEPT ![s] = @ + 1])

Jump == \E p \in past : MoveTo(p)

Next == Grow \/ Advance \/ Jump

Spec == Init /\ [][Next]_vars
=============================================================================
