--------------------------- MODULE EdgeStateProofs ---------------------------
(***************************************************************************)
(* Theorems about the source of truth's content and the edge's state.      *)
(* EdgeInv is inductive: source, archived snapshots and edge are at every  *)
(* moment what a prefix of the mutation stream leaves.  From it follow     *)
(* that the edge implements the abstract replica, that its lookup and      *)
(* check decide as the source of truth does, that a rollback restores what *)
(* the snapshot decided, and that a rule covers what its request named.    *)
(***************************************************************************)
EXTENDS EdgeState, FiniteSetTheorems, SequenceTheorems, WellFoundedInduction, TLAPS

(***************************************************************************)
(* Maps                                                                    *)
(***************************************************************************)

\* f is a function, and nothing more.
IsFunction(f) == f = [k \in DOMAIN f |-> f[k]]

\* Two maps are the same when they show the same keys and the same for each.
LEMMA SameMap ==
  ASSUME NEW f, NEW g, IsFunction(f), IsFunction(g),
         DOMAIN f = DOMAIN g, \A k \in DOMAIN f : f[k] = g[k]
  PROVE  f = g
  BY DEF IsFunction

\* A mutation in the overlay shows like the mutation applied to what base and
\* overlay showed: apply_mutation keeps additions and removals apart.
LEMMA OverlayPut ==
  ASSUME NEW base, NEW adds, NEW removes, NEW c, NEW seq, NEW there,
         there = IF c.action = "Delete" THEN removes \cup {c.subject}
                 ELSE removes \ {c.subject}
  PROVE  Materialized(base, Put(adds, c, seq), there)
           = Put(Materialized(base, adds, removes), c, seq)
<1>1. PICK more : more = Put(adds, c, seq)
  OBVIOUS
<1>2. PICK map : map = Materialized(base, adds, removes)
  OBVIOUS
<1>3. PICK left : left = Materialized(base, more, there)
  OBVIOUS
<1>4. PICK right : right = Put(map, c, seq)
  OBVIOUS
<1>5. /\ DOMAIN more = IF c.action = "Delete" THEN DOMAIN adds \ {c.subject}
                       ELSE DOMAIN adds \cup {c.subject}
      /\ \A k \in DOMAIN more : more[k] = IF k = c.subject THEN EntryOf(c, seq) ELSE adds[k]
  BY <1>1 DEF Put, With, Without, IsFunction
<1>6. /\ DOMAIN map = (DOMAIN base \ removes) \cup DOMAIN adds
      /\ \A k \in DOMAIN map : map[k] = IF k \in DOMAIN adds THEN adds[k] ELSE base[k]
  BY <1>2 DEF Materialized, IsFunction
<1>7. /\ DOMAIN left = (DOMAIN base \ there) \cup DOMAIN more
      /\ \A k \in DOMAIN left : left[k] = IF k \in DOMAIN more THEN more[k] ELSE base[k]
      /\ IsFunction(left)
  BY <1>3 DEF Materialized, IsFunction
<1>8. /\ DOMAIN right = IF c.action = "Delete" THEN DOMAIN map \ {c.subject}
                        ELSE DOMAIN map \cup {c.subject}
      /\ \A k \in DOMAIN right : right[k] = IF k = c.subject THEN EntryOf(c, seq) ELSE map[k]
      /\ IsFunction(right)
  BY <1>4 DEF Put, With, Without, IsFunction
<1>9. DOMAIN left = DOMAIN right
  BY <1>5, <1>6, <1>7, <1>8
<1>10. ASSUME NEW k \in DOMAIN left PROVE left[k] = right[k]
  BY <1>5, <1>6, <1>7, <1>8, <1>9
<1>11. left = right
  BY <1>7, <1>8, <1>9, <1>10, SameMap
<1> QED BY <1>1, <1>2, <1>3, <1>4, <1>11

\* Without an overlay the base shows as it is.
LEMMA BareBase ==
  ASSUME NEW map, IsFunction(map)
  PROVE  Materialized(map, <<>>, {}) = map
<1>1. DOMAIN <<>> = {}
  OBVIOUS
<1> QED BY <1>1 DEF Materialized, IsFunction

\* A map with one change more is one of the same kind.
LEMMA PutIsMap ==
  ASSUME NEW map, NEW subjects, IsMap(map, subjects), NEW c, NEW seq \in Nat,
         c.subject \in subjects, c.action \in Actions, c.priority \in Nat, c.expires_at \in Nat
  PROVE  IsMap(Put(map, c, seq), subjects)
<1>1. PICK new : new = Put(map, c, seq)
  OBVIOUS
<1>2. /\ DOMAIN new = IF c.action = "Delete" THEN DOMAIN map \ {c.subject}
                      ELSE DOMAIN map \cup {c.subject}
      /\ \A k \in DOMAIN new : new[k] = IF k = c.subject THEN EntryOf(c, seq) ELSE map[k]
      /\ IsFunction(new)
  BY <1>1 DEF Put, With, Without, IsFunction
<1>3. DOMAIN map \subseteq subjects /\ IsFiniteSet(DOMAIN map)
      /\ \A k \in DOMAIN map : map[k] \in Entries
  BY DEF IsMap
<1>4. DOMAIN new \subseteq subjects
  BY <1>2, <1>3
<1>5. IsFiniteSet(DOMAIN new)
  <2>1. PICK d : d = DOMAIN map
    OBVIOUS
  <2>2. IsFiniteSet(d \cup {c.subject}) /\ IsFiniteSet(d \ {c.subject})
    BY <1>3, <2>1, FS_AddElement, FS_RemoveElement
  <2> QED BY <1>2, <2>1, <2>2
<1>6. ASSUME NEW k \in DOMAIN new PROVE new[k] \in Entries
  <2>1. CASE k = c.subject
    <3>1. c.action # "Delete" /\ new[k] = EntryOf(c, seq)
      BY <1>2, <2>1
    <3> QED BY <3>1 DEF EntryOf, Entries
  <2>2. CASE k # c.subject
    BY <1>2, <1>3, <2>2
  <2> QED BY <2>1, <2>2
<1>7. new \in [DOMAIN new -> Entries]
  BY <1>2, <1>6 DEF IsFunction
<1> QED BY <1>1, <1>4, <1>5, <1>7 DEF IsMap

\* What base and overlay show is such a map when both are.
LEMMA MaterializedIsMap ==
  ASSUME NEW base, NEW adds, NEW removes, NEW subjects,
         IsMap(base, subjects), IsMap(adds, subjects)
  PROVE  IsMap(Materialized(base, adds, removes), subjects)
<1>1. PICK map : map = Materialized(base, adds, removes)
  OBVIOUS
<1>2. /\ DOMAIN map = (DOMAIN base \ removes) \cup DOMAIN adds
      /\ \A k \in DOMAIN map : map[k] = IF k \in DOMAIN adds THEN adds[k] ELSE base[k]
      /\ IsFunction(map)
  BY <1>1 DEF Materialized, IsFunction
<1>3. /\ DOMAIN base \subseteq subjects /\ IsFiniteSet(DOMAIN base)
      /\ \A k \in DOMAIN base : base[k] \in Entries
      /\ DOMAIN adds \subseteq subjects /\ IsFiniteSet(DOMAIN adds)
      /\ \A k \in DOMAIN adds : adds[k] \in Entries
  BY DEF IsMap
<1>4. IsFiniteSet(DOMAIN map)
  <2>1. PICK b, a : b = DOMAIN base \ removes /\ a = DOMAIN adds
    OBVIOUS
  <2>2. IsFiniteSet(b)
    BY <1>3, <2>1, FS_Subset
  <2>3. IsFiniteSet(b \cup a)
    BY <1>3, <2>1, <2>2, FS_Union
  <2> QED BY <1>2, <2>1, <2>3
<1>5. map \in [DOMAIN map -> Entries]
  BY <1>2, <1>3 DEF IsFunction
<1> QED BY <1>1, <1>2, <1>3, <1>4, <1>5 DEF IsMap

\* The map of an empty source.
LEMMA EmptyIsMap == ASSUME NEW subjects PROVE IsMap(<<>>, subjects)
<1>1. DOMAIN <<>> = {}
  OBVIOUS
<1>2. <<>> \in [{} -> Entries]
  OBVIOUS
<1> QED BY <1>1, <1>2, FS_EmptySet DEF IsMap

(***************************************************************************)
(* Prefixes of the stream                                                  *)
(***************************************************************************)

\* The mutations of one kind that a position contains.
LEMMA ContainedMeans ==
  ASSUME NEW h, NEW p, NEW rule
  PROVE  \A m : m \in Replica!Contained(h, p, rule) <=>
                  /\ m.rule = rule
                  /\ \E s \in Shards : \E i \in 1 .. p[s] : m = h[s][i]
  BY DEF Replica!Contained

\* They are mutations, and a subject and a number name one: a subject has one shard.
LEMMA ContainedNumbered ==
  ASSUME NEW h, Numbered(h), NEW p, Reached(h, p), NEW rule
  PROVE  /\ \A m \in Replica!Contained(h, p, rule) :
              /\ m \in Mutations
              /\ m.seq \in 1 .. p[ShardOf(m.subject)]
              /\ ShardOf(m.subject) \in Shards
              /\ m = h[ShardOf(m.subject)][m.seq]
              /\ m.subject \in (IF rule THEN Patterns ELSE Keys)
         /\ \A m, o \in Replica!Contained(h, p, rule) :
              m.subject = o.subject /\ m.seq = o.seq => m = o
<1>1. ASSUME NEW m \in Replica!Contained(h, p, rule)
      PROVE  /\ m \in Mutations
             /\ m.seq \in 1 .. p[ShardOf(m.subject)]
             /\ ShardOf(m.subject) \in Shards
             /\ m = h[ShardOf(m.subject)][m.seq]
             /\ m.subject \in (IF rule THEN Patterns ELSE Keys)
  <2>1. m.rule = rule
    BY ContainedMeans
  <2>2. PICK s \in Shards : \E i \in 1 .. p[s] : m = h[s][i]
    BY ContainedMeans
  <2>3. PICK i \in 1 .. p[s] : m = h[s][i]
    BY <2>2
  <2>4. h[s] \in Seq(Mutations) /\ p[s] \in Nat /\ p[s] <= Len(h[s])
    BY DEF Numbered, Reached
  <2>5. i \in 1 .. Len(h[s])
    BY <2>4
  <2>6. m \in Mutations
    BY <2>3, <2>4, <2>5
  <2>7. m.seq = i /\ ShardOf(m.subject) = s /\ m.subject \in (IF m.rule THEN Patterns ELSE Keys)
    BY <2>3, <2>5 DEF Numbered
  <2> QED BY <2>1, <2>3, <2>6, <2>7
<1> QED BY <1>1

\* The entries that survive in a set of mutations, last ones about their subject.
Last(C) == {m \in C : m.action # "Delete" /\ \A o \in C : o.subject = m.subject => o.seq <= m.seq}
Subjects(C) == {m.subject : m \in Last(C)}

\* What a prefix shows: one entry for each mutation that survives.
LEMMA ViewMeans ==
  ASSUME NEW h, Numbered(h), NEW p, Reached(h, p), NEW rule
  PROVE  /\ DOMAIN Replica!ViewAt(h, p, rule) =
              Subjects(Replica!Contained(h, p, rule))
         /\ \A m \in Last(Replica!Contained(h, p, rule)) :
              Replica!ViewAt(h, p, rule)[m.subject] = EntryOf(m, m.seq)
         /\ IsFunction(Replica!ViewAt(h, p, rule))
<1>1. PICK view : view = Replica!ViewAt(h, p, rule)
  OBVIOUS
<1>2. PICK C : C = Replica!Contained(h, p, rule)
  OBVIOUS
<1>3. Last(C) = Replica!Surviving(h, p, rule)
  BY <1>2 DEF Last, Replica!Surviving
<1>4. DOMAIN view = Subjects(C) /\ IsFunction(view)
  BY <1>1, <1>3 DEF Subjects, Replica!ViewAt, IsFunction
<1>5. ASSUME NEW m \in Last(C) PROVE view[m.subject] = EntryOf(m, m.seq)
  <2>1. PICK c : c = CHOOSE x \in Last(C) : x.subject = m.subject
    OBVIOUS
  <2>2. c \in Last(C) /\ c.subject = m.subject
    BY <2>1
  <2>3. c \in C /\ m \in C /\ c.seq <= m.seq /\ m.seq <= c.seq
    BY <2>2 DEF Last
  <2>4. c.seq \in Int /\ m.seq \in Int
    BY <1>2, <2>3, ContainedNumbered DEF Mutations
  <2>5. c.seq = m.seq
    BY <2>3, <2>4
  <2>6. c = m
    BY <1>2, <2>2, <2>3, <2>5, ContainedNumbered
  <2>7. view[m.subject] = EntryOf(c, c.seq)
    BY <1>1, <1>3, <2>1 DEF Replica!ViewAt, EntryOf
  <2> QED BY <2>6, <2>7
<1> QED BY <1>1, <1>2, <1>4, <1>5

\* One mutation more, the next of its shard: the prefix shows it like the map it is
\* applied to, since nothing about its subject comes after it.
LEMMA ViewAdvances ==
  ASSUME NEW h, Numbered(h), NEW p, Reached(h, p), NEW s \in Shards, p[s] < Len(h[s]),
         NEW m, m = h[s][p[s] + 1], NEW rule \in BOOLEAN,
         NEW q \in [Shards -> Nat], q[s] = p[s] + 1, \A t \in Shards \ {s} : q[t] = p[t]
  PROVE  /\ Reached(h, q)
         /\ Replica!ViewAt(h, q, rule) =
              IF m.rule = rule THEN Put(Replica!ViewAt(h, p, rule), m, m.seq)
              ELSE Replica!ViewAt(h, p, rule)
<1>1. p \in [Shards -> Nat] /\ p[s] \in Nat /\ h[s] \in Seq(Mutations)
  BY DEF Reached, Numbered
<1>2. q[s] = p[s] + 1 /\ \A t \in Shards \ {s} : q[t] = p[t]
  OBVIOUS
<1>3. Reached(h, q)
  <2>1. ASSUME NEW t \in Shards PROVE q[t] <= Len(h[t])
    <3>1. CASE t = s
      BY <1>1, <1>2, <3>1
    <3>2. CASE t # s
      BY <1>2, <3>2 DEF Reached
    <3> QED BY <3>1, <3>2
  <2> QED BY <1>2, <2>1 DEF Reached
<1>4. m.seq = p[s] + 1 /\ ShardOf(m.subject) = s
  <2>1. p[s] + 1 \in 1 .. Len(h[s])
    BY <1>1
  <2> QED BY <2>1 DEF Numbered
<1>5. PICK C : C = Replica!Contained(h, p, rule)
  OBVIOUS
<1>6. PICK D : D = Replica!Contained(h, q, rule)
  OBVIOUS
<1>7. \A x : x \in D <=> x \in C \/ (x = m /\ m.rule = rule)
  <2>1. ASSUME NEW x PROVE x \in D <=> x \in C \/ (x = m /\ m.rule = rule)
    <3>1. x \in C <=> x.rule = rule /\ \E t \in Shards : \E i \in 1 .. p[t] : x = h[t][i]
      BY <1>5, ContainedMeans
    <3>2. x \in D <=> x.rule = rule /\ \E t \in Shards : \E i \in 1 .. q[t] : x = h[t][i]
      BY <1>6 DEF Replica!Contained
    <3>3. ASSUME NEW t \in Shards, NEW i \in 1 .. q[t], x = h[t][i], x # m
          PROVE  i \in 1 .. p[t]
      <4>1. CASE t = s
        BY <1>1, <1>2, <3>3, <4>1
      <4>2. CASE t # s
        BY <1>2, <4>2
      <4> QED BY <4>1, <4>2
    <3>4. ASSUME NEW t \in Shards, NEW i \in 1 .. p[t] PROVE i \in 1 .. q[t]
      <4>1. CASE t = s
        BY <1>1, <1>2, <4>1
      <4>2. CASE t # s
        BY <1>2, <4>2
      <4> QED BY <4>1, <4>2
    <3>5. p[s] + 1 \in 1 .. q[s]
      BY <1>1, <1>2
    <3> QED BY <3>1, <3>2, <3>3, <3>4, <3>5
  <2> QED BY <2>1
<1>8. \A o \in C : o.seq \in Nat /\ (o.subject = m.subject => o.seq <= p[s])
  <2>1. ASSUME NEW o \in C PROVE o.seq \in 1 .. p[ShardOf(o.subject)] /\ o.seq \in Nat
    BY <1>5, ContainedNumbered DEF Mutations
  <2>2. ASSUME NEW o \in C, o.subject = m.subject PROVE o.seq <= p[s]
    BY <1>1, <1>4, <2>1, <2>2
  <2> QED BY <2>1, <2>2
<1>9. PICK now : now = Replica!ViewAt(h, p, rule)
  OBVIOUS
<1>10. PICK then : then = Replica!ViewAt(h, q, rule)
  OBVIOUS
<1>11. /\ DOMAIN now = Subjects(C)
       /\ \A x \in Last(C) : now[x.subject] = EntryOf(x, x.seq)
       /\ IsFunction(now)
  BY <1>5, <1>9, ViewMeans
<1>12. /\ DOMAIN then = Subjects(D)
       /\ \A x \in Last(D) : then[x.subject] = EntryOf(x, x.seq)
       /\ IsFunction(then)
  BY <1>3, <1>6, <1>10, ViewMeans
<1>13. CASE m.rule # rule
  <2>1. C = D
    BY <1>7, <1>13
  <2>2. now = then
    BY <1>5, <1>6, <1>9, <1>10, <2>1 DEF Replica!ViewAt, Replica!Surviving
  <2> QED BY <1>3, <1>9, <1>10, <1>13, <2>2
<1>14. CASE m.rule = rule
  <2>1. D = C \cup {m}
    BY <1>7, <1>14
  <2>2. \A x \in C : x.subject # m.subject => (x \in Last(D) <=> x \in Last(C))
    BY <2>1 DEF Last
  <2>3. ASSUME NEW x \in C, x.subject = m.subject PROVE x \notin Last(D)
    <3>1. x.seq \in Nat /\ x.seq <= p[s] /\ m.seq = p[s] + 1 /\ p[s] \in Nat
      BY <1>1, <1>4, <1>8, <2>3
    <3>2. m \in D /\ ~ (m.seq <= x.seq)
      BY <2>1, <3>1
    <3> QED BY <2>3, <3>2 DEF Last
  <2>4. m \in Last(D) <=> m.action # "Delete"
    BY <1>1, <1>4, <1>8, <2>1 DEF Last
  <2>5. PICK put : put = Put(now, m, m.seq)
    OBVIOUS
  <2>6. /\ DOMAIN put = IF m.action = "Delete" THEN DOMAIN now \ {m.subject}
                        ELSE DOMAIN now \cup {m.subject}
        /\ \A k \in DOMAIN put : put[k] = IF k = m.subject THEN EntryOf(m, m.seq) ELSE now[k]
        /\ IsFunction(put)
    BY <2>5 DEF Put, With, Without, IsFunction
  <2>7. \A x : x \in Last(D) <=> \/ x \in Last(C) /\ x.subject # m.subject
                                 \/ x = m /\ m.action # "Delete"
    <3>1. Last(C) \subseteq C /\ Last(D) \subseteq D
      BY DEF Last
    <3> QED BY <2>1, <2>2, <2>3, <2>4, <3>1
  <2>8. DOMAIN then = DOMAIN put
    <3>1. \A k : k \in DOMAIN now <=> \E x \in Last(C) : k = x.subject
      BY <1>11 DEF Subjects
    <3>2. \A k : k \in DOMAIN then <=> \E x \in Last(D) : k = x.subject
      BY <1>12 DEF Subjects
    <3>3. \A k : k \in DOMAIN put <=> \/ k \in DOMAIN now /\ k # m.subject
                                      \/ k = m.subject /\ m.action # "Delete"
      BY <2>6
    <3>4. ASSUME NEW k PROVE k \in DOMAIN then <=> k \in DOMAIN put
      BY <2>7, <3>1, <3>2, <3>3
    <3> QED BY <3>4
  <2>9. ASSUME NEW k \in DOMAIN then PROVE then[k] = put[k]
    <3>1. PICK x \in Last(D) : x.subject = k
      BY <1>12 DEF Subjects
    <3>2. then[k] = EntryOf(x, x.seq)
      BY <1>12, <3>1
    <3>3. CASE x = m /\ m.action # "Delete"
      BY <2>6, <2>8, <3>1, <3>2, <3>3
    <3>4. CASE x \in Last(C) /\ x.subject # m.subject
      BY <1>11, <2>6, <2>8, <3>1, <3>2, <3>4
    <3> QED BY <2>7, <3>3, <3>4
  <2>10. then = put
    BY <1>12, <2>6, <2>8, <2>9, SameMap
  <2> QED BY <1>3, <1>9, <1>10, <1>14, <2>5, <2>10
<1> QED BY <1>13, <1>14

\* What comes after a position does not change what it shows.
LEMMA ViewStays ==
  ASSUME NEW h, Numbered(h), NEW g, Numbered(g), NEW p, Reached(h, p),
         \A s \in Shards : Len(h[s]) <= Len(g[s]),
         \A s \in Shards : \A i \in 1 .. Len(h[s]) : g[s][i] = h[s][i]
  PROVE  /\ Reached(g, p)
         /\ \A rule : Replica!ViewAt(g, p, rule) = Replica!ViewAt(h, p, rule)
<1>1. ASSUME NEW s \in Shards
      PROVE  p[s] <= Len(g[s]) /\ \A i \in 1 .. p[s] : g[s][i] = h[s][i]
  <2>1. /\ p[s] \in Nat /\ Len(h[s]) \in Nat /\ Len(g[s]) \in Nat
        /\ p[s] <= Len(h[s]) /\ Len(h[s]) <= Len(g[s])
    <3>1. h[s] \in Seq(Mutations) /\ g[s] \in Seq(Mutations)
      BY DEF Numbered
    <3>2. p[s] \in Nat /\ p[s] <= Len(h[s])
      BY DEF Reached
    <3> QED BY <3>1, <3>2
  <2>2. p[s] <= Len(g[s]) /\ 1 .. p[s] \subseteq 1 .. Len(h[s])
    BY <2>1
  <2> QED BY <2>2
<1>2. Reached(g, p)
  <2>1. p \in [Shards -> Nat]
    BY DEF Reached
  <2> QED BY <1>1, <2>1 DEF Reached
<1>3. ASSUME NEW rule PROVE Replica!ViewAt(g, p, rule) = Replica!ViewAt(h, p, rule)
  <2>1. ASSUME NEW m
        PROVE  m \in Replica!Contained(g, p, rule) <=> m \in Replica!Contained(h, p, rule)
    <3>1. /\ m \in Replica!Contained(g, p, rule) <=>
               m.rule = rule /\ \E s \in Shards : \E i \in 1 .. p[s] : m = g[s][i]
          /\ m \in Replica!Contained(h, p, rule) <=>
               m.rule = rule /\ \E s \in Shards : \E i \in 1 .. p[s] : m = h[s][i]
      BY ContainedMeans
    <3> QED BY <1>1, <3>1
  <2>2. Replica!Contained(g, p, rule) = Replica!Contained(h, p, rule)
    BY <2>1
  <2> QED BY <2>2 DEF Replica!ViewAt, Replica!Surviving
<1> QED BY <1>2, <1>3

(***************************************************************************)
(* Commits                                                                 *)
(***************************************************************************)

\* A change that a route, or a rollback, may commit.
IsChange(c) ==
    /\ c.rule \in BOOLEAN
    /\ c.subject \in (IF c.rule THEN Patterns ELSE Keys)
    /\ c.action \in Actions /\ c.priority \in Nat /\ c.expires_at \in Nat

\* The subjects of changes have a shard.
LEMMA SubjectsHaveShards ==
  ASSUME NEW k \in Keys \cup Patterns
  PROVE  ShardOf(k) \in Shards
<1>1. CASE k \in Keys
  BY <1>1, RequestAssumption DEF Keys
<1>2. CASE k \in Patterns
  BY <1>2, RequestAssumption DEF Patterns
<1> QED BY <1>1, <1>2

\* prepare_commit: the mutation is the next of its shard.
LEMMA NextMutationMeans ==
  ASSUME EdgeInv, NEW c, IsChange(c)
  PROVE  /\ ShardOf(c.subject) \in Shards
         /\ NextMutation(c) \in Mutations
         /\ NextMutation(c).shard_id = ShardOf(c.subject)
         /\ NextMutation(c).seq = Len(history[ShardOf(c.subject)]) + 1
         /\ NextMutation(c).subject = c.subject /\ NextMutation(c).rule = c.rule
         /\ NextMutation(c).action = c.action /\ NextMutation(c).priority = c.priority
         /\ NextMutation(c).expires_at = c.expires_at
<1>1. PICK s : s = ShardOf(c.subject)
  OBVIOUS
<1>2. s \in Shards /\ c.subject \in Keys \cup Patterns
  BY <1>1, SubjectsHaveShards DEF IsChange
<1>3. source.watermarks[s] = Len(history[s]) /\ Len(history[s]) \in Nat
  BY <1>2 DEF EdgeInv, TypeOK, Numbered
<1>4. PICK m : m = NextMutation(c)
  OBVIOUS
<1>5. m = [shard_id |-> s, seq |-> Len(history[s]) + 1, rule |-> c.rule,
           subject |-> c.subject, action |-> c.action, priority |-> c.priority,
           expires_at |-> c.expires_at]
  BY <1>1, <1>3, <1>4 DEF NextMutation
<1>6. m \in Mutations
  BY <1>2, <1>3, <1>5 DEF Mutations, IsChange
<1> QED BY <1>1, <1>2, <1>4, <1>5, <1>6

\* The stream has grown, and what it held is where it was.
Grown ==
    /\ Numbered(history) /\ Numbered(history')
    /\ \A s \in Shards : Len(history[s]) <= Len(history'[s])
    /\ \A s \in Shards : \A i \in 1 .. Len(history[s]) : history'[s][i] = history[s][i]

\* A commit makes the stream of one shard longer by one.
LEMMA CommitGrows ==
  ASSUME EdgeInv, NEW c, IsChange(c), CommitChange(c)
  PROVE  /\ Grown
         /\ history'[ShardOf(c.subject)] = Append(history[ShardOf(c.subject)], NextMutation(c))
         /\ \A t \in Shards \ {ShardOf(c.subject)} : history'[t] = history[t]
<1>1. PICK s : s = ShardOf(c.subject)
  OBVIOUS
<1>2. PICK m : m = NextMutation(c)
  OBVIOUS
<1>3. /\ s \in Shards /\ m \in Mutations /\ m.shard_id = s /\ m.seq = Len(history[s]) + 1
      /\ m.subject = c.subject /\ m.rule = c.rule
  BY <1>1, <1>2, NextMutationMeans
<1>4. Numbered(history)
  BY DEF EdgeInv, TypeOK
<1>5. history \in [Shards -> Seq(Mutations)]
  BY <1>4 DEF Numbered
<1>6. history' = [history EXCEPT ![s] = Append(history[s], m)]
  BY <1>2, <1>3 DEF CommitChange
<1>7. history'[s] = Append(history[s], m) /\ \A t \in Shards \ {s} : history'[t] = history[t]
  BY <1>3, <1>5, <1>6
<1>8. /\ history[s] \in Seq(Mutations) /\ Append(history[s], m) \in Seq(Mutations)
      /\ Len(Append(history[s], m)) = Len(history[s]) + 1 /\ Len(history[s]) \in Nat
      /\ Append(history[s], m)[Len(history[s]) + 1] = m
      /\ \A i \in 1 .. Len(history[s]) : Append(history[s], m)[i] = history[s][i]
  BY <1>3, <1>5
<1>9. history' \in [Shards -> Seq(Mutations)]
  BY <1>5, <1>6, <1>8
<1>10. \A t \in Shards : \A i \in 1 .. Len(history[t]) : history'[t][i] = history[t][i]
  BY <1>7, <1>8
<1>11. \A t \in Shards : Len(history[t]) <= Len(history'[t])
  <2>1. \A t \in Shards : Len(history[t]) \in Nat
    BY <1>5
  <2> QED BY <1>7, <1>8, <2>1
<1>12. ASSUME NEW t \in Shards, NEW i \in 1 .. Len(history'[t])
       PROVE  LET x == history'[t][i]
              IN  /\ x.seq = i
                  /\ x.shard_id = t /\ ShardOf(x.subject) = t
                  /\ x.subject \in (IF x.rule THEN Patterns ELSE Keys)
  <2>1. CASE i \in 1 .. Len(history[t])
    <3>1. history'[t][i] = history[t][i]
      BY <1>10, <2>1
    <3> QED BY <1>4, <2>1, <3>1 DEF Numbered
  <2>2. CASE i \notin 1 .. Len(history[t])
    <3>1. t = s
      BY <1>7, <2>2
    <3>2. i = Len(history[s]) + 1
      BY <1>7, <1>8, <2>2, <3>1
    <3>3. history'[t][i] = m
      BY <1>7, <1>8, <3>1, <3>2
    <3> QED BY <1>1, <1>3, <3>1, <3>2, <3>3 DEF IsChange
  <2> QED BY <2>1, <2>2
<1>13. Numbered(history')
  BY <1>9, <1>12 DEF Numbered
<1> QED BY <1>1, <1>2, <1>4, <1>7, <1>10, <1>11, <1>13 DEF Grown

\* What was a prefix of the stream is one of the longer stream.
LEMMA PrefixesStay ==
  ASSUME Grown, NEW x, IsPrefix(x)
  PROVE  IsPrefix(x)'
<1>1. PICK p : p = x.watermarks
  OBVIOUS
<1>2. Reached(history, p)
  BY <1>1 DEF IsPrefix
<1>3. Reached(history', p) /\ \A rule : Replica!ViewAt(history', p, rule) = Replica!ViewAt(history, p, rule)
  BY <1>2, ViewStays DEF Grown
<1>4. x.entries = Replica!ViewAt(history, p, FALSE) /\ x.rules = Replica!ViewAt(history, p, TRUE)
  BY <1>1 DEF IsPrefix
<1> QED BY <1>1, <1>3, <1>4 DEF IsPrefix

\* So is what the edge shows.
LEMMA EdgeStays ==
  ASSUME EdgeInv, Grown, edge' = edge
  PROVE  EdgeInStep' /\ Reached(history', edge'.watermarks)
<1>1. PICK p : p = edge.watermarks
  OBVIOUS
<1>2. Reached(history, p)
  BY <1>1 DEF EdgeInv, TypeOK
<1>3. Reached(history', p) /\ \A rule : Replica!ViewAt(history', p, rule) = Replica!ViewAt(history, p, rule)
  BY <1>2, ViewStays DEF Grown
<1>4. EntriesThere' = EntriesThere /\ RulesThere' = RulesThere
  BY <1>1, <1>3 DEF EntriesThere, RulesThere
<1>5. /\ materialized_entries(edge)' = materialized_entries(edge)
      /\ materialized_rules(edge)' = materialized_rules(edge)
      /\ ImmutableBase(edge.base.entries)' = ImmutableBase(edge.base.entries)
  BY DEF materialized_entries, materialized_rules, Materialized, ImmutableBase
<1>6. EdgeInStep'
  BY <1>4, <1>5 DEF EdgeInv, EdgeInStep
<1> QED BY <1>1, <1>3, <1>6

\* apply_committed_mutation: the source is what the longer stream leaves, and its
\* snapshot is archived.
LEMMA CommitLeavesPrefix ==
  ASSUME EdgeInv, NEW c, IsChange(c), CommitChange(c)
  PROVE  /\ IsPrefix(source)'
         /\ \A s \in Shards : source'.watermarks[s] = Len(history'[s])
         /\ SnapshotOf(source') \in archive'
         /\ \A x \in archive' : IsPrefix(x)'
<1>1. PICK s : s = ShardOf(c.subject)
  OBVIOUS
<1>2. PICK m : m = NextMutation(c)
  OBVIOUS
<1>3. /\ s \in Shards /\ m \in Mutations /\ m.shard_id = s /\ m.seq = Len(history[s]) + 1
      /\ m.subject = c.subject /\ m.rule = c.rule /\ m.action = c.action
      /\ m.priority = c.priority /\ m.expires_at = c.expires_at
  BY <1>1, <1>2, NextMutationMeans
<1>4. /\ Grown /\ history'[s] = Append(history[s], m)
      /\ \A t \in Shards \ {s} : history'[t] = history[t]
  BY <1>1, <1>2, CommitGrows
<1>5. PICK p : p = source.watermarks
  OBVIOUS
<1>6. PICK q : q = source'.watermarks
  OBVIOUS
<1>7. /\ Reached(history, p) /\ \A t \in Shards : p[t] = Len(history[t])
      /\ source.entries = Replica!ViewAt(history, p, FALSE)
      /\ source.rules = Replica!ViewAt(history, p, TRUE)
      /\ IsMap(source.entries, Keys) /\ IsMap(source.rules, Patterns)
  BY <1>5 DEF EdgeInv, TypeOK, SourceInStep, IsPrefix
<1>8. /\ history[s] \in Seq(Mutations) /\ Len(history[s]) \in Nat /\ p[s] \in Nat
      /\ Len(history'[s]) = p[s] + 1 /\ history'[s][p[s] + 1] = m /\ m.seq = p[s] + 1
  <2>1. history[s] \in Seq(Mutations)
    BY <1>3, <1>4 DEF Grown, Numbered
  <2> QED BY <1>3, <1>4, <1>7, <2>1
<1>9. source' = [entries |-> IF m.rule THEN source.entries ELSE Put(source.entries, m, m.seq),
                 rules |-> IF m.rule THEN Put(source.rules, m, m.seq) ELSE source.rules,
                 watermarks |-> [p EXCEPT ![s] = m.seq]]
  BY <1>2, <1>3, <1>5 DEF CommitChange
<1>10. /\ q \in [Shards -> Nat] /\ q[s] = p[s] + 1 /\ \A t \in Shards \ {s} : q[t] = p[t]
  <2>1. q = [p EXCEPT ![s] = p[s] + 1]
    BY <1>6, <1>8, <1>9
  <2>2. p \in [Shards -> Nat]
    BY <1>7 DEF Reached
  <2> QED BY <1>3, <1>8, <2>1, <2>2
<1>11. /\ Reached(history', p)
       /\ \A rule : Replica!ViewAt(history', p, rule) = Replica!ViewAt(history, p, rule)
  BY <1>4, <1>7, ViewStays DEF Grown
<1>12. ASSUME NEW rule \in BOOLEAN
       PROVE  /\ Reached(history', q)
              /\ Replica!ViewAt(history', q, rule) =
                   IF m.rule = rule THEN Put(Replica!ViewAt(history, p, rule), m, m.seq)
                   ELSE Replica!ViewAt(history, p, rule)
  <2>1. Numbered(history') /\ p[s] < Len(history'[s]) /\ m = history'[s][p[s] + 1]
    BY <1>4, <1>8 DEF Grown
  <2>2. PICK h : h = history'
    OBVIOUS
  <2>3. /\ Reached(h, q)
        /\ Replica!ViewAt(h, q, rule) =
                   IF m.rule = rule THEN Put(Replica!ViewAt(h, p, rule), m, m.seq)
                   ELSE Replica!ViewAt(h, p, rule)
    BY <1>3, <1>10, <1>11, <2>1, <2>2, ViewAdvances
  <2> QED BY <1>11, <2>2, <2>3
<1>13. m.rule \in BOOLEAN
  BY <1>3 DEF Mutations
<1>14. source'.entries = Replica!ViewAt(history', q, FALSE)
  <2>1. source'.entries = IF m.rule THEN source.entries ELSE Put(source.entries, m, m.seq)
    BY <1>9
  <2>2. Replica!ViewAt(history', q, FALSE) =
          IF m.rule = FALSE THEN Put(source.entries, m, m.seq) ELSE source.entries
    BY <1>7, <1>12
  <2> QED BY <1>13, <2>1, <2>2
<1>15. source'.rules = Replica!ViewAt(history', q, TRUE)
  <2>1. source'.rules = IF m.rule THEN Put(source.rules, m, m.seq) ELSE source.rules
    BY <1>9
  <2>2. Replica!ViewAt(history', q, TRUE) =
          IF m.rule = TRUE THEN Put(source.rules, m, m.seq) ELSE source.rules
    BY <1>7, <1>12
  <2> QED BY <1>13, <2>1, <2>2
<1>16. IsMap(source'.entries, Keys) /\ IsMap(source'.rules, Patterns)
  <2>1. /\ m.seq \in Nat /\ m.action \in Actions /\ m.priority \in Nat /\ m.expires_at \in Nat
        /\ m.subject \in (IF m.rule THEN Patterns ELSE Keys)
    BY <1>3 DEF Mutations, IsChange
  <2>2. CASE m.rule
    BY <1>7, <1>9, <2>1, <2>2, PutIsMap
  <2>3. CASE ~m.rule
    BY <1>7, <1>9, <2>1, <2>3, PutIsMap
  <2> QED BY <2>2, <2>3
<1>17. IsPrefix(source)'
  <2>1. source' = [entries |-> source'.entries, rules |-> source'.rules,
                   watermarks |-> source'.watermarks]
    BY <1>9
  <2> QED BY <1>6, <1>12, <1>14, <1>15, <1>16, <2>1 DEF IsPrefix
<1>18. \A t \in Shards : source'.watermarks[t] = Len(history'[t])
  BY <1>4, <1>6, <1>7, <1>8, <1>10
<1>19. archive' = archive \cup {SnapshotOf(source')}
  BY DEF CommitChange
<1>20. SnapshotOf(source') = source'
  BY <1>9 DEF SnapshotOf
<1>21. \A x \in archive : IsPrefix(x)'
  BY <1>4, PrefixesStay DEF EdgeInv, SourceInStep
<1> QED BY <1>17, <1>18, <1>19, <1>20, <1>21

\* A commit keeps the invariant, whatever becomes of the rollback it is part of.
LEMMA CommitKeeps ==
  ASSUME EdgeInv, NEW c, IsChange(c), CommitChange(c), edge' = edge,
         rollback' = Idle \/ (rollback' = rollback /\ rollback.stage # "done")
  PROVE  EdgeInv'
<1>1. EdgeInStep' /\ Reached(history', edge'.watermarks) /\ Numbered(history')
  BY CommitGrows, EdgeStays DEF Grown
<1>2. SourceInStep' /\ SnapshotOf(source') \in archive'
      /\ \A s \in Shards : source'.watermarks[s] = Len(history'[s])
  BY CommitLeavesPrefix DEF SourceInStep
<1>3. TypeOK'
  BY <1>1, <1>2 DEF TypeOK, EdgeInv
<1>4. RollbackInStep'
  <2>1. CASE rollback' = Idle
    BY <1>2, <2>1, EmptyIsMap DEF RollbackInStep, Idle
  <2>2. CASE rollback' = rollback /\ rollback.stage # "done"
    BY <1>2, <2>2 DEF RollbackInStep, EdgeInv
  <2> QED BY <2>1, <2>2
<1> QED BY <1>1, <1>2, <1>3, <1>4 DEF EdgeInv

\* A client's entry or rule is a change that may be committed.
LEMMA RequestsAreChanges ==
  /\ \A r \in EntryRequests :
       IsChange(Change(FALSE, r.key, r.action, r.priority, r.expires_at))
  /\ \A r \in RuleRequests :
       compile_rule_pattern(r.raw) # Invalid =>
         IsChange(Change(TRUE, compile_rule_pattern(r.raw), r.action, r.priority, r.expires_at))
<1>1. ASSUME NEW r \in EntryRequests
      PROVE  IsChange(Change(FALSE, r.key, r.action, r.priority, r.expires_at))
  <2>1. r.key \in Keys
    BY DEF Keys
  <2>2. r.action \in Actions /\ r.priority \in Nat /\ r.expires_at \in Nat
    BY RequestAssumption
  <2> QED BY <2>1, <2>2 DEF IsChange, Change
<1>2. ASSUME NEW r \in RuleRequests, compile_rule_pattern(r.raw) # Invalid
      PROVE  IsChange(Change(TRUE, compile_rule_pattern(r.raw), r.action, r.priority, r.expires_at))
  <2>1. compile_rule_pattern(r.raw) \in Patterns
    BY <1>2 DEF Patterns
  <2>2. r.action \in Actions /\ r.priority \in Nat /\ r.expires_at \in Nat
    BY RequestAssumption
  <2> QED BY <2>1, <2>2 DEF IsChange, Change
<1> QED BY <1>1, <1>2

\* Which changes come next in a rollback, and that none is left only when the maps
\* agree: the four loops of restore_snapshot leave nothing out.
LEMMA RestoreMeans ==
  ASSUME NEW state, NEW target
  PROVE  /\ \A c \in RestoreNext(state, target) :
              \/ c \in RestoreDeletes(FALSE, state.entries, target.entries)
              \/ c \in RestoreWrites(FALSE, state.entries, target.entries)
              \/ c \in RestoreDeletes(TRUE, state.rules, target.rules)
              \/ c \in RestoreWrites(TRUE, state.rules, target.rules)
         /\ RestoreNext(state, target) = {} =>
              /\ RestoreDeletes(FALSE, state.entries, target.entries) = {}
              /\ RestoreWrites(FALSE, state.entries, target.entries) = {}
              /\ RestoreDeletes(TRUE, state.rules, target.rules) = {}
              /\ RestoreWrites(TRUE, state.rules, target.rules) = {}
<1>1. PICK a, b, c, d :
        /\ a = RestoreDeletes(FALSE, state.entries, target.entries)
        /\ b = RestoreWrites(FALSE, state.entries, target.entries)
        /\ c = RestoreDeletes(TRUE, state.rules, target.rules)
        /\ d = RestoreWrites(TRUE, state.rules, target.rules)
  OBVIOUS
<1>2. PICK phases : phases = << a, b, c, d >>
  OBVIOUS
<1>3. RestoreNext(state, target) =
        UNION {phases[i] : i \in {i \in 1 .. 4 : \A j \in 1 .. (i - 1) : phases[j] = {}}}
  BY <1>1, <1>2 DEF RestoreNext, RestorePhases
<1>4. phases[1] = a /\ phases[2] = b /\ phases[3] = c /\ phases[4] = d
  BY <1>2
<1>5. \A i \in 1 .. 4 : i = 1 \/ i = 2 \/ i = 3 \/ i = 4
  OBVIOUS
<1>6. \A x \in RestoreNext(state, target) : x \in a \/ x \in b \/ x \in c \/ x \in d
  BY <1>3, <1>4, <1>5
<1>7. ASSUME RestoreNext(state, target) = {}
      PROVE  a = {} /\ b = {} /\ c = {} /\ d = {}
  <2>1. ASSUME NEW i \in 1 .. 4, \A j \in 1 .. (i - 1) : phases[j] = {}
        PROVE  phases[i] = {}
    BY <1>3, <1>7, <2>1
  <2>2. phases[1] = {}
    BY <2>1
  <2>3. phases[2] = {}
    BY <2>1, <2>2
  <2>4. phases[3] = {}
    <3>1. \A j \in 1 .. (3 - 1) : j = 1 \/ j = 2
      OBVIOUS
    <3> QED BY <2>1, <2>2, <2>3, <3>1
  <2>5. phases[4] = {}
    <3>1. \A j \in 1 .. (4 - 1) : j = 1 \/ j = 2 \/ j = 3
      OBVIOUS
    <3> QED BY <2>1, <2>2, <2>3, <2>4, <3>1
  <2> QED BY <1>4, <2>2, <2>3, <2>4, <2>5
<1> QED BY <1>1, <1>6, <1>7

\* What a rollback plans may be committed.
LEMMA RestoresAreChanges ==
  ASSUME EdgeInv, NEW c \in RestoreNext(source, rollback.target)
  PROVE  IsChange(c)
<1>1. ASSUME NEW rule \in BOOLEAN, NEW map, NEW target,
             IsMap(map, IF rule THEN Patterns ELSE Keys),
             IsMap(target, IF rule THEN Patterns ELSE Keys),
             c \in RestoreDeletes(rule, map, target) \/ c \in RestoreWrites(rule, map, target)
      PROVE  IsChange(c)
  <2>1. PICK subjects : subjects = IF rule THEN Patterns ELSE Keys
    OBVIOUS
  <2>2. /\ \A k \in DOMAIN map : map[k] \in Entries /\ k \in subjects
        /\ \A k \in DOMAIN target : target[k] \in Entries /\ k \in subjects
    BY <1>1, <2>1 DEF IsMap
  <2>3. CASE c \in RestoreDeletes(rule, map, target)
    <3>1. PICK k \in DOMAIN map : c = Change(rule, k, "Delete", map[k].priority, 0)
      BY <2>3 DEF RestoreDeletes
    <3>2. map[k].priority \in Nat /\ k \in subjects
      BY <2>2 DEF Entries
    <3> QED BY <2>1, <3>1, <3>2 DEF Change, IsChange, Actions
  <2>4. CASE c \in RestoreWrites(rule, map, target)
    <3>1. PICK k \in DOMAIN target :
            c = Change(rule, k, target[k].action, target[k].priority, target[k].expires_at)
      BY <2>4 DEF RestoreWrites
    <3>2. /\ target[k].action \in Actions /\ target[k].priority \in Nat
          /\ target[k].expires_at \in Nat /\ k \in subjects
      BY <2>2 DEF Entries
    <3> QED BY <2>1, <3>1, <3>2 DEF Change, IsChange
  <2> QED BY <1>1, <2>3, <2>4
<1>2. /\ IsMap(source.entries, Keys) /\ IsMap(source.rules, Patterns)
      /\ IsMap(rollback.target.entries, Keys) /\ IsMap(rollback.target.rules, Patterns)
  BY DEF EdgeInv, SourceInStep, IsPrefix, RollbackInStep
<1>3. \/ c \in RestoreDeletes(FALSE, source.entries, rollback.target.entries)
      \/ c \in RestoreWrites(FALSE, source.entries, rollback.target.entries)
      \/ c \in RestoreDeletes(TRUE, source.rules, rollback.target.rules)
      \/ c \in RestoreWrites(TRUE, source.rules, rollback.target.rules)
  BY RestoreMeans
<1>4. CASE \/ c \in RestoreDeletes(FALSE, source.entries, rollback.target.entries)
           \/ c \in RestoreWrites(FALSE, source.entries, rollback.target.entries)
  BY <1>1, <1>2, <1>4
<1>5. CASE \/ c \in RestoreDeletes(TRUE, source.rules, rollback.target.rules)
           \/ c \in RestoreWrites(TRUE, source.rules, rollback.target.rules)
  BY <1>1, <1>2, <1>5
<1> QED BY <1>3, <1>4, <1>5

(***************************************************************************)
(* The edge's base and overlay                                             *)
(***************************************************************************)

\* The filter's words: none for no entries, and whole ones otherwise.
LEMMA FilterWords ==
  ASSUME NEW n \in Nat
  PROVE  /\ FilterBitLen(n) \in Nat
         /\ FilterBitLen(n) % WordBits = 0
         /\ n > 0 => FilterBitLen(n) > 0
<1>1. WordBits \in Nat /\ WordBits > 0
  BY EdgeAssumption
<1>2. CASE n = 0
  BY <1>1, <1>2 DEF FilterBitLen
<1>3. CASE n > 0
  <2>1. PICK desired : desired = IF n * BitsPerEntry > WordBits THEN n * BitsPerEntry ELSE WordBits
    OBVIOUS
  <2>2. desired \in Nat /\ desired >= WordBits
    BY <1>1, <2>1, EdgeAssumption
  <2>3. PICK words : words = (desired + WordBits - 1) \div WordBits
    OBVIOUS
  <2>4. words \in Nat /\ words > 0
    BY <1>1, <2>2, <2>3
  <2>5. FilterBitLen(n) = WordBits * words
    BY <1>3, <2>1, <2>3 DEF FilterBitLen
  <2>6. WordBits * words \in Nat /\ WordBits * words > 0
    BY <1>1, <2>4
  <2>7. (WordBits * words) % WordBits = 0
    BY <1>1, <2>4
  <2> QED BY <2>5, <2>6, <2>7
<1> QED BY <1>2, <1>3

\* from_entries: every bit of the filter lies inside its words, and the filter
\* has the bits of every key of the base.
LEMMA FilterFits ==
  ASSUME NEW map, IsMap(map, Keys), NEW base, base = ImmutableBase(map)
  PROVE  /\ base.bits \subseteq 0 .. base.bit_len - 1
         /\ base.bit_len % WordBits = 0
         /\ \A k \in DOMAIN map : may_contain(base, k)
<1>1. PICK n : n = Cardinality(DOMAIN map)
  OBVIOUS
<1>2. n \in Nat /\ (DOMAIN map # {} => n > 0)
  BY <1>1, FS_CardinalityType, FS_EmptySet DEF IsMap
<1>3. PICK len : len = FilterBitLen(n)
  OBVIOUS
<1>4. len \in Nat /\ len % WordBits = 0 /\ (n > 0 => len > 0)
  BY <1>2, <1>3, FilterWords
<1>5. base = [entries |-> map, bit_len |-> len, bits |-> UNION {KeyBits(len, k) : k \in DOMAIN map}]
  BY <1>1, <1>3 DEF ImmutableBase
<1>6. ASSUME NEW k \in DOMAIN map PROVE KeyBits(len, k) \subseteq 0 .. len - 1
  <2>1. HashFirst(k) \in Nat /\ HashSecond(k) \in Nat
    BY RequestAssumption DEF IsMap, Keys
  <2>2. len > 0
    BY <1>2, <1>4
  <2>3. ASSUME NEW i \in 0 .. FilterHashes - 1 PROVE bit_index(len, k, i) \in 0 .. len - 1
    <3>1. PICK x : x = HashFirst(k) + i * HashSecond(k) + i * i
      OBVIOUS
    <3>2. i \in Nat
      OBVIOUS
    <3>3. x \in Nat
      BY <2>1, <3>1, <3>2
    <3>4. x % len \in 0 .. len - 1
      BY <1>4, <2>2, <3>3
    <3> QED BY <3>1, <3>4 DEF bit_index
  <2> QED BY <2>3 DEF KeyBits
<1>7. ASSUME NEW k \in DOMAIN map PROVE may_contain(base, k)
  <2>1. len > 0
    BY <1>2, <1>4
  <2>2. KeyBits(len, k) \subseteq UNION {KeyBits(len, x) : x \in DOMAIN map}
    OBVIOUS
  <2> QED BY <1>4, <1>5, <2>1, <2>2 DEF may_contain
<1>8. base.bits \subseteq 0 .. base.bit_len - 1
  BY <1>5, <1>6
<1> QED BY <1>4, <1>5, <1>7, <1>8

\* CompiledRules keeps all of the rules of a snapshot: no deletion is among them.
LEMMA CompiledAsTheyAre ==
  ASSUME NEW map, IsMap(map, Patterns)
  PROVE  CompiledRules(map) = map
<1>1. \A k \in DOMAIN map : map[k].action # "Delete"
  BY DEF IsMap, Entries
<1>2. map = [k \in DOMAIN map |-> map[k]]
  BY DEF IsMap
<1>3. {p \in DOMAIN map : map[p].action # "Delete"} = DOMAIN map
  BY <1>1
<1> QED BY <1>2, <1>3 DEF CompiledRules

\* ActiveState::from_snapshot of what a prefix of the stream leaves.
LEMMA FreshEdge ==
  ASSUME NEW w, NEW entries, NEW rules, edge' = ActiveState(w, entries, rules),
         Reached(history', w), IsMap(entries, Keys), IsMap(rules, Patterns),
         entries = Replica!ViewAt(history', w, FALSE),
         rules = Replica!ViewAt(history', w, TRUE)
  PROVE  /\ EdgeInStep'
         /\ edge'.watermarks = w
         /\ materialized_entries(edge') = entries /\ materialized_rules(edge') = rules
         /\ edge'.base.bits \subseteq 0 .. edge'.base.bit_len - 1
         /\ edge'.base.bit_len % WordBits = 0
         /\ DOMAIN edge'.delta_adds \cap edge'.delta_removes = {}
         /\ DOMAIN edge'.delta_rule_adds \cap edge'.delta_rule_removes = {}
<1>1. PICK base : base = ImmutableBase(entries)
  OBVIOUS
<1>2. /\ edge'.base = base /\ edge'.delta_adds = <<>> /\ edge'.delta_removes = {}
      /\ edge'.rule_base = rules /\ edge'.delta_rule_adds = <<>>
      /\ edge'.delta_rule_removes = {} /\ edge'.watermarks = w
      /\ IsActiveState(edge')
  BY <1>1, CompiledAsTheyAre DEF ActiveState, IsActiveState
<1>3. base.entries = entries
  BY <1>1 DEF ImmutableBase
<1>4. materialized_entries(edge') = entries /\ materialized_rules(edge') = rules
  <2>1. Materialized(entries, <<>>, {}) = entries
    BY BareBase DEF IsMap, IsFunction
  <2>2. Materialized(rules, <<>>, {}) = rules
    BY BareBase DEF IsMap, IsFunction
  <2> QED BY <1>2, <1>3, <2>1, <2>2 DEF materialized_entries, materialized_rules
<1>5. base.bits \subseteq 0 .. base.bit_len - 1 /\ base.bit_len % WordBits = 0
  BY <1>1, FilterFits
<1>6. IsMap(<<>>, Keys) /\ IsMap(<<>>, Patterns)
  BY EmptyIsMap
<1>7. edge'.base = ImmutableBase(edge'.base.entries)
  BY <1>1, <1>2, <1>3
<1>8. materialized_entries(edge') = EntriesThere' /\ materialized_rules(edge') = RulesThere'
  BY <1>2, <1>4 DEF EntriesThere, RulesThere
<1>9. EdgeInStep'
  <2>1. /\ IsMap(edge'.base.entries, Keys) /\ IsMap(edge'.rule_base, Patterns)
        /\ IsMap(edge'.delta_adds, Keys) /\ IsMap(edge'.delta_rule_adds, Patterns)
    BY <1>2, <1>3, <1>6
  <2>2. IsActiveState(edge)'
    BY <1>2 DEF IsActiveState
  <2>3. /\ materialized_entries(edge)' = EntriesThere' /\ materialized_rules(edge)' = RulesThere'
        /\ edge'.base = ImmutableBase(edge.base.entries)'
    BY <1>7, <1>8
  <2> QED BY <2>1, <2>2, <2>3 DEF EdgeInStep
<1>10. /\ edge'.watermarks = w /\ edge'.base = base
       /\ DOMAIN edge'.delta_adds \cap edge'.delta_removes = {}
       /\ DOMAIN edge'.delta_rule_adds \cap edge'.delta_rule_removes = {}
  <2>1. DOMAIN <<>> = {}
    OBVIOUS
  <2> QED BY <1>2
<1> QED BY <1>4, <1>5, <1>9, <1>10

\* apply_mutation, field by field.
Applied(e, m, r) ==
    /\ IsActiveState(r)
    /\ r.base = e.base /\ r.rule_base = e.rule_base
    /\ r.watermarks = [e.watermarks EXCEPT ![m.shard_id] = m.seq]
    /\ r.delta_adds = IF m.rule THEN e.delta_adds ELSE Put(e.delta_adds, m, m.seq)
    /\ r.delta_removes = IF m.rule THEN e.delta_removes
                         ELSE IF m.action = "Delete" THEN e.delta_removes \cup {m.subject}
                         ELSE e.delta_removes \ {m.subject}
    /\ r.delta_rule_adds = IF m.rule THEN Put(e.delta_rule_adds, m, m.seq) ELSE e.delta_rule_adds
    /\ r.delta_rule_removes =
         IF m.rule THEN IF m.action = "Delete" THEN e.delta_rule_removes \cup {m.subject}
                        ELSE e.delta_rule_removes \ {m.subject}
         ELSE e.delta_rule_removes

\* A mutation of an entry leaves the rules alone, and the other way round.
LEMMA ApplyMeans ==
  ASSUME NEW e, NEW m, m.rule \in BOOLEAN, IsActiveState(e)
  PROVE  Applied(e, m, apply_mutation(e, m))
<1> DEFINE r == apply_mutation(e, m)
<1>1. PICK f : f = e /\ f = [base |-> f.base, delta_adds |-> f.delta_adds,
                            delta_removes |-> f.delta_removes, rule_base |-> f.rule_base,
                            delta_rule_adds |-> f.delta_rule_adds,
                            delta_rule_removes |-> f.delta_rule_removes,
                            watermarks |-> f.watermarks]
  BY DEF IsActiveState
<1> HIDE DEF r
<1>2. PICK base, adds, removes, rbase, radds, rremoves, w :
        /\ base = f.base /\ adds = f.delta_adds /\ removes = f.delta_removes
        /\ rbase = f.rule_base /\ radds = f.delta_rule_adds
        /\ rremoves = f.delta_rule_removes /\ w = f.watermarks
  OBVIOUS
<1>3. f = [base |-> base, delta_adds |-> adds, delta_removes |-> removes,
           rule_base |-> rbase, delta_rule_adds |-> radds,
           delta_rule_removes |-> rremoves, watermarks |-> w]
  BY <1>1, <1>2
<1>4. r = apply_mutation([base |-> base, delta_adds |-> adds, delta_removes |-> removes,
           rule_base |-> rbase, delta_rule_adds |-> radds,
           delta_rule_removes |-> rremoves, watermarks |-> w], m)
  BY <1>1, <1>3 DEF r
<1>5. PICK adds2, removes2, radds2, rremoves2, w2 :
        /\ adds2 = IF m.rule THEN adds ELSE Put(adds, m, m.seq)
        /\ removes2 = IF m.rule THEN removes
                      ELSE IF m.action = "Delete" THEN removes \cup {m.subject}
                      ELSE removes \ {m.subject}
        /\ radds2 = IF m.rule THEN Put(radds, m, m.seq) ELSE radds
        /\ rremoves2 = IF m.rule THEN IF m.action = "Delete" THEN rremoves \cup {m.subject}
                                      ELSE rremoves \ {m.subject}
                       ELSE rremoves
        /\ w2 = [w EXCEPT ![m.shard_id] = m.seq]
  OBVIOUS
<1>6. r = [base |-> base, delta_adds |-> adds2, delta_removes |-> removes2,
           rule_base |-> rbase, delta_rule_adds |-> radds2,
           delta_rule_removes |-> rremoves2, watermarks |-> w2]
  BY <1>4, <1>5 DEF apply_mutation
<1>7. /\ r.base = base /\ r.delta_adds = adds2 /\ r.delta_removes = removes2
      /\ r.rule_base = rbase /\ r.delta_rule_adds = radds2
      /\ r.delta_rule_removes = rremoves2 /\ r.watermarks = w2
  BY <1>6
<1>8. IsActiveState(r)
  BY <1>6 DEF IsActiveState
<1>9. Applied(e, m, r)
  BY <1>1, <1>2, <1>5, <1>7, <1>8 DEF Applied
<1> QED BY <1>9 DEF r
\* apply_mutation of the next mutation of a shard: the edge shows what the stream
\* leaves one mutation later.
LEMMA ApplyAdvances ==
  ASSUME EdgeInv, NEW s \in Shards, edge.watermarks[s] < Len(history[s]),
         edge' = apply_mutation(edge, history[s][edge.watermarks[s] + 1]), history' = history
  PROVE  /\ EdgeInStep'
         /\ Reached(history, edge'.watermarks)
         /\ edge'.watermarks = [edge.watermarks EXCEPT ![s] = edge.watermarks[s] + 1]
         /\ edge'.base = edge.base
         /\ DOMAIN edge'.delta_adds \cap edge'.delta_removes = {}
         /\ DOMAIN edge'.delta_rule_adds \cap edge'.delta_rule_removes = {}
<1>1. PICK p : p = edge.watermarks
  OBVIOUS
<1>2. PICK m : m = history[s][p[s] + 1]
  OBVIOUS
<1>3. PICK base, adds, removes, rbase, radds, rremoves :
        /\ base = edge.base /\ adds = edge.delta_adds /\ removes = edge.delta_removes
        /\ rbase = edge.rule_base /\ radds = edge.delta_rule_adds
        /\ rremoves = edge.delta_rule_removes
  OBVIOUS
<1>4. /\ Numbered(history) /\ Reached(history, p) /\ EdgeInStep
      /\ DOMAIN adds \cap removes = {} /\ DOMAIN radds \cap rremoves = {}
  BY <1>1, <1>3 DEF EdgeInv, TypeOK
<1>5. /\ p \in [Shards -> Nat] /\ p[s] \in Nat /\ history[s] \in Seq(Mutations)
      /\ p[s] + 1 \in 1 .. Len(history[s])
  <2>1. p \in [Shards -> Nat] /\ history[s] \in Seq(Mutations)
    BY <1>4 DEF Reached, Numbered
  <2> QED BY <1>1, <2>1
<1>6. /\ m \in Mutations /\ m.seq = p[s] + 1 /\ ShardOf(m.subject) = s
      /\ m.subject \in (IF m.rule THEN Patterns ELSE Keys)
      /\ m.rule \in BOOLEAN /\ m.seq \in Nat /\ m.action \in Actions
      /\ m.priority \in Nat /\ m.expires_at \in Nat
  <2>1. m \in Mutations
    BY <1>2, <1>5
  <2>2. m.seq = p[s] + 1 /\ ShardOf(m.subject) = s /\ m.subject \in (IF m.rule THEN Patterns ELSE Keys)
    BY <1>2, <1>4, <1>5 DEF Numbered
  <2> QED BY <2>1, <2>2 DEF Mutations
<1>7. m.shard_id = s
  BY <1>2, <1>4, <1>5 DEF Numbered
<1>8. PICK e : e = edge
  OBVIOUS
<1>9. PICK r : r = apply_mutation(e, m)
  OBVIOUS
<1>10. /\ IsActiveState(e)
       /\ e.base = base /\ e.delta_adds = adds /\ e.delta_removes = removes
       /\ e.rule_base = rbase /\ e.delta_rule_adds = radds /\ e.delta_rule_removes = rremoves
       /\ e.watermarks = p
  BY <1>1, <1>3, <1>4, <1>8 DEF EdgeInStep
<1>11. /\ IsActiveState(r)
       /\ r.base = e.base /\ r.rule_base = e.rule_base
       /\ r.watermarks = [e.watermarks EXCEPT ![m.shard_id] = m.seq]
       /\ r.delta_adds = IF m.rule THEN e.delta_adds ELSE Put(e.delta_adds, m, m.seq)
       /\ r.delta_removes = IF m.rule THEN e.delta_removes
                            ELSE IF m.action = "Delete" THEN e.delta_removes \cup {m.subject}
                            ELSE e.delta_removes \ {m.subject}
       /\ r.delta_rule_adds =
            IF m.rule THEN Put(e.delta_rule_adds, m, m.seq) ELSE e.delta_rule_adds
       /\ r.delta_rule_removes =
            IF m.rule THEN IF m.action = "Delete" THEN e.delta_rule_removes \cup {m.subject}
                           ELSE e.delta_rule_removes \ {m.subject}
            ELSE e.delta_rule_removes
  <2>1. Applied(e, m, r)
    BY <1>6, <1>9, <1>10, ApplyMeans
  <2> QED BY <2>1 DEF Applied
<1>12. PICK q : q = r.watermarks
  OBVIOUS
<1>13. q = [p EXCEPT ![s] = p[s] + 1]
  BY <1>6, <1>7, <1>10, <1>11, <1>12
<1>14. q \in [Shards -> Nat] /\ q[s] = p[s] + 1 /\ \A t \in Shards \ {s} : q[t] = p[t]
  BY <1>5, <1>13
<1>15. ASSUME NEW rule \in BOOLEAN
       PROVE  /\ Reached(history, q)
              /\ Replica!ViewAt(history, q, rule) =
                   IF m.rule = rule THEN Put(Replica!ViewAt(history, p, rule), m, m.seq)
                   ELSE Replica!ViewAt(history, p, rule)
  <2>1. p[s] < Len(history[s])
    BY <1>1
  <2> QED BY <1>2, <1>4, <1>14, <2>1, ViewAdvances
<1>16. /\ materialized_entries(e) = Materialized(base.entries, adds, removes)
       /\ materialized_rules(e) = Materialized(rbase, radds, rremoves)
       /\ materialized_entries(e) = Replica!ViewAt(history, p, FALSE)
       /\ materialized_rules(e) = Replica!ViewAt(history, p, TRUE)
  <2>1. /\ materialized_entries(e) = Materialized(e.base.entries, e.delta_adds, e.delta_removes)
        /\ materialized_rules(e) =
             Materialized(e.rule_base, e.delta_rule_adds, e.delta_rule_removes)
    BY DEF materialized_entries, materialized_rules
  <2>2. /\ materialized_entries(edge) = Replica!ViewAt(history, p, FALSE)
        /\ materialized_rules(edge) = Replica!ViewAt(history, p, TRUE)
    BY <1>1, <1>4 DEF EdgeInStep, EntriesThere, RulesThere
  <2> QED BY <1>8, <1>10, <2>1, <2>2
<1>17. /\ materialized_entries(r) =
            IF m.rule THEN materialized_entries(e) ELSE Put(materialized_entries(e), m, m.seq)
       /\ materialized_rules(r) =
            IF m.rule THEN Put(materialized_rules(e), m, m.seq) ELSE materialized_rules(e)
  <2>1. /\ materialized_entries(r) = Materialized(base.entries, r.delta_adds, r.delta_removes)
        /\ materialized_rules(r) =
             Materialized(rbase, r.delta_rule_adds, r.delta_rule_removes)
    BY <1>10, <1>11 DEF materialized_entries, materialized_rules
  <2>2. PICK there : there = IF m.action = "Delete" THEN removes \cup {m.subject}
                             ELSE removes \ {m.subject}
    OBVIOUS
  <2>3. PICK rthere : rthere = IF m.action = "Delete" THEN rremoves \cup {m.subject}
                               ELSE rremoves \ {m.subject}
    OBVIOUS
  <2>4. CASE m.rule
    <3>1. /\ r.delta_adds = adds /\ r.delta_removes = removes
          /\ r.delta_rule_adds = Put(radds, m, m.seq) /\ r.delta_rule_removes = rthere
      BY <1>10, <1>11, <2>3, <2>4
    <3>2. Materialized(rbase, Put(radds, m, m.seq), rthere)
            = Put(Materialized(rbase, radds, rremoves), m, m.seq)
      BY <2>3, OverlayPut
    <3>3. /\ materialized_entries(r) = Materialized(base.entries, adds, removes)
          /\ materialized_rules(r) = Materialized(rbase, Put(radds, m, m.seq), rthere)
      BY <2>1, <3>1
    <3>4. materialized_rules(r) = Put(materialized_rules(e), m, m.seq)
      BY <1>16, <3>2, <3>3
    <3>5. materialized_entries(r) = materialized_entries(e)
      BY <1>16, <3>3
    <3> QED BY <2>4, <3>4, <3>5
  <2>5. CASE ~m.rule
    <3>1. /\ r.delta_adds = Put(adds, m, m.seq) /\ r.delta_removes = there
          /\ r.delta_rule_adds = radds /\ r.delta_rule_removes = rremoves
      BY <1>10, <1>11, <2>2, <2>5
    <3>2. Materialized(base.entries, Put(adds, m, m.seq), there)
            = Put(Materialized(base.entries, adds, removes), m, m.seq)
      BY <2>2, OverlayPut
    <3>3. /\ materialized_entries(r) = Materialized(base.entries, Put(adds, m, m.seq), there)
          /\ materialized_rules(r) = Materialized(rbase, radds, rremoves)
      BY <2>1, <3>1
    <3>4. materialized_entries(r) = Put(materialized_entries(e), m, m.seq)
      BY <1>16, <3>2, <3>3
    <3>5. materialized_rules(r) = materialized_rules(e)
      BY <1>16, <3>3
    <3> QED BY <2>5, <3>4, <3>5
  <2> QED BY <2>4, <2>5
<1>18. /\ materialized_entries(r) = Replica!ViewAt(history, q, FALSE)
       /\ materialized_rules(r) = Replica!ViewAt(history, q, TRUE)
       /\ Reached(history, q)
  BY <1>6, <1>15, <1>16, <1>17
<1>19. /\ IsMap(base.entries, Keys) /\ IsMap(rbase, Patterns)
       /\ IsMap(adds, Keys) /\ IsMap(radds, Patterns) /\ base = ImmutableBase(base.entries)
  BY <1>3, <1>4 DEF EdgeInStep
<1>20. IsMap(r.delta_adds, Keys) /\ IsMap(r.delta_rule_adds, Patterns)
  <2>1. CASE m.rule
    BY <1>6, <1>10, <1>11, <1>19, <2>1, PutIsMap
  <2>2. CASE ~m.rule
    BY <1>6, <1>10, <1>11, <1>19, <2>2, PutIsMap
  <2> QED BY <2>1, <2>2
<1>21. /\ DOMAIN r.delta_adds \cap r.delta_removes = {}
       /\ DOMAIN r.delta_rule_adds \cap r.delta_rule_removes = {}
  <2>1. ASSUME NEW map
        PROVE  DOMAIN Put(map, m, m.seq) = IF m.action = "Delete" THEN DOMAIN map \ {m.subject}
                                           ELSE DOMAIN map \cup {m.subject}
    BY DEF Put, With, Without
  <2>2. CASE m.rule
    <3>1. DOMAIN r.delta_adds \cap r.delta_removes = {}
      BY <1>4, <1>10, <1>11, <2>2
    <3>2. DOMAIN r.delta_rule_adds \cap r.delta_rule_removes = {}
      <4>1. PICK d : d = DOMAIN radds /\ d \cap rremoves = {}
        BY <1>4
      <4>2. DOMAIN r.delta_rule_adds = IF m.action = "Delete" THEN d \ {m.subject}
                               ELSE d \cup {m.subject}
        <5>1. r.delta_rule_adds = Put(radds, m, m.seq)
          BY <1>10, <1>11, <2>2
        <5> QED BY <2>1, <4>1, <5>1
      <4>3. r.delta_rule_removes = IF m.action = "Delete" THEN rremoves \cup {m.subject}
                      ELSE rremoves \ {m.subject}
        BY <1>10, <1>11, <2>2
      <4> QED BY <4>1, <4>2, <4>3
    <3> QED BY <3>1, <3>2
  <2>3. CASE ~m.rule
    <3>1. DOMAIN r.delta_adds \cap r.delta_removes = {}
      <4>1. PICK d : d = DOMAIN adds /\ d \cap removes = {}
        BY <1>4
      <4>2. DOMAIN r.delta_adds = IF m.action = "Delete" THEN d \ {m.subject}
                               ELSE d \cup {m.subject}
        <5>1. r.delta_adds = Put(adds, m, m.seq)
          BY <1>10, <1>11, <2>3
        <5> QED BY <2>1, <4>1, <5>1
      <4>3. r.delta_removes = IF m.action = "Delete" THEN removes \cup {m.subject}
                      ELSE removes \ {m.subject}
        BY <1>10, <1>11, <2>3
      <4> QED BY <4>1, <4>2, <4>3
    <3>2. DOMAIN r.delta_rule_adds \cap r.delta_rule_removes = {}
      BY <1>4, <1>10, <1>11, <2>3
    <3> QED BY <3>1, <3>2
  <2> QED BY <1>6, <2>2, <2>3
<1>22. r = edge'
  BY <1>1, <1>2, <1>8, <1>9
<1>23. EdgeInStep'
  <2>1. /\ materialized_entries(edge)' = EntriesThere' /\ materialized_rules(edge)' = RulesThere'
        /\ edge'.base = ImmutableBase(edge.base.entries)'
    BY <1>10, <1>11, <1>12, <1>18, <1>19, <1>22 DEF EntriesThere, RulesThere
  <2>2. /\ IsActiveState(edge)'
        /\ IsMap(edge'.base.entries, Keys) /\ IsMap(edge'.rule_base, Patterns)
        /\ IsMap(edge'.delta_adds, Keys) /\ IsMap(edge'.delta_rule_adds, Patterns)
    BY <1>10, <1>11, <1>19, <1>20, <1>22 DEF IsActiveState
  <2> QED BY <2>1, <2>2 DEF EdgeInStep
<1> QED BY <1>1, <1>3, <1>10, <1>11, <1>12, <1>13, <1>18, <1>21, <1>22, <1>23

(***************************************************************************)
(* The invariant is inductive.                                             *)
(***************************************************************************)

\* An empty source, and an edge that knows nothing.
LEMMA InitEdgeInv == Init => EdgeInv
<1> SUFFICES ASSUME Init PROVE EdgeInv
  OBVIOUS
<1>1. PICK p : p = [s \in Shards |-> 0]
  OBVIOUS
<1>2. /\ history \in [Shards -> Seq(Mutations)]
      /\ \A s \in Shards : Len(history[s]) = 0 /\ 1 .. Len(history[s]) = {}
  BY DEF Init
<1>3. Numbered(history) /\ Reached(history, p)
  BY <1>1, <1>2 DEF Numbered, Reached
<1>4. \A rule : Replica!ViewAt(history, p, rule) = <<>>
  <2>1. ASSUME NEW rule PROVE Replica!ViewAt(history, p, rule) = <<>>
    <3>1. PICK C : C = Replica!Contained(history, p, rule)
      OBVIOUS
    <3>2. C = {}
      <4>1. \A m : m \in C <=> m.rule = rule /\ \E s \in Shards : \E i \in 1 .. p[s] : m = history[s][i]
        BY <3>1, ContainedMeans
      <4>2. \A s \in Shards : 1 .. p[s] = {}
        BY <1>1
      <4> QED BY <4>1, <4>2
    <3>3. Replica!Surviving(history, p, rule) = {}
      BY <3>1, <3>2 DEF Replica!Surviving
    <3>4. PICK view : view = Replica!ViewAt(history, p, rule)
      OBVIOUS
    <3>5. DOMAIN view = {} /\ view = [k \in DOMAIN view |-> view[k]]
      BY <3>3, <3>4 DEF Replica!ViewAt
    <3>6. DOMAIN <<>> = {} /\ <<>> = [k \in DOMAIN <<>> |-> <<>>[k]]
      OBVIOUS
    <3> QED BY <3>4, <3>5, <3>6
  <2> QED BY <2>1
<1>5. IsMap(<<>>, Keys) /\ IsMap(<<>>, Patterns)
  BY EmptyIsMap
<1>6. SourceInStep
  BY <1>1, <1>3, <1>4, <1>5 DEF Init, SourceInStep, IsPrefix
<1>7. RollbackInStep
  BY <1>5 DEF Init, Idle, RollbackInStep
<1>8. PICK base : base = ImmutableBase(<<>>)
  OBVIOUS
<1>9. /\ edge.base = base /\ edge.delta_adds = <<>> /\ edge.delta_removes = {}
      /\ edge.rule_base = <<>> /\ edge.delta_rule_adds = <<>>
      /\ edge.delta_rule_removes = {} /\ edge.watermarks = p
      /\ IsActiveState(edge)
  BY <1>1, <1>5, <1>8, CompiledAsTheyAre DEF Init, ActiveState, IsActiveState
<1>10. base.entries = <<>>
  BY <1>8 DEF ImmutableBase
<1>11. base.bits \subseteq 0 .. base.bit_len - 1 /\ base.bit_len % WordBits = 0
  BY <1>5, <1>8, FilterFits
<1>12. materialized_entries(edge) = EntriesThere /\ materialized_rules(edge) = RulesThere
  <2>1. Materialized(<<>>, <<>>, {}) = <<>>
    BY <1>5, BareBase DEF IsMap, IsFunction
  <2>2. materialized_entries(edge) = <<>> /\ materialized_rules(edge) = <<>>
    BY <1>9, <1>10, <2>1 DEF materialized_entries, materialized_rules
  <2> QED BY <1>4, <1>9, <2>2 DEF EntriesThere, RulesThere
<1>13. EdgeInStep
  BY <1>5, <1>8, <1>9, <1>10, <1>12 DEF EdgeInStep
<1>14. TypeOK
  <2>1. DOMAIN <<>> = {}
    OBVIOUS
  <2>2. \A s \in Shards : source.watermarks[s] = Len(history[s])
    BY <1>2 DEF Init
  <2> QED BY <1>3, <1>9, <1>11, <2>1, <2>2 DEF TypeOK
<1> QED BY <1>6, <1>7, <1>13, <1>14 DEF EdgeInv

\* A step that leaves source, history, archive and rollback alone keeps what is said
\* of them.
LEMMA EdgeMoves ==
  ASSUME EdgeInv, UNCHANGED << source, history, archive, rollback >>,
         EdgeInStep', Reached(history, edge'.watermarks),
         edge'.base.bits \subseteq 0 .. edge'.base.bit_len - 1,
         edge'.base.bit_len % WordBits = 0,
         DOMAIN edge'.delta_adds \cap edge'.delta_removes = {},
         DOMAIN edge'.delta_rule_adds \cap edge'.delta_rule_removes = {}
  PROVE  EdgeInv'
<1>1. SourceInStep'
  BY DEF EdgeInv, SourceInStep, IsPrefix
<1>2. RollbackInStep'
  BY DEF EdgeInv, RollbackInStep
<1>3. TypeOK'
  BY DEF EdgeInv, TypeOK
<1> QED BY <1>1, <1>2, <1>3 DEF EdgeInv

\* A step of the rollback that commits nothing leaves the edge alone.
LEMMA RollbackMoves ==
  ASSUME EdgeInv, UNCHANGED << source, history, edge >>, RollbackInStep',
         \A x \in archive' : IsPrefix(x)
  PROVE  EdgeInv'
<1>1. SourceInStep'
  BY DEF EdgeInv, SourceInStep, IsPrefix
<1>2. EdgeInStep'
  <2>1. EntriesThere' = EntriesThere /\ RulesThere' = RulesThere
    BY DEF EntriesThere, RulesThere
  <2>2. /\ materialized_entries(edge)' = materialized_entries(edge)
        /\ materialized_rules(edge)' = materialized_rules(edge)
        /\ ImmutableBase(edge.base.entries)' = ImmutableBase(edge.base.entries)
    BY DEF materialized_entries, materialized_rules, Materialized, ImmutableBase
  <2> QED BY <2>1, <2>2 DEF EdgeInv, EdgeInStep
<1>3. TypeOK'
  BY DEF EdgeInv, TypeOK
<1> QED BY <1>1, <1>2, <1>3 DEF EdgeInv

\* apply_mutation with its checks for duplicates and gaps.
LEMMA ReceiveKeeps == ASSUME EdgeInv, Receive PROVE EdgeInv'
<1>1. PICK s \in Shards : \E i \in 1 .. Len(history[s]) :
        i = edge.watermarks[s] + 1 /\ edge' = apply_mutation(edge, history[s][i])
  BY DEF Receive
<1>2. PICK i \in 1 .. Len(history[s]) :
        i = edge.watermarks[s] + 1 /\ edge' = apply_mutation(edge, history[s][i])
  BY <1>1
<1>3. history[s] \in Seq(Mutations) /\ edge.watermarks[s] \in Nat
  BY DEF EdgeInv, TypeOK, Numbered, Reached
<1>4. edge.watermarks[s] < Len(history[s])
  BY <1>2, <1>3
<1>5. UNCHANGED << source, history, archive, rollback >>
  BY DEF Receive
<1>6. edge' = apply_mutation(edge, history[s][edge.watermarks[s] + 1])
  BY <1>2
<1>7. /\ EdgeInStep'
      /\ Reached(history, edge'.watermarks)
      /\ edge'.base = edge.base
      /\ DOMAIN edge'.delta_adds \cap edge'.delta_removes = {}
      /\ DOMAIN edge'.delta_rule_adds \cap edge'.delta_rule_removes = {}
  BY <1>4, <1>5, <1>6, ApplyAdvances
<1>8. edge.base.bits \subseteq 0 .. edge.base.bit_len - 1 /\ edge.base.bit_len % WordBits = 0
  BY DEF EdgeInv, TypeOK
<1> QED BY <1>5, <1>7, <1>8, EdgeMoves

\* compact_delta_overlay: what base and overlay show becomes the base.
LEMMA CompactMeans ==
  ASSUME EdgeInv, Compact
  PROVE  /\ EdgeInv'
         /\ edge'.watermarks = edge.watermarks
         /\ materialized_entries(edge') = materialized_entries(edge)
         /\ materialized_rules(edge') = materialized_rules(edge)
<1>1. PICK w, es, rs : /\ w = edge.watermarks
                       /\ es = materialized_entries(edge) /\ rs = materialized_rules(edge)
  OBVIOUS
<1>2. /\ edge' = ActiveState(w, es, rs)
      /\ UNCHANGED << source, history, archive, rollback >>
  BY <1>1 DEF Compact
<1>3. /\ es = Replica!ViewAt(history, w, FALSE) /\ rs = Replica!ViewAt(history, w, TRUE)
      /\ Reached(history, w)
  BY <1>1 DEF EdgeInv, TypeOK, EdgeInStep, EntriesThere, RulesThere
<1>4. IsMap(es, Keys) /\ IsMap(rs, Patterns)
  <2>1. /\ IsMap(edge.base.entries, Keys) /\ IsMap(edge.rule_base, Patterns)
        /\ IsMap(edge.delta_adds, Keys) /\ IsMap(edge.delta_rule_adds, Patterns)
    BY DEF EdgeInv, EdgeInStep
  <2> QED BY <1>1, <2>1, MaterializedIsMap DEF materialized_entries, materialized_rules
<1>5. PICK h : h = history'
  OBVIOUS
<1>6. /\ Reached(history', w) /\ es = Replica!ViewAt(history', w, FALSE)
      /\ rs = Replica!ViewAt(history', w, TRUE)
  BY <1>2, <1>3
<1>7. /\ EdgeInStep'
      /\ edge'.watermarks = w
      /\ materialized_entries(edge') = es /\ materialized_rules(edge') = rs
      /\ edge'.base.bits \subseteq 0 .. edge'.base.bit_len - 1
      /\ edge'.base.bit_len % WordBits = 0
      /\ DOMAIN edge'.delta_adds \cap edge'.delta_removes = {}
      /\ DOMAIN edge'.delta_rule_adds \cap edge'.delta_rule_removes = {}
  BY <1>2, <1>4, <1>6, FreshEdge
<1>8. EdgeInv'
  BY <1>2, <1>3, <1>7, EdgeMoves
<1> QED BY <1>1, <1>7, <1>8

\* A repair leaves the edge at the position of an archived snapshot.
LEMMA RepairMeans ==
  ASSUME EdgeInv, NEW x \in archive,
         edge' = ActiveState(x.watermarks, x.entries, x.rules),
         UNCHANGED << source, history, archive, rollback >>
  PROVE  /\ EdgeInv'
         /\ edge'.watermarks = x.watermarks
         /\ materialized_entries(edge') = Replica!ViewAt(history, x.watermarks, FALSE)
         /\ materialized_rules(edge') = Replica!ViewAt(history, x.watermarks, TRUE)
<1>1. PICK w, es, rs : w = x.watermarks /\ es = x.entries /\ rs = x.rules
  OBVIOUS
<1>2. IsPrefix(x)
  BY DEF EdgeInv, SourceInStep
<1>3. /\ es = Replica!ViewAt(history, w, FALSE) /\ rs = Replica!ViewAt(history, w, TRUE)
      /\ Reached(history, w) /\ IsMap(es, Keys) /\ IsMap(rs, Patterns)
  BY <1>1, <1>2 DEF IsPrefix
<1>4. edge' = ActiveState(w, es, rs)
  BY <1>1
<1>5. /\ Reached(history', w) /\ es = Replica!ViewAt(history', w, FALSE)
      /\ rs = Replica!ViewAt(history', w, TRUE)
  BY <1>3
<1>6. /\ EdgeInStep'
      /\ edge'.watermarks = w
      /\ materialized_entries(edge') = es /\ materialized_rules(edge') = rs
      /\ edge'.base.bits \subseteq 0 .. edge'.base.bit_len - 1
      /\ edge'.base.bit_len % WordBits = 0
      /\ DOMAIN edge'.delta_adds \cap edge'.delta_removes = {}
      /\ DOMAIN edge'.delta_rule_adds \cap edge'.delta_rule_removes = {}
  BY <1>3, <1>4, <1>5, FreshEdge
<1>7. EdgeInv'
  BY <1>3, <1>6, EdgeMoves
<1> QED BY <1>1, <1>3, <1>6, <1>7

\* Every action keeps the invariant.
LEMMA NextEdgeInv == EdgeInv /\ [Next]_vars => EdgeInv'
<1> SUFFICES ASSUME EdgeInv, [Next]_vars PROVE EdgeInv'
  OBVIOUS
<1>1. CASE Commit
  <2>1. PICK r \in EntryRequests :
          /\ CommitChange(Change(FALSE, r.key, r.action, r.priority, r.expires_at))
          /\ rollback' = Idle /\ edge' = edge
    BY <1>1 DEF Commit
  <2> QED BY <2>1, RequestsAreChanges, CommitKeeps
<1>2. CASE CommitRule
  <2>1. PICK r \in RuleRequests :
          /\ compile_rule_pattern(r.raw) # Invalid
          /\ CommitChange(Change(TRUE, compile_rule_pattern(r.raw), r.action, r.priority,
                                 r.expires_at))
          /\ rollback' = Idle /\ edge' = edge
    BY <1>2 DEF CommitRule
  <2> QED BY <2>1, RequestsAreChanges, CommitKeeps
<1>3. CASE RollbackBegin
  <2>1. PICK x \in archive :
          rollback' = [stage |-> "running", target |-> [entries |-> x.entries, rules |-> x.rules]]
    BY <1>3 DEF RollbackBegin
  <2>2. UNCHANGED << source, history, archive, edge >>
    BY <1>3 DEF RollbackBegin
  <2>3. IsMap(x.entries, Keys) /\ IsMap(x.rules, Patterns)
    BY DEF EdgeInv, SourceInStep, IsPrefix
  <2>4. RollbackInStep'
    BY <2>1, <2>2, <2>3 DEF EdgeInv, RollbackInStep, SnapshotOf
  <2> QED BY <2>2, <2>4, RollbackMoves DEF EdgeInv, SourceInStep
<1>4. CASE RollbackStep
  <2>1. PICK c \in RestoreNext(source, rollback.target) : CommitChange(c)
    BY <1>4 DEF RollbackStep
  <2>2. rollback' = rollback /\ rollback.stage # "done" /\ edge' = edge
    BY <1>4 DEF RollbackStep
  <2> QED BY <2>1, <2>2, RestoresAreChanges, CommitKeeps
<1>5. CASE RollbackFails
  <2>1. UNCHANGED << source, history, archive, edge >> /\ rollback' = Idle
        /\ rollback.stage = "running"
    BY <1>5 DEF RollbackFails
  <2>2. RollbackInStep'
    BY <2>1, EmptyIsMap DEF EdgeInv, RollbackInStep, Idle, SnapshotOf
  <2> QED BY <2>1, <2>2, RollbackMoves DEF EdgeInv, SourceInStep
<1>6. CASE RollbackDone
  <2>1. /\ UNCHANGED << source, history, edge >> /\ rollback.stage = "running"
        /\ RestoreNext(source, rollback.target) = {}
        /\ rollback' = [rollback EXCEPT !.stage = "done"]
        /\ archive' = archive \cup {SnapshotOf(source)}
    BY <1>6 DEF RollbackDone
  <2>2. archive' = archive
    BY <2>1 DEF EdgeInv, RollbackInStep
  <2>3. rollback'.target = rollback.target /\ rollback'.stage \in {"idle", "running", "done"}
    BY <2>1
  <2>4. RollbackInStep'
    BY <2>1, <2>2, <2>3 DEF EdgeInv, RollbackInStep, SnapshotOf
  <2> QED BY <2>1, <2>2, <2>4, RollbackMoves DEF EdgeInv, SourceInStep
<1>7. CASE Receive
  BY <1>7, ReceiveKeeps
<1>8. CASE Compact
  BY <1>8, CompactMeans
<1>9. CASE Repair
  <2>1. PICK x \in archive : edge' = ActiveState(x.watermarks, x.entries, x.rules)
    BY <1>9 DEF Repair
  <2> QED BY <1>9, <2>1, RepairMeans DEF Repair
<1>10. CASE UNCHANGED vars
  <2>1. /\ UNCHANGED << source, history, archive, rollback, edge >>
    BY <1>10 DEF vars
  <2>2. RollbackInStep'
    BY <2>1 DEF EdgeInv, RollbackInStep, SnapshotOf
  <2> QED BY <2>1, <2>2, RollbackMoves DEF EdgeInv, SourceInStep
<1> QED BY <1>1, <1>2, <1>3, <1>4, <1>5, <1>6, <1>7, <1>8, <1>9, <1>10 DEF Next

\* Source, archived snapshots and edge are at every moment what a prefix of the
\* mutation stream leaves, whatever is delivered, compacted, repaired or rolled back.
THEOREM EdgeInvariant == Spec => []EdgeInv
  BY InitEdgeInv, NextEdgeInv, PTL DEF Spec

(***************************************************************************)
(* The refinement                                                          *)
(***************************************************************************)

\* A commit is a step of the abstract source.
LEMMA CommitIsGrow ==
  ASSUME EdgeInv, NEW c, IsChange(c), CommitChange(c), edge' = edge
  PROVE  Replica!Grow
<1>1. PICK s : s = ShardOf(c.subject)
  OBVIOUS
<1>2. s \in Shards
  BY <1>1, NextMutationMeans
<1>3. PICK m : m = NextMutation(c)
  OBVIOUS
<1>4. /\ history'[s] = Append(history[s], m)
      /\ \A t \in Shards \ {s} : history'[t] = history[t]
      /\ history[s] \in Seq(Mutations) /\ m \in Mutations
  BY <1>1, <1>2, <1>3, CommitGrows, NextMutationMeans DEF Grown, Numbered
<1>5. PICK old, new : old = history[s] /\ new = history'[s]
  OBVIOUS
<1>6. new = Append(old, m) /\ old \in Seq(Mutations)
  BY <1>4, <1>5
<1>7. Len(new) = Len(old) + 1 /\ SubSeq(new, 1, Len(old)) = old
  BY <1>4, <1>6
<1>8. archive \subseteq archive'
  BY DEF CommitChange
<1>9. {x.watermarks : x \in archive} \subseteq {x.watermarks : x \in archive'}
  BY <1>8
<1>10. /\ materialized_entries(edge)' = materialized_entries(edge)
       /\ materialized_rules(edge)' = materialized_rules(edge)
       /\ edge.watermarks' = edge.watermarks
  BY DEF materialized_entries, materialized_rules, Materialized
<1> QED BY <1>2, <1>4, <1>5, <1>7, <1>9, <1>10 DEF Replica!Grow

\* Every step of the program is one of the abstract replica, or shows nothing new.
LEMMA NextRefines == EdgeInv /\ [Next]_vars => [Replica!Next]_(Replica!vars)
<1> SUFFICES ASSUME EdgeInv, [Next]_vars PROVE [Replica!Next]_(Replica!vars)
  OBVIOUS
<1>1. ASSUME UNCHANGED << history, archive, edge >> PROVE UNCHANGED Replica!vars
  <2>1. /\ materialized_entries(edge)' = materialized_entries(edge)
        /\ materialized_rules(edge)' = materialized_rules(edge)
        /\ edge.watermarks' = edge.watermarks
    BY <1>1 DEF materialized_entries, materialized_rules, Materialized
  <2>2. {x.watermarks : x \in archive}' = {x.watermarks : x \in archive}
    BY <1>1
  <2> QED BY <1>1, <2>1, <2>2 DEF Replica!vars
<1>2. CASE Commit \/ CommitRule \/ RollbackStep
  <2>1. PICK c : IsChange(c) /\ CommitChange(c) /\ edge' = edge
    <3>1. CASE Commit
      BY <3>1, RequestsAreChanges DEF Commit
    <3>2. CASE CommitRule
      BY <3>2, RequestsAreChanges DEF CommitRule
    <3>3. CASE RollbackStep
      BY <3>3, RestoresAreChanges DEF RollbackStep
    <3> QED BY <1>2, <3>1, <3>2, <3>3
  <2> QED BY <2>1, CommitIsGrow DEF Replica!Next
<1>3. CASE RollbackBegin \/ RollbackFails
  BY <1>1, <1>3 DEF RollbackBegin, RollbackFails
<1>4. CASE RollbackDone
  <2>1. archive' = archive
    BY <1>4 DEF RollbackDone, EdgeInv, RollbackInStep
  <2> QED BY <1>1, <1>4, <2>1 DEF RollbackDone
<1>5. CASE Receive
  <2>1. PICK s \in Shards : \E i \in 1 .. Len(history[s]) :
          i = edge.watermarks[s] + 1 /\ edge' = apply_mutation(edge, history[s][i])
    BY <1>5 DEF Receive
  <2>2. PICK i \in 1 .. Len(history[s]) :
          i = edge.watermarks[s] + 1 /\ edge' = apply_mutation(edge, history[s][i])
    BY <2>1
  <2>3. history[s] \in Seq(Mutations) /\ edge.watermarks[s] \in Nat
    BY DEF EdgeInv, TypeOK, Numbered, Reached
  <2>4. edge.watermarks[s] < Len(history[s])
    BY <2>2, <2>3
  <2>5. UNCHANGED << history, archive >>
    BY <1>5 DEF Receive
  <2>6. edge' = apply_mutation(edge, history[s][edge.watermarks[s] + 1])
    BY <2>2
  <2>7. EdgeInStep' /\ edge'.watermarks = [edge.watermarks EXCEPT ![s] = edge.watermarks[s] + 1]
    BY <2>4, <2>5, <2>6, ApplyAdvances
  <2>8. PICK q : q = [edge.watermarks EXCEPT ![s] = edge.watermarks[s] + 1]
    OBVIOUS
  <2>9. /\ edge.watermarks' = q
        /\ materialized_entries(edge)' = Replica!ViewAt(history, q, FALSE)
        /\ materialized_rules(edge)' = Replica!ViewAt(history, q, TRUE)
    BY <2>5, <2>7, <2>8 DEF EdgeInStep, EntriesThere, RulesThere
  <2>10. {x.watermarks : x \in archive}' = {x.watermarks : x \in archive}
    BY <2>5
  <2>11. Replica!MoveTo(q)
    BY <2>5, <2>9, <2>10 DEF Replica!MoveTo
  <2>12. Replica!Advance
    BY <2>4, <2>8, <2>11 DEF Replica!Advance
  <2> QED BY <2>12 DEF Replica!Next
<1>6. CASE Compact
  <2>1. /\ edge.watermarks' = edge.watermarks
        /\ materialized_entries(edge)' = materialized_entries(edge)
        /\ materialized_rules(edge)' = materialized_rules(edge)
    BY <1>6, CompactMeans
  <2>2. UNCHANGED << history, archive >>
    BY <1>6 DEF Compact
  <2>3. {x.watermarks : x \in archive}' = {x.watermarks : x \in archive}
    BY <2>2
  <2> QED BY <2>1, <2>2, <2>3 DEF Replica!vars
<1>7. CASE Repair
  <2>1. PICK x \in archive : edge' = ActiveState(x.watermarks, x.entries, x.rules)
    BY <1>7 DEF Repair
  <2>2. UNCHANGED << source, history, archive, rollback >>
    BY <1>7 DEF Repair
  <2>3. PICK p : p = x.watermarks
    OBVIOUS
  <2>4. /\ edge.watermarks' = p
        /\ materialized_entries(edge)' = Replica!ViewAt(history, p, FALSE)
        /\ materialized_rules(edge)' = Replica!ViewAt(history, p, TRUE)
    BY <2>1, <2>2, <2>3, RepairMeans
  <2>5. {y.watermarks : y \in archive}' = {y.watermarks : y \in archive}
    BY <2>2
  <2>6. Replica!MoveTo(p)
    BY <2>2, <2>4, <2>5 DEF Replica!MoveTo
  <2>7. p \in {y.watermarks : y \in archive}
    BY <2>3
  <2> QED BY <2>6, <2>7 DEF Replica!Next, Replica!Jump
<1>8. CASE UNCHANGED vars
  BY <1>1, <1>8 DEF vars
<1> QED BY <1>2, <1>3, <1>4, <1>5, <1>6, <1>7, <1>8 DEF Next

\* The edge implements the abstract replica: at every moment base and overlay
\* together are exactly what a prefix of every shard's mutations leaves.
THEOREM EdgeIsReplica == Spec => ImplementsReplica
<1>1. Init => Replica!Init
  <2> SUFFICES ASSUME Init PROVE Replica!Init
    OBVIOUS
  <2>1. EdgeInv
    BY InitEdgeInv
  <2>2. /\ materialized_entries(edge) = Replica!ViewAt(history, edge.watermarks, FALSE)
        /\ materialized_rules(edge) = Replica!ViewAt(history, edge.watermarks, TRUE)
    BY <2>1 DEF EdgeInv, EdgeInStep, EntriesThere, RulesThere
  <2>3. {x.watermarks : x \in archive} = {}
    BY DEF Init
  <2>4. edge.watermarks = [s \in Shards |-> 0] /\ history = [s \in Shards |-> <<>>]
    BY DEF Init, ActiveState
  <2> QED BY <2>2, <2>3, <2>4 DEF Replica!Init
<1> QED BY <1>1, NextRefines, EdgeInvariant, PTL DEF Spec, ImplementsReplica, Replica!Spec

(***************************************************************************)
(* Lookups and checks                                                      *)
(***************************************************************************)

\* lookup at the edge is the lookup in what base and overlay show: the filter has the
\* bits of every key of the base.
LEMMA LookupInView ==
  ASSUME EdgeInv, NEW q, NEW now
  PROVE  EdgeLookup(edge, q, now) = LookupIn(EntriesThere, q, now)
<1>1. PICK base, adds, removes :
        base = edge.base /\ adds = edge.delta_adds /\ removes = edge.delta_removes
  OBVIOUS
<1>2. PICK map, view : map = base.entries /\ view = EntriesThere
  OBVIOUS
<1>3. view = Materialized(map, adds, removes)
  BY <1>1, <1>2 DEF EdgeInv, EdgeInStep, materialized_entries
<1>4. /\ DOMAIN view = (DOMAIN map \ removes) \cup DOMAIN adds
      /\ \A k \in DOMAIN view : view[k] = IF k \in DOMAIN adds THEN adds[k] ELSE map[k]
  BY <1>3 DEF Materialized
<1>5. IsMap(map, Keys) /\ base = ImmutableBase(map)
  BY <1>1, <1>2 DEF EdgeInv, EdgeInStep
<1>6. \A k \in DOMAIN map : may_contain(base, k)
  BY <1>5, FilterFits
<1>7. decision_for_parts(base, q, now) =
        IF q \in DOMAIN map THEN decision_for_entry(map[q], now) ELSE Allow
  BY <1>2, <1>6 DEF decision_for_parts
<1>8. LookupIn(view, q, now) =
        IF q \in DOMAIN view THEN decision_for_entry(view[q], now) ELSE Allow
  BY DEF LookupIn
<1>9. CASE q \in DOMAIN adds
  <2>1. EdgeLookup(edge, q, now) = decision_for_entry(adds[q], now)
    BY <1>1, <1>9 DEF EdgeLookup
  <2> QED BY <1>2, <1>4, <1>8, <1>9, <2>1
<1>10. CASE q \notin DOMAIN adds /\ q \in removes
  <2>1. EdgeLookup(edge, q, now) = Allow
    BY <1>1, <1>10 DEF EdgeLookup
  <2> QED BY <1>2, <1>4, <1>8, <1>10, <2>1
<1>11. CASE q \notin DOMAIN adds /\ q \notin removes
  <2>1. EdgeLookup(edge, q, now) = decision_for_parts(base, q, now)
    BY <1>1, <1>11 DEF EdgeLookup
  <2> QED BY <1>2, <1>4, <1>7, <1>8, <1>11, <2>1
<1> QED BY <1>9, <1>10, <1>11

\* entries_len counts what there is: the masked entries of the base are those the
\* overlay removes and does not add again.
LEMMA LenCounts ==
  ASSUME EdgeInv
  PROVE  entries_len(edge) = Cardinality(DOMAIN EntriesThere)
<1>1. PICK b, a, r : /\ b = DOMAIN edge.base.entries /\ a = DOMAIN edge.delta_adds
                     /\ r = edge.delta_removes
  OBVIOUS
<1>2. IsFiniteSet(a) /\ IsFiniteSet(b)
  BY <1>1 DEF EdgeInv, EdgeInStep, IsMap
<1>3. PICK masked, added, kept : /\ masked = {k \in r : k \in b /\ k \notin a}
                                 /\ added = a \ b /\ kept = b \ masked
  OBVIOUS
<1>4. DOMAIN EntriesThere = kept \cup added
  <2>1. EntriesThere = Materialized(edge.base.entries, edge.delta_adds, edge.delta_removes)
    BY DEF EdgeInv, EdgeInStep, materialized_entries
  <2>2. DOMAIN EntriesThere = (b \ r) \cup a
    BY <1>1, <2>1 DEF Materialized
  <2> QED BY <1>3, <2>2
<1>5. entries_len(edge) = Cardinality(b) - Cardinality(masked) + Cardinality(added)
  BY <1>1, <1>3 DEF entries_len
<1>6. masked \in SUBSET b /\ added \in SUBSET a
  BY <1>3
<1>7. IsFiniteSet(masked) /\ IsFiniteSet(added)
  BY <1>2, <1>6, FS_Subset
<1>8. /\ IsFiniteSet(kept)
      /\ Cardinality(kept) = Cardinality(b) - Cardinality(b \cap masked)
  BY <1>2, <1>3, <1>7, FS_Difference
<1>9. b \cap masked = masked /\ kept \cap added = {}
  BY <1>3, <1>6
<1>10. Cardinality(kept \cup added) = Cardinality(kept) + Cardinality(added) - Cardinality({})
  BY <1>7, <1>8, <1>9, FS_Union
<1>11. /\ Cardinality(b) \in Nat /\ Cardinality(masked) \in Nat /\ Cardinality(added) \in Nat
       /\ Cardinality(kept) \in Nat /\ Cardinality({}) = 0
  BY <1>2, <1>7, <1>8, FS_CardinalityType, FS_EmptySet
<1> QED BY <1>4, <1>5, <1>8, <1>9, <1>10, <1>11

\* A lookup at the edge decides as the source of truth after the same mutations, and
\* entries_len is the number of entries.
THEOREM LookupsAgree == Spec => []LookupAgrees
<1>1. EdgeInv => LookupAgrees
  BY LookupInView, LenCounts DEF LookupAgrees
<1> QED BY <1>1, EdgeInvariant, PTL

\* The buckets of the base's rules hold the rules that match, one by one.
LEMMA BucketsMatch ==
  ASSUME NEW map, IsMap(map, Patterns), NEW q
  PROVE  BaseMatches(map, q) = {p \in DOMAIN map : rule_matches_namespace(p, q)}
<1>1. ASSUME NEW p \in DOMAIN map
      PROVE  /\ p.kind = "Ipv4Cidr" => p.prefix_len \in 0 .. AddrBits
             /\ p.kind \in {"Ipv4Cidr", "DomainSuffix"}
  <2>1. PICK r \in RuleRequests : p = compile_rule_pattern(r.raw) /\ p # Invalid
    BY DEF IsMap, Patterns
  <2>2. r.raw.kind \in {"Ipv4Cidr", "DomainSuffix"} /\ r.raw.prefix_len \in Nat
    BY RequestAssumption
  <2>3. AddrBits \in Nat
    BY AddrBitsAssumption
  <2>4. CASE r.raw.kind = "Ipv4Cidr"
    <3>1. /\ ~(r.raw.prefix_len > AddrBits)
          /\ p.kind = "Ipv4Cidr" /\ p.prefix_len = r.raw.prefix_len
      BY <2>1, <2>4 DEF compile_rule_pattern
    <3> QED BY <2>2, <2>3, <3>1
  <2>5. CASE r.raw.kind = "DomainSuffix"
    <3>1. p.kind = "DomainSuffix"
      BY <2>1, <2>5 DEF compile_rule_pattern
    <3> QED BY <3>1
  <2> QED BY <2>2, <2>4, <2>5
<1>2. ASSUME NEW p \in DOMAIN map
      PROVE  p \in BaseMatches(map, q) <=> rule_matches_namespace(p, q)
  <2>1. CASE p.kind = "Ipv4Cidr"
    BY <1>1, <2>1 DEF BaseMatches, rule_matches_namespace
  <2>2. CASE p.kind = "DomainSuffix"
    BY <2>2 DEF BaseMatches, rule_matches_namespace
  <2> QED BY <1>1, <2>1, <2>2
<1>3. BaseMatches(map, q) \subseteq DOMAIN map
  BY DEF BaseMatches
<1> QED BY <1>2, <1>3

\* A check at the edge decides as the source of truth after the same mutations, as
\* long as the overlay has replaced no rule of the base.
THEOREM ChecksAgree == Spec => []CheckAgreesUnlessReplaced
<1>1. ASSUME EdgeInv, Replaced = {}, NEW q \in Queries, NEW now \in Times
      PROVE  EdgeCheck(edge, q, now) = CheckIn(EntriesThere, RulesThere, q, now)
  <2>1. PICK base, adds, removes, view :
          /\ base = edge.rule_base /\ adds = edge.delta_rule_adds
          /\ removes = edge.delta_rule_removes /\ view = RulesThere
    OBVIOUS
  <2>2. view = Materialized(base, adds, removes)
    BY <1>1, <2>1 DEF EdgeInv, EdgeInStep, materialized_rules
  <2>3. /\ DOMAIN view = (DOMAIN base \ removes) \cup DOMAIN adds
        /\ \A k \in DOMAIN view : view[k] = IF k \in DOMAIN adds THEN adds[k] ELSE base[k]
    BY <2>2 DEF Materialized
  <2>4. DOMAIN adds \cap DOMAIN base = {}
    BY <1>1, <2>1 DEF Replaced
  <2>5. IsMap(base, Patterns)
    BY <1>1, <2>1 DEF EdgeInv, EdgeInStep
  <2>6. PICK match : match = {p \in DOMAIN base \cup DOMAIN adds : rule_matches_namespace(p, q)}
    OBVIOUS
  <2>7. DeltaMatches(edge, q) = match \cap DOMAIN adds
    BY <2>1, <2>6 DEF DeltaMatches
  <2>8. BaseMatches(base, q) = match \cap DOMAIN base
    <3>1. BaseMatches(base, q) = {p \in DOMAIN base : rule_matches_namespace(p, q)}
      BY <2>5, BucketsMatch
    <3> QED BY <2>6, <3>1
  <2>9. PICK here, there :
          /\ here = {adds[p] : p \in match \cap DOMAIN adds}
                      \cup {base[p] : p \in (match \cap DOMAIN base) \ removes}
          /\ there = {view[p] : p \in match \cap DOMAIN view}
    OBVIOUS
  <2>10. here = there
    <3>1. \A x \in here : x \in there
      BY <2>3, <2>4, <2>9
    <3>2. \A x \in there : x \in here
      BY <2>3, <2>9
    <3> QED BY <3>1, <3>2
  <2>11. {p \in DOMAIN view : rule_matches_namespace(p, q)} = match \cap DOMAIN view
    BY <2>3, <2>6
  <2>12. EdgeCheck(edge, q, now) =
           IF EdgeLookup(edge, q, now).denied THEN EdgeLookup(edge, q, now)
           ELSE BestRule(here, now)
    BY <2>1, <2>7, <2>8, <2>9 DEF EdgeCheck
  <2>13. CheckIn(EntriesThere, view, q, now) =
           IF LookupIn(EntriesThere, q, now).denied THEN LookupIn(EntriesThere, q, now)
           ELSE BestRule(there, now)
    BY <2>9, <2>11 DEF CheckIn
  <2>14. EdgeLookup(edge, q, now) = LookupIn(EntriesThere, q, now)
    BY <1>1, LookupInView
  <2> QED BY <2>1, <2>10, <2>12, <2>13, <2>14
<1>2. EdgeInv => CheckAgreesUnlessReplaced
  BY <1>1 DEF CheckAgreesUnlessReplaced
<1> QED BY <1>2, EdgeInvariant, PTL

(***************************************************************************)
(* Rollback                                                                *)
(***************************************************************************)

\* compare_rules_for_match is a strict order; of two rules that it leaves in a tie,
\* priority and action are the same.
LEMMA OutranksOrders ==
  /\ \A r \in Entries : ~Outranks(r, r)
  /\ \A q, r, t \in Entries : Outranks(q, r) /\ Outranks(r, t) => Outranks(q, t)
<1>1. \A r \in Entries : r.priority \in Nat /\ action_rank(r.action) \in Nat /\ r.commit_seq \in Nat
  BY DEF Entries, Actions, action_rank
<1>2. \A r \in Entries : ~Outranks(r, r)
  BY <1>1 DEF Outranks
<1>3. ASSUME NEW q \in Entries, NEW r \in Entries, NEW t \in Entries, Outranks(q, r), Outranks(r, t)
      PROVE  Outranks(q, t)
  BY <1>1, <1>3 DEF Outranks
<1> QED BY <1>2, <1>3

\* Of finitely many rules some are outranked by none: RuleMatch finds a best one.
LEMMA BestExists ==
  ASSUME NEW S, IsFiniteSet(S), S \subseteq Entries, S # {}
  PROVE  \E b \in S : \A o \in S : ~Outranks(o, b)
<1> DEFINE Bad == {U \in SUBSET S : U # {} /\ \A x \in U : \E o \in U : Outranks(o, x)}
<1>1. SUFFICES ASSUME S \in Bad PROVE FALSE
  OBVIOUS
<1>2. IsWellFoundedOn(StrictSubsetOrdering(S), FiniteSubsetsOf(S))
  BY FS_StrictSubsetOrderingWellFounded
<1>3. Bad \subseteq FiniteSubsetsOf(S)
  BY FS_FiniteSubsetsOfFinite
<1> HIDE DEF Bad
<1>4. PICK U \in Bad : \A V \in Bad : ~ (<< V, U >> \in StrictSubsetOrdering(S))
  BY <1>1, <1>2, <1>3, WFMin
<1>5. U \subseteq S /\ U # {} /\ \A x \in U : \E o \in U : Outranks(o, x)
  BY <1>4 DEF Bad
<1>6. PICK x \in U : TRUE
  BY <1>5
<1>7. PICK V : V = U \ {x}
  OBVIOUS
<1>8. V \notin Bad
  BY <1>4, <1>5, <1>6, <1>7 DEF StrictSubsetOrdering
<1>9. PICK o \in U : Outranks(o, x)
  BY <1>5, <1>6
<1>10. o # x
  BY <1>5, <1>6, <1>9, OutranksOrders
<1>11. PICK y \in V : \A z \in V : ~Outranks(z, y)
  BY <1>5, <1>7, <1>8, <1>9, <1>10 DEF Bad
<1>12. PICK z \in U : Outranks(z, y)
  BY <1>5, <1>7, <1>11
<1>13. z = x
  BY <1>7, <1>11, <1>12
<1>14. Outranks(o, y)
  BY <1>5, <1>7, <1>9, <1>11, <1>12, <1>13, OutranksOrders
<1> QED BY <1>7, <1>9, <1>10, <1>11, <1>14

\* What two decisions have in common when only sequence numbers differ.
SameDecision(d, e) == d.denied = e.denied /\ d.priority = e.priority

\* Two maps between which a rollback finds nothing to do hold the same, but for the
\* sequence numbers.
Alike(f, g) ==
    DOMAIN f = DOMAIN g /\ \A k \in DOMAIN f : SemanticallyEqual(f[k], g[k])

LEMMA NothingToRestore ==
  ASSUME NEW rule, NEW f, NEW g,
         RestoreDeletes(rule, f, g) = {}, RestoreWrites(rule, f, g) = {}
  PROVE  Alike(f, g)
<1>1. DOMAIN f \subseteq DOMAIN g
  <2>1. \A k \in DOMAIN f \ DOMAIN g :
          Change(rule, k, "Delete", f[k].priority, 0) \in RestoreDeletes(rule, f, g)
    BY DEF RestoreDeletes
  <2> QED BY <2>1
<1>2. ASSUME NEW k \in DOMAIN g
      PROVE  k \in DOMAIN f /\ SemanticallyEqual(f[k], g[k])
  <2> DEFINE Write(x) == Change(rule, x, g[x].action, g[x].priority, g[x].expires_at)
             Left == {x \in DOMAIN g : IF x \in DOMAIN f THEN ~SemanticallyEqual(f[x], g[x])
                                       ELSE TRUE}
  <2>1. RestoreWrites(rule, f, g) = {Write(x) : x \in Left}
    BY DEF RestoreWrites
  <2> HIDE DEF Write
  <2>2. Left = {}
    <3> HIDE DEF Left
    <3>1. \A x \in Left : Write(x) \in {Write(y) : y \in Left}
      OBVIOUS
    <3> QED BY <2>1, <3>1
  <2>3. CASE k \in DOMAIN f /\ SemanticallyEqual(f[k], g[k])
    BY <2>3
  <2>4. CASE k \notin DOMAIN f
    <3>1. k \in Left
      BY <2>4
    <3> QED BY <2>2, <3>1
  <2>5. CASE k \in DOMAIN f /\ ~SemanticallyEqual(f[k], g[k])
    <3>1. k \in Left
      BY <2>5
    <3> QED BY <2>2, <3>1
  <2> QED BY <2>3, <2>4, <2>5
<1> QED BY <1>1, <1>2 DEF Alike

\* Entries that are semantically equal decide alike.
LEMMA AlikeEntries ==
  ASSUME NEW l, NEW r, SemanticallyEqual(l, r), NEW now
  PROVE  /\ is_expired(l, now) <=> is_expired(r, now)
         /\ SameDecision(decision_for_entry(l, now), decision_for_entry(r, now))
<1>1. is_expired(l, now) <=> is_expired(r, now)
  BY DEF is_expired, SemanticallyEqual
<1>2. SameDecision(decision_for_entry(l, now), decision_for_entry(r, now))
  BY <1>1 DEF SemanticallyEqual, SameDecision, decision_for_entry, DenyBy, Allow
<1> QED BY <1>1, <1>2

\* What map f has under the keys of K.
Values(f, K) == {f[k] : k \in K}

\* The best rule of a nonempty set of live rules.
BestOf(live, b) == b \in live /\ \A o \in live : ~Outranks(o, b)

\* Sets of rules that are alike have best rules that are alike: renumbering breaks
\* ties another way, but only among rules of one priority and one action.
LEMMA AlikeBest ==
  ASSUME NEW K, NEW f, NEW g, \A k \in K : f[k] \in Entries /\ g[k] \in Entries,
         \A k \in K : SemanticallyEqual(f[k], g[k]),
         NEW b, BestOf(Values(f, K), b), NEW c, BestOf(Values(g, K), c)
  PROVE  b.priority = c.priority /\ b.action = c.action
<1>1. PICK i \in K : b = f[i]
  BY DEF BestOf, Values
<1>2. PICK j \in K : c = g[j]
  BY DEF BestOf, Values
<1>3. ~Outranks(f[j], f[i]) /\ ~Outranks(g[i], g[j])
  BY <1>1, <1>2 DEF BestOf, Values
<1>4. /\ f[i].priority = g[i].priority /\ f[i].action = g[i].action
      /\ f[j].priority = g[j].priority /\ f[j].action = g[j].action
  BY DEF SemanticallyEqual
<1>5. /\ f[i].priority \in Nat /\ f[j].priority \in Nat
      /\ action_rank(f[i].action) \in Nat /\ action_rank(f[j].action) \in Nat
      /\ f[i].action \in {"Deny", "AllowOverride"} /\ f[j].action \in {"Deny", "AllowOverride"}
  BY DEF Entries, Actions, action_rank
<1>6. ~(f[j].priority > f[i].priority) /\ ~(g[i].priority > g[j].priority)
  BY <1>3 DEF Outranks
<1>7. f[i].priority = f[j].priority
  BY <1>4, <1>5, <1>6
<1>8. /\ ~(action_rank(f[j].action) > action_rank(f[i].action))
      /\ ~(action_rank(g[i].action) > action_rank(g[j].action))
  BY <1>3, <1>4, <1>7 DEF Outranks
<1>9. action_rank(f[i].action) = action_rank(f[j].action)
  BY <1>4, <1>5, <1>8
<1>10. f[i].action = f[j].action
  BY <1>5, <1>9 DEF action_rank
<1> QED BY <1>1, <1>2, <1>4, <1>7, <1>10

\* Finitely many keys have finitely many values.
LEMMA ValuesFinite ==
  ASSUME NEW K, IsFiniteSet(K), NEW f
  PROVE  IsFiniteSet(Values(f, K))
<1>1. PICK g : g = [k \in K |-> f[k]]
  OBVIOUS
<1>2. g \in [K -> Values(f, K)] /\ \A k \in K : g[k] = f[k]
  BY <1>1 DEF Values
<1>3. \A x \in Values(f, K) : \E k \in K : g[k] = x
  BY <1>2 DEF Values
<1>4. g \in Surjection(K, Values(f, K))
  BY <1>2, <1>3 DEF Surjection
<1> QED BY <1>4, FS_Surjection

\* BestRule answers with a rule that no live rule outranks.
LEMMA BestRuleMeans ==
  ASSUME NEW R, NEW now, NEW live, live = {r \in R : ~is_expired(r, now)},
         IsFiniteSet(live), live \subseteq Entries, live # {}
  PROVE  \E b : /\ BestOf(live, b)
                /\ BestRule(R, now) = IF b.action = "Deny" THEN DenyBy(b) ELSE Allow
<1>1. \E b \in live : \A o \in live : ~Outranks(o, b)
  BY BestExists
<1>2. PICK b : b = CHOOSE r \in live : \A o \in live : ~Outranks(o, r)
  OBVIOUS
<1>3. BestOf(live, b)
  BY <1>1, <1>2 DEF BestOf
<1>4. BestRule(R, now) = IF b.action = "Deny" THEN DenyBy(b) ELSE Allow
  BY <1>2 DEF BestRule
<1> QED BY <1>3, <1>4

\* Sets of rules that are alike decide alike, although every rule restored has a new
\* sequence number.
LEMMA AlikeRules ==
  ASSUME NEW K, IsFiniteSet(K), NEW f, NEW g, NEW now,
         \A k \in K : f[k] \in Entries /\ g[k] \in Entries,
         \A k \in K : SemanticallyEqual(f[k], g[k])
  PROVE  SameDecision(BestRule(Values(f, K), now), BestRule(Values(g, K), now))
<1>1. PICK L : L = {k \in K : ~is_expired(f[k], now)}
  OBVIOUS
<1>2. \A k \in K : is_expired(f[k], now) <=> is_expired(g[k], now)
  BY AlikeEntries
<1>3. /\ Values(f, L) = {r \in Values(f, K) : ~is_expired(r, now)}
      /\ Values(g, L) = {r \in Values(g, K) : ~is_expired(r, now)}
  BY <1>1, <1>2 DEF Values
<1>4. IsFiniteSet(L) /\ L \subseteq K
  BY <1>1, FS_Subset
<1>5. /\ IsFiniteSet(Values(f, L)) /\ Values(f, L) \subseteq Entries
      /\ IsFiniteSet(Values(g, L)) /\ Values(g, L) \subseteq Entries
  <2>1. IsFiniteSet(Values(f, L)) /\ IsFiniteSet(Values(g, L))
    BY <1>4, ValuesFinite
  <2> QED BY <1>4, <2>1 DEF Values
<1>6. CASE L = {}
  <2>1. Values(f, L) = {} /\ Values(g, L) = {}
    BY <1>6 DEF Values
  <2>2. BestRule(Values(f, K), now) = Allow /\ BestRule(Values(g, K), now) = Allow
    BY <1>3, <2>1 DEF BestRule
  <2> QED BY <2>2 DEF SameDecision
<1>7. CASE L # {}
  <2>1. Values(f, L) # {} /\ Values(g, L) # {}
    BY <1>7 DEF Values
  <2>2. PICK b : /\ BestOf(Values(f, L), b)
                 /\ BestRule(Values(f, K), now) = IF b.action = "Deny" THEN DenyBy(b)
                                                  ELSE Allow
    BY <1>3, <1>5, <2>1, BestRuleMeans
  <2>3. PICK c : /\ BestOf(Values(g, L), c)
                 /\ BestRule(Values(g, K), now) = IF c.action = "Deny" THEN DenyBy(c)
                                                  ELSE Allow
    BY <1>3, <1>5, <2>1, BestRuleMeans
  <2>4. b.priority = c.priority /\ b.action = c.action
    BY <1>4, <2>2, <2>3, AlikeBest
  <2>5. SameDecision(DenyBy(b), DenyBy(c)) /\ SameDecision(Allow, Allow)
    BY <2>4 DEF SameDecision, DenyBy
  <2> QED BY <2>2, <2>3, <2>4, <2>5
<1> QED BY <1>6, <1>7

\* Entries that are alike look up alike.
LEMMA AlikeLookups ==
  ASSUME NEW e, NEW f, Alike(e, f), NEW q, NEW now
  PROVE  SameDecision(LookupIn(e, q, now), LookupIn(f, q, now))
<1>1. CASE q \in DOMAIN e
  <2>1. q \in DOMAIN f /\ SemanticallyEqual(e[q], f[q])
    BY <1>1 DEF Alike
  <2>2. SameDecision(decision_for_entry(e[q], now), decision_for_entry(f[q], now))
    BY <2>1, AlikeEntries
  <2> QED BY <1>1, <2>1, <2>2 DEF LookupIn
<1>2. CASE q \notin DOMAIN e
  <2>1. q \notin DOMAIN f
    BY <1>2 DEF Alike
  <2> QED BY <1>2, <2>1 DEF LookupIn, SameDecision
<1> QED BY <1>1, <1>2

\* Entries and rules that are alike check alike.
LEMMA AlikeChecks ==
  ASSUME NEW e, NEW f, Alike(e, f), NEW r, NEW t, Alike(r, t),
         IsMap(r, Patterns), IsMap(t, Patterns), NEW q, NEW now
  PROVE  SameDecision(CheckIn(e, r, q, now), CheckIn(f, t, q, now))
<1>1. SameDecision(LookupIn(e, q, now), LookupIn(f, q, now))
  BY AlikeLookups
<1>2. PICK K : K = {p \in DOMAIN r : rule_matches_namespace(p, q)}
  OBVIOUS
<1>3. K = {p \in DOMAIN t : rule_matches_namespace(p, q)}
  BY <1>2 DEF Alike
<1>4. /\ IsFiniteSet(K)
      /\ \A k \in K : r[k] \in Entries /\ t[k] \in Entries
      /\ \A k \in K : SemanticallyEqual(r[k], t[k])
  <2>1. IsFiniteSet(DOMAIN r) /\ K \subseteq DOMAIN r
    BY <1>2 DEF IsMap
  <2>2. IsFiniteSet(K)
    BY <2>1, FS_Subset
  <2> QED BY <1>2, <1>3, <2>2 DEF IsMap, Alike
<1>5. SameDecision(BestRule(Values(r, K), now), BestRule(Values(t, K), now))
  BY <1>4, AlikeRules
<1>6. CheckIn(e, r, q, now) = IF LookupIn(e, q, now).denied THEN LookupIn(e, q, now)
                              ELSE BestRule(Values(r, K), now)
  BY <1>2 DEF CheckIn, Values
<1>7. CheckIn(f, t, q, now) = IF LookupIn(f, q, now).denied THEN LookupIn(f, q, now)
                              ELSE BestRule(Values(t, K), now)
  BY <1>3 DEF CheckIn, Values
<1> QED BY <1>1, <1>5, <1>6, <1>7 DEF SameDecision

\* What a completed rollback leaves at the source, and at an edge that has followed
\* the stream to its end, decides as the archived snapshot did.
THEOREM RollbacksRestore == Spec => []RollbackRestores
<1>1. ASSUME EdgeInv, rollback.stage = "done", NEW q \in Queries, NEW now \in Times
      PROVE  /\ SameDecision(CheckIn(source.entries, source.rules, q, now),
                             CheckIn(rollback.target.entries, rollback.target.rules, q, now))
             /\ edge.watermarks = source.watermarks =>
                  SameDecision(EdgeLookup(edge, q, now),
                               LookupIn(rollback.target.entries, q, now))
  <2>1. RestoreNext(source, rollback.target) = {}
    BY <1>1 DEF EdgeInv, RollbackInStep
  <2>2. /\ Alike(source.entries, rollback.target.entries)
        /\ Alike(source.rules, rollback.target.rules)
    BY <2>1, RestoreMeans, NothingToRestore
  <2>3. IsMap(source.rules, Patterns) /\ IsMap(rollback.target.rules, Patterns)
    BY <1>1 DEF EdgeInv, SourceInStep, IsPrefix, RollbackInStep
  <2>4. SameDecision(CheckIn(source.entries, source.rules, q, now),
                     CheckIn(rollback.target.entries, rollback.target.rules, q, now))
    BY <2>2, <2>3, AlikeChecks
  <2>5. ASSUME edge.watermarks = source.watermarks
        PROVE  SameDecision(EdgeLookup(edge, q, now),
                            LookupIn(rollback.target.entries, q, now))
    <3>1. EntriesThere = source.entries
      BY <1>1, <2>5 DEF EdgeInv, SourceInStep, IsPrefix, EntriesThere
    <3>2. EdgeLookup(edge, q, now) = LookupIn(source.entries, q, now)
      BY <1>1, <3>1, LookupInView
    <3> QED BY <2>2, <3>2, AlikeLookups
  <2> QED BY <2>4, <2>5
<1>2. EdgeInv => RollbackRestores
  BY <1>1 DEF RollbackRestores, SameDecision
<1> QED BY <1>2, EdgeInvariant, PTL

(***************************************************************************)
(* What a rule covers                                                      *)
(***************************************************************************)

\* 2 ^ k addresses: at least one, which a mask divides by.
LEMMA PowerPositive ==
  ASSUME NEW k \in Nat
  PROVE  2 ^ k \in Nat \ {0}
<1>1. PICK S : S = 1 .. k
  OBVIOUS
<1>2. IsFiniteSet(S) /\ Cardinality(S) = k
  <2>1. IsFiniteSet(1 .. k) /\ Cardinality(1 .. k) = IF 1 > k THEN 0 ELSE k - 1 + 1
    BY FS_Interval
  <2> QED BY <1>1, <2>1
<1>3. IsFiniteSet(SUBSET S) /\ Cardinality(SUBSET S) = 2 ^ k
  <2>1. IsFiniteSet(SUBSET S) /\ Cardinality(SUBSET S) = 2 ^ Cardinality(S)
    BY <1>2, FS_SUBSET
  <2> QED BY <1>2, <2>1
<1>4. Cardinality(SUBSET S) \in Nat /\ Cardinality(SUBSET S) # 0
  <2>1. {} \in SUBSET S
    OBVIOUS
  <2> QED BY <1>3, <2>1, FS_CardinalityType, FS_EmptySet
<1> QED BY <1>3, <1>4

\* An address space of a + b bits is 2 ^ a blocks of 2 ^ b addresses: a set of bits is a
\* set of its first a and a set of its other b.
LEMMA PowerSum ==
  ASSUME NEW a \in Nat, NEW b \in Nat
  PROVE  2 ^ (a + b) = 2 ^ a * 2 ^ b
<1>1. PICK A : A = 1 .. a
  OBVIOUS
<1>2. PICK B : B = a + 1 .. a + b
  OBVIOUS
<1>3. PICK C : C = 1 .. a + b
  OBVIOUS
<1>4. /\ IsFiniteSet(A) /\ Cardinality(A) = a
      /\ IsFiniteSet(B) /\ Cardinality(B) = b
      /\ IsFiniteSet(C) /\ Cardinality(C) = a + b
  <2>1. \A m, n \in Int : /\ IsFiniteSet(m .. n)
                          /\ Cardinality(m .. n) = IF m > n THEN 0 ELSE n - m + 1
    BY FS_Interval
  <2>2. IsFiniteSet(A) /\ Cardinality(A) = a
    BY <1>1, <2>1
  <2>3. IsFiniteSet(B) /\ Cardinality(B) = b
    <3>1. Cardinality(a + 1 .. a + b) = IF a + 1 > a + b THEN 0 ELSE a + b - (a + 1) + 1
      BY <2>1
    <3> QED BY <1>2, <2>1, <3>1
  <2>4. IsFiniteSet(C) /\ Cardinality(C) = a + b
    <3>1. PICK n \in Nat : n = a + b
      OBVIOUS
    <3>2. IsFiniteSet(1 .. n) /\ Cardinality(1 .. n) = n
      BY <2>1
    <3> QED BY <1>3, <3>1, <3>2
  <2> QED BY <2>2, <2>3, <2>4
<1>5. C = A \cup B /\ A \cap B = {}
  BY <1>1, <1>2, <1>3
<1>6. /\ IsFiniteSet(SUBSET A) /\ Cardinality(SUBSET A) = 2 ^ a
      /\ IsFiniteSet(SUBSET B) /\ Cardinality(SUBSET B) = 2 ^ b
      /\ IsFiniteSet(SUBSET C) /\ Cardinality(SUBSET C) = 2 ^ (a + b)
  <2>1. /\ IsFiniteSet(SUBSET A) /\ Cardinality(SUBSET A) = 2 ^ Cardinality(A)
        /\ IsFiniteSet(SUBSET B) /\ Cardinality(SUBSET B) = 2 ^ Cardinality(B)
        /\ IsFiniteSet(SUBSET C) /\ Cardinality(SUBSET C) = 2 ^ Cardinality(C)
    BY <1>4, FS_SUBSET
  <2> QED BY <1>4, <2>1
<1>7. Cardinality((SUBSET A) \X (SUBSET B)) = Cardinality(SUBSET A) * Cardinality(SUBSET B)
  BY <1>6, FS_Product
<1>8. PICK f : f = [S \in SUBSET C |-> <<S \cap A, S \cap B>>]
  OBVIOUS
<1>9. f \in Bijection(SUBSET C, (SUBSET A) \X (SUBSET B))
  <2>1. f \in [SUBSET C -> (SUBSET A) \X (SUBSET B)]
    BY <1>8
  <2>2. ASSUME NEW S \in SUBSET C, NEW T \in SUBSET C, f[S] = f[T]
        PROVE  S = T
    <3>1. S \cap A = T \cap A /\ S \cap B = T \cap B
      BY <1>8, <2>2
    <3> QED BY <1>5, <3>1
  <2>3. ASSUME NEW P \in SUBSET A, NEW Q \in SUBSET B
        PROVE  \E S \in SUBSET C : f[S] = <<P, Q>>
    <3>1. P \cup Q \in SUBSET C /\ (P \cup Q) \cap A = P /\ (P \cup Q) \cap B = Q
      BY <1>5
    <3> QED BY <1>8, <3>1
  <2>4. f \in Injection(SUBSET C, (SUBSET A) \X (SUBSET B))
    BY <2>1, <2>2 DEF Injection, IsInjective
  <2>5. f \in Surjection(SUBSET C, (SUBSET A) \X (SUBSET B))
    <3>1. ASSUME NEW t \in (SUBSET A) \X (SUBSET B)
          PROVE  \E S \in SUBSET C : f[S] = t
      <4>1. t = <<t[1], t[2]>> /\ t[1] \in SUBSET A /\ t[2] \in SUBSET B
        OBVIOUS
      <4>2. \E S \in SUBSET C : f[S] = <<t[1], t[2]>>
        BY <2>3, <4>1
      <4> QED BY <4>1, <4>2
    <3> QED BY <2>1, <3>1 DEF Surjection
  <2> QED BY <2>4, <2>5 DEF Bijection
<1>10. Cardinality(SUBSET C) = Cardinality((SUBSET A) \X (SUBSET B))
  BY <1>6, <1>9, FS_Bijection DEF ExistsBijection
<1> QED BY <1>6, <1>7, <1>10

\* What mask_ipv4 drops of an address is less than a block.
LEMMA Divides ==
  ASSUME NEW v \in Nat, NEW unit \in Nat \ {0}
  PROVE  \E k \in Nat, i \in 0 .. unit - 1 : k = v \div unit /\ v = k * unit + i
<1>1. PICK k \in Nat : k = v \div unit
  OBVIOUS
<1>2. PICK i \in Nat : i = v % unit /\ i \in 0 .. unit - 1
  OBVIOUS
<1>3. unit \in Int /\ unit > 0 /\ v \in Int /\ k \in Int /\ i \in Int
  OBVIOUS
<1>4. v = unit * k + i
  BY <1>1, <1>2, <1>3
<1>5. unit * k = k * unit
  OBVIOUS
<1> QED BY <1>1, <1>2, <1>4, <1>5

\* An address lies in one block.
LEMMA QuotientIs ==
  ASSUME NEW unit \in Nat \ {0}, NEW k \in Nat, NEW l \in Nat,
         NEW i \in 0 .. unit - 1, NEW j \in 0 .. unit - 1,
         k * unit + i = l * unit + j
  PROVE  k = l
<1>1. ASSUME NEW a \in Nat, NEW b \in Nat, a < b
      PROVE  a * unit + unit <= b * unit
  <2>1. PICK d \in Nat : b = a + 1 + d
    BY <1>1
  <2>2. b * unit = a * unit + unit + d * unit
    BY <2>1
  <2>3. d * unit \in Nat /\ a * unit \in Nat
    OBVIOUS
  <2> QED BY <2>2, <2>3
<1>2. PICK x \in Nat : x = k * unit
  OBVIOUS
<1>3. PICK y \in Nat : y = l * unit
  OBVIOUS
<1>4. x + i = y + j
  BY <1>2, <1>3
<1>5. CASE k < l
  <2>1. x + unit <= y
    BY <1>1, <1>2, <1>3, <1>5
  <2> QED BY <1>4, <2>1
<1>6. CASE l < k
  <2>1. y + unit <= x
    BY <1>1, <1>2, <1>3, <1>6
  <2> QED BY <1>4, <2>1
<1> QED BY <1>5, <1>6

\* The addresses of block number b, and two addresses in one of the first wide blocks.
Block(b, unit) == {b * unit + i : i \in 0 .. unit - 1}
ShareBlock(v, w, wide, unit) ==
    \E block \in 0 .. wide - 1 : {v, w} \subseteq Block(block, unit)

\* mask_ipv4 leaves the same of two addresses iff they lie in one block.
LEMMA SameBlock ==
  ASSUME NEW unit \in Nat \ {0}, NEW wide \in Nat \ {0}, NEW v \in Nat, NEW w \in Nat,
         w < wide * unit
  PROVE  (v \div unit) * unit = (w \div unit) * unit
           <=> ShareBlock(v, w, wide, unit)
<1>1. PICK k \in Nat, i \in 0 .. unit - 1 : k = v \div unit /\ v = k * unit + i
  BY Divides
<1>2. PICK l \in Nat, j \in 0 .. unit - 1 : l = w \div unit /\ w = l * unit + j
  BY Divides
<1>3. v = k * unit + i
  BY <1>1
<1>4. w = l * unit + j
  BY <1>2
<1>5. k * unit = l * unit <=> k = l
  <2>1. 0 \in 0 .. unit - 1
    OBVIOUS
  <2>2. PICK a \in Nat : a = k * unit
    OBVIOUS
  <2>3. PICK b \in Nat : b = l * unit
    OBVIOUS
  <2>4. a = b => k * unit + 0 = l * unit + 0
    BY <2>2, <2>3
  <2> QED BY <2>1, <2>2, <2>3, <2>4, QuotientIs
<1>6. l \in 0 .. wide - 1
  <2>1. CASE l >= wide
    <3>1. PICK d \in Nat : l = wide + d
      BY <2>1
    <3>2. l * unit = wide * unit + d * unit /\ d * unit \in Nat
      BY <3>1
    <3>3. wide * unit \in Nat
      OBVIOUS
    <3> QED BY <1>4, <3>2, <3>3
  <2> QED BY <2>1
<1>7. ASSUME k = l
      PROVE  ShareBlock(v, w, wide, unit)
  BY <1>3, <1>4, <1>6, <1>7 DEF Block, ShareBlock
<1>8. ASSUME NEW block \in 0 .. wide - 1,
             {v, w} \subseteq Block(block, unit)
      PROVE  k = l
  <2>1. PICK a \in 0 .. unit - 1 : v = block * unit + a
    BY <1>8 DEF Block
  <2>2. PICK b \in 0 .. unit - 1 : w = block * unit + b
    BY <1>8 DEF Block
  <2>3. block = k
    BY <1>3, <2>1, QuotientIs
  <2>4. block = l
    BY <1>4, <2>2, QuotientIs
  <2> QED BY <2>3, <2>4
<1> QED BY <1>1, <1>2, <1>5, <1>7, <1>8 DEF ShareBlock

\* So a pattern's network is the masked address for the addresses of the block that the
\* pattern was written with, and for no others; prefix length 0 is one block.
LEMMA MaskCovers ==
  ASSUME NEW len \in 0 .. AddrBits,
         NEW v \in 0 .. 2 ^ AddrBits - 1, NEW w \in 0 .. 2 ^ AddrBits - 1
  PROVE  mask_ipv4(v, len) = mask_ipv4(w, len)
           <=> ShareBlock(v, w, 2 ^ len, 2 ^ (AddrBits - len))
<1>1. AddrBits \in Nat /\ len \in Nat /\ AddrBits - len \in Nat
  BY AddrBitsAssumption
<1>2. PICK unit \in Nat \ {0} : unit = 2 ^ (AddrBits - len)
  BY <1>1, PowerPositive
<1>3. PICK wide \in Nat \ {0} : wide = 2 ^ len
  BY <1>1, PowerPositive
<1>4. PICK all \in Nat \ {0} : all = 2 ^ AddrBits
  BY <1>1, PowerPositive
<1>5. all = wide * unit
  <2>1. PICK rest \in Nat : rest = AddrBits - len
    BY <1>1
  <2>2. len + rest = AddrBits
    BY <1>1, <2>1
  <2>3. 2 ^ (len + rest) = 2 ^ len * 2 ^ rest
    BY <1>1, PowerSum
  <2> QED BY <1>2, <1>3, <1>4, <2>1, <2>2, <2>3
<1>6. v \in 0 .. all - 1 /\ w \in 0 .. all - 1
  BY <1>4
<1>7. mask_ipv4(v, len) = mask_ipv4(w, len) <=> (v \div unit) * unit = (w \div unit) * unit
  <2>1. CASE len # 0
    BY <1>2, <2>1 DEF mask_ipv4
  <2>2. CASE len = 0
    <3>1. wide = 1
      <4>1. 2 ^ 0 = 1
        OBVIOUS
      <4> QED BY <1>3, <2>2, <4>1
    <3>2. v \div unit = 0 /\ w \div unit = 0
      BY <1>5, <1>6, <3>1
    <3> QED BY <2>2, <3>2 DEF mask_ipv4
  <2> QED BY <2>1, <2>2
<1>8. (v \div unit) * unit = (w \div unit) * unit
           <=> ShareBlock(v, w, wide, unit)
  <2>1. v \in Nat /\ w \in Nat /\ w < wide * unit
    BY <1>5, <1>6
  <2> QED BY <2>1, SameBlock
<1> QED BY <1>2, <1>3, <1>7, <1>8

\* A set of positions in a text that is not empty has a last one.
LEMMA GreatestIndex ==
  ASSUME NEW k \in Nat, NEW S \in SUBSET (1 .. k), S # {}
  PROVE  \E x \in S : \A y \in S : y <= x
<1> DEFINE R == {ss \in Nat \X Nat : ss[1] < ss[2]}
           T == {k - x : x \in S}
<1>1. IsWellFoundedOn(R, Nat)
  BY NatLessThanWellFounded, Zenon DEF OpToRel
<1>2. \A x, y \in Nat : ~(<<y, x>> \in R) => x <= y
  OBVIOUS
<1>3. T \in SUBSET Nat /\ T # {}
  <2>1. PICK x \in S : TRUE
    OBVIOUS
  <2>2. k - x \in T
    BY <2>1
  <2>3. \A y \in S : k - y \in Nat
    OBVIOUS
  <2> QED BY <2>2, <2>3
<1> HIDE DEF R
<1>4. PICK t \in T : \A y \in T : ~(<<y, t>> \in R)
  BY <1>1, <1>3, WFMin, Zenon
<1>5. PICK x \in S : t = k - x
  OBVIOUS
<1>6. ASSUME NEW y \in S PROVE y <= x
  <2>1. k - x <= k - y
    BY <1>2, <1>3, <1>4, <1>5
  <2> QED BY <2>1
<1> QED BY <1>6

\* A text without its trailing dots is a sequence of labels.
LEMMA TrimmedLabels ==
  ASSUME NEW labels \in Seq(STRING)
  PROVE  TrimEndDots(labels) \in Seq(STRING)
<1> DEFINE named == {i \in 1 .. Len(labels) : labels[i] # ""}
           last  == IF named = {} THEN 0
                    ELSE CHOOSE i \in named : \A j \in named : j <= i
<1>1. TrimEndDots(labels) = SubSeq(labels, 1, last)
  BY DEF TrimEndDots
<1>2. PICK k \in Nat : k = Len(labels)
  OBVIOUS
<1>3. named \in SUBSET (1 .. k)
  BY <1>2, Zenon
<1> HIDE DEF named
<1>4. last \in 0 .. k
  <2>1. ASSUME named # {} PROVE last \in named
    <3>1. \E i \in named : \A j \in named : j <= i
      BY <1>3, <2>1, GreatestIndex
    <3> QED BY <2>1, <3>1
  <2>2. named = {} => last = 0
    OBVIOUS
  <2>3. ASSUME NEW x \in named PROVE x \in 0 .. k
    <3>1. x \in 1 .. k
      BY <1>3
    <3> QED BY <3>1
  <2>4. 0 \in 0 .. k
    OBVIOUS
  <2> HIDE DEF last
  <2> QED BY <2>1, <2>2, <2>3, <2>4, Zenon
<1> HIDE DEF last
<1>5. \A i \in 1 .. last : labels[i] \in STRING
  BY <1>2, <1>4
<1>6. SubSeq(labels, 1, last) \in Seq(STRING)
  BY <1>4, <1>5, SubSeqProperties
<1> QED BY <1>1, <1>6

\* So is what canonicalize_domain makes of it, the parse error included.
LEMMA CanonicalLabels ==
  ASSUME NEW labels \in Seq(STRING)
  PROVE  canonicalize_domain(labels) \in Seq(STRING)
<1>1. PICK trimmed \in Seq(STRING) : trimmed = TrimEndDots(labels)
  BY TrimmedLabels
<1>2. Len(trimmed) > 1 => Tail(trimmed) \in Seq(STRING)
  <2>1. Len(trimmed) > 1 => trimmed # <<>>
    OBVIOUS
  <2> QED BY <2>1, HeadTailProperties
<1>3. \/ canonicalize_domain(labels) \in {<<>>, trimmed}
      \/ Len(trimmed) > 1 /\ canonicalize_domain(labels) = Tail(trimmed)
  BY <1>1 DEF canonicalize_domain
<1>4. <<>> \in Seq(STRING)
  OBVIOUS
<1> QED BY <1>1, <1>2, <1>3, <1>4

\* The candidates that a domain is looked up under are its endings.
LEMMA SuffixMeans ==
  ASSUME NEW have \in Seq(STRING), NEW want \in Seq(STRING), want # <<>>
  PROVE  want \in domain_suffix_candidates(have)
           <=> /\ Len(have) >= Len(want)
               /\ \A i \in 0 .. Len(want) - 1 : have[Len(have) - i] = want[Len(want) - i]
<1>1. PICK h \in Nat : h = Len(have)
  OBVIOUS
<1>2. PICK w \in Nat : w = Len(want) /\ w > 0
  OBVIOUS
<1>3. ASSUME NEW i \in 1 .. h
      PROVE  /\ SubSeq(have, i, h) \in Seq(STRING)
             /\ Len(SubSeq(have, i, h)) = h - i + 1
             /\ \A j \in 1 .. h - i + 1 : SubSeq(have, i, h)[j] = have[i + j - 1]
  <2>1. \A j \in i .. h : have[j] \in STRING
    BY <1>1
  <2>2. i <= h /\ i \in Int /\ h \in Int
    OBVIOUS
  <2> QED BY <2>1, <2>2, SubSeqProperties
<1>4. ASSUME NEW i \in 1 .. h, want = SubSeq(have, i, h)
      PROVE  h >= w /\ \A j \in 0 .. w - 1 : have[h - j] = want[w - j]
  <2>1. w = h - i + 1 /\ \A j \in 1 .. h - i + 1 : want[j] = have[i + j - 1]
    BY <1>2, <1>3, <1>4
  <2>2. ASSUME NEW j \in 0 .. w - 1 PROVE have[h - j] = want[w - j]
    <3>1. w - j \in 1 .. h - i + 1 /\ i + (w - j) - 1 = h - j
      BY <2>1
    <3> QED BY <2>1, <3>1
  <2> QED BY <2>1, <2>2
<1>5. ASSUME h >= w, \A j \in 0 .. w - 1 : have[h - j] = want[w - j]
      PROVE  \E i \in 1 .. h : want = SubSeq(have, i, h)
  <2>6. h - w + 1 \in 1 .. h
    BY <1>2, <1>5
  <2>1. PICK i \in 1 .. h : i = h - w + 1
    BY <2>6
  <2>2. PICK s : s = SubSeq(have, i, h)
    OBVIOUS
  <2>3. s \in Seq(STRING) /\ Len(s) = w /\ \A j \in 1 .. w : s[j] = have[i + j - 1]
    <3>1. h - i + 1 = w
      BY <2>1
    <3> QED BY <1>3, <2>2, <3>1
  <2>4. ASSUME NEW j \in 1 .. w PROVE s[j] = want[j]
    <3>1. w - j \in 0 .. w - 1 /\ h - (w - j) = i + j - 1 /\ w - (w - j) = j
      BY <2>1
    <3> QED BY <1>5, <2>3, <3>1
  <2>5. s = want
    BY <1>2, <2>3, <2>4
  <2> QED BY <2>2, <2>5
<1> QED BY <1>1, <1>2, <1>4, <1>5 DEF domain_suffix_candidates

\* A rule in force matches the addresses or domains its request named, and no others,
\* for every address width, prefix length and spelling.
THEOREM RulesCover == Spec => []RulesCoverWhatTheyName
<1>1. ASSUME EdgeInv PROVE RulesCoverWhatTheyName
  <2> SUFFICES ASSUME NEW r \in RuleRequests, NEW q \in Queries,
                      compile_rule_pattern(r.raw) \in DOMAIN source.rules
               PROVE  rule_matches_namespace(compile_rule_pattern(r.raw), q) <=> Names(r.raw, q)
    BY DEF RulesCoverWhatTheyName
  <2>1. PICK p : p = compile_rule_pattern(r.raw)
    OBVIOUS
  <2>2. p # Invalid
    BY <1>1, <2>1 DEF EdgeInv, SourceInStep, IsPrefix, IsMap, Patterns
  <2>3. r.raw.kind \in {"Ipv4Cidr", "DomainSuffix"} /\ r.raw.prefix_len \in Nat
    BY RequestAssumption
  <2>4. /\ r.raw.addr \in {NoAddr} \cup 0 .. 2 ^ AddrBits - 1 /\ r.raw.domain \in Seq(STRING)
        /\ q.addr \in {NoAddr} \cup 0 .. 2 ^ AddrBits - 1 /\ q.domain \in Seq(STRING)
    BY ParsedAssumption, Zenon
  <2>5. CASE r.raw.kind = "Ipv4Cidr"
    <3>1. /\ ~(r.raw.prefix_len > AddrBits) /\ r.raw.addr # NoAddr
          /\ p.kind = "Ipv4Cidr" /\ p.prefix_len = r.raw.prefix_len
          /\ p.network = mask_ipv4(r.raw.addr, r.raw.prefix_len)
      BY <2>1, <2>2, <2>5 DEF compile_rule_pattern
    <3>2. r.raw.prefix_len \in 0 .. AddrBits
      BY <2>3, <3>1, AddrBitsAssumption
    <3>3. rule_matches_namespace(p, q)
            <=> /\ rule_kind_for_namespace(q.namespace) = "Ipv4Cidr"
                /\ q.addr # NoAddr
                /\ mask_ipv4(q.addr, r.raw.prefix_len) = mask_ipv4(r.raw.addr, r.raw.prefix_len)
      BY <3>1 DEF rule_matches_namespace
    <3>4. Names(r.raw, q)
            <=> /\ rule_kind_for_namespace(q.namespace) = "Ipv4Cidr"
                /\ q.addr # NoAddr
                /\ ShareBlock(q.addr, r.raw.addr, 2 ^ r.raw.prefix_len,
                              2 ^ (AddrBits - r.raw.prefix_len))
      BY <2>5 DEF Names, ShareBlock, Block
    <3>5. ASSUME q.addr # NoAddr
          PROVE  mask_ipv4(q.addr, r.raw.prefix_len) = mask_ipv4(r.raw.addr, r.raw.prefix_len)
                   <=> ShareBlock(q.addr, r.raw.addr, 2 ^ r.raw.prefix_len,
                                  2 ^ (AddrBits - r.raw.prefix_len))
      <4>1. q.addr \in 0 .. 2 ^ AddrBits - 1 /\ r.raw.addr \in 0 .. 2 ^ AddrBits - 1
        BY <2>4, <3>1, <3>5, Zenon
      <4> QED BY <3>2, <4>1, MaskCovers
    <3> QED BY <2>1, <3>3, <3>4, <3>5
  <2>6. CASE r.raw.kind = "DomainSuffix"
    <3>1. PICK want \in Seq(STRING) : want = canonicalize_domain(r.raw.domain)
      BY <2>4, CanonicalLabels
    <3>2. PICK have \in Seq(STRING) : have = canonicalize_domain(q.domain)
      BY <2>4, CanonicalLabels
    <3>3. want # <<>> /\ p.kind = "DomainSuffix" /\ p.suffix = want
      BY <2>1, <2>2, <2>6, <3>1 DEF compile_rule_pattern
    <3>4. rule_matches_namespace(p, q)
            <=> /\ rule_kind_for_namespace(q.namespace) = "DomainSuffix"
                /\ want \in domain_suffix_candidates(have)
      BY <3>2, <3>3 DEF rule_matches_namespace
    <3>5. Names(r.raw, q)
            <=> /\ rule_kind_for_namespace(q.namespace) = "DomainSuffix"
                /\ Len(have) >= Len(want)
                /\ \A i \in 0 .. Len(want) - 1 : have[Len(have) - i] = want[Len(want) - i]
      BY <2>6, <3>1, <3>2 DEF Names
    <3>6. want \in domain_suffix_candidates(have)
            <=> /\ Len(have) >= Len(want)
                /\ \A i \in 0 .. Len(want) - 1 : have[Len(have) - i] = want[Len(want) - i]
      BY <3>3, SuffixMeans
    <3> QED BY <2>1, <3>4, <3>5, <3>6
  <2> QED BY <2>3, <2>5, <2>6
<1> QED BY <1>1, EdgeInvariant, PTL
=============================================================================
