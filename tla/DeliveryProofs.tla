--------------------------- MODULE DeliveryProofs ---------------------------
(***************************************************************************)
(* Proofs about Delivery, for any number of commitd nodes, mutations and   *)
(* faults: what the relay and the agent hold is a stretch of the leader's  *)
(* history, an answer with a gap misses only what is compacted away, no    *)
(* relay is stranded, and no ack claims more than is in the agent's file.  *)
(***************************************************************************)
EXTENDS Delivery, FiniteSetTheorems, TLAPS

(***************************************************************************)
(* Stretches of history.                                                   *)
(***************************************************************************)

\* The mutations after a number are that many, in order.
LEMMA AfterType ==
  ASSUME NEW b \in Nat, NEW k \in Nat
  PROVE  /\ After(b, k) \in Seq(Nat)
         /\ Len(After(b, k)) = k
         /\ DOMAIN After(b, k) = 1 .. k
         /\ \A i \in 1 .. k : After(b, k)[i] = b + i
  BY DEF After

\* RelayCache::apply lengthens a stretch by one.
LEMMA AppendAfter ==
  ASSUME NEW b \in Nat, NEW k \in Nat
  PROVE  Append(After(b, k), b + k + 1) = After(b, k + 1)
  BY DEF After

\* Two stretches of which one goes on where the other ends are one.
LEMMA ConcatAfter ==
  ASSUME NEW b \in Nat, NEW k \in Nat, NEW m \in Nat
  PROVE  After(b, k) \o After(b + k, m) = After(b, k + m)
  BY DEF After

\* A filter that keeps a range of the positions of a stretch.
LEMMA FilteredRange ==
  ASSUME NEW b \in Nat, NEW k \in Nat,
         NEW lo \in Nat, NEW hi \in Nat, 1 <= lo, lo <= hi + 1, hi <= k
  PROVE  Filtered(After(b, k), lo .. hi) = After(b + lo - 1, hi - lo + 1)
<1> DEFINE s == After(b, k)
<1>s. \A i \in 1 .. k : s[i] = b + i
  BY AfterType
<1> HIDE DEF s
<1>1. ASSUME NEW i \in lo .. hi
      PROVE  Cardinality(lo .. i) = i - lo + 1
  <2>1. lo \in Int /\ i \in Int /\ lo <= i
    OBVIOUS
  <2>2. Cardinality(lo .. i) = IF lo > i THEN 0 ELSE i - lo + 1
    BY <2>1, FS_Interval
  <2> QED BY <2>1, <2>2
<1>2. Cardinality(lo .. hi) = hi - lo + 1
  <2>1. Cardinality(lo .. hi) = IF lo > hi THEN 0 ELSE hi - lo + 1
    BY FS_Interval
  <2> QED BY <2>1
<1>3. ASSUME NEW i \in lo .. hi
      PROVE  (lo .. hi) \cap (1 .. i) = lo .. i
  OBVIOUS
<1>4. ASSUME NEW j \in 1 .. hi - lo + 1
      PROVE  (CHOOSE i \in lo .. hi : Cardinality((lo .. hi) \cap (1 .. i)) = j) = lo + j - 1
  <2> DEFINE P(i) == Cardinality((lo .. hi) \cap (1 .. i)) = j
  <2>1. ASSUME NEW i \in lo .. hi
        PROVE  P(i) <=> i = lo + j - 1
    <3>1. Cardinality((lo .. hi) \cap (1 .. i)) = i - lo + 1
      BY <1>1, <1>3
    <3>2. i - lo + 1 = j <=> i = lo + j - 1
      OBVIOUS
    <3> QED BY <3>1, <3>2
  <2>2. lo + j - 1 \in lo .. hi
    OBVIOUS
  <2> HIDE DEF P
  <2> DEFINE w == lo + j - 1
             R == lo .. hi
  <2>3. w \in R /\ \A i \in R : P(i) <=> i = w
    BY <2>1, <2>2
  <2> HIDE DEF w, R
  <2>4. (CHOOSE i \in R : P(i)) = w
    BY <2>3
  <2> QED BY <2>4 DEF w, R, P
<1>5. Filtered(s, lo .. hi) =
         [j \in 1 .. hi - lo + 1 |->
            s[CHOOSE i \in lo .. hi : Cardinality((lo .. hi) \cap (1 .. i)) = j]]
  BY <1>2 DEF Filtered
<1>6. ASSUME NEW j \in 1 .. hi - lo + 1
      PROVE  s[lo + j - 1] = b + lo - 1 + j
  <2>1. lo + j - 1 \in 1 .. k /\ b + (lo + j - 1) = b + lo - 1 + j
    OBVIOUS
  <2> QED BY <2>1, <1>s
<1>7. Filtered(s, lo .. hi) = [j \in 1 .. hi - lo + 1 |-> b + lo - 1 + j]
  BY <1>4, <1>5, <1>6
<1> QED BY <1>7 DEF After, s

\* What is left of a stretch after a number in it or beyond it.
LEMMA FilteredTail ==
  ASSUME NEW b \in Nat, NEW k \in Nat, NEW from \in Nat, b <= from
  PROVE  LET s == After(b, k)
         IN  Filtered(s, {i \in DOMAIN s : s[i] > from}) = After(from, Max2(b + k - from, 0))
<1> DEFINE s == After(b, k)
           keep == {i \in DOMAIN s : s[i] > from}
<1>1. keep = {i \in 1 .. k : b + i > from}
  <2>1. DOMAIN s = 1 .. k /\ \A i \in 1 .. k : s[i] = b + i
    BY AfterType DEF After
  <2> HIDE DEF s
  <2> QED BY <2>1
<1> HIDE DEF keep
<1>2. CASE from <= b + k
  <2>1. PICK lo \in Nat : lo = from - b + 1
    BY <1>2
  <2>2. 1 <= lo /\ lo <= k + 1 /\ k <= k
    BY <1>2, <2>1
  <2>3. keep = lo .. k
    BY <1>1, <2>1
  <2>4. Filtered(s, lo .. k) = After(b + lo - 1, k - lo + 1)
    BY <2>2, FilteredRange
  <2>5. k - lo + 1 = Max2(b + k - from, 0) /\ b + lo - 1 = from
    BY <1>2, <2>1 DEF Max2
  <2> QED BY <2>3, <2>4, <2>5 DEF keep
<1>3. CASE from > b + k
  <2>1. keep = k + 1 .. k
    BY <1>1, <1>3
  <2>2. Filtered(s, k + 1 .. k) = After(b + (k + 1) - 1, k - (k + 1) + 1)
    <3>1. k + 1 \in Nat /\ 1 <= k + 1 /\ k + 1 <= k + 1 /\ k <= k
      OBVIOUS
    <3> QED BY <3>1, FilteredRange
  <2>3. Max2(b + k - from, 0) = 0 /\ k - (k + 1) + 1 = 0
    BY <1>3 DEF Max2
  <2>4. After(b + (k + 1) - 1, 0) = After(from, 0)
    BY DEF After
  <2> QED BY <2>1, <2>2, <2>3, <2>4 DEF keep
<1> QED BY <1>2, <1>3 DEF keep

\* What is left of a stretch up to a number.
LEMMA FilteredHead ==
  ASSUME NEW b \in Nat, NEW k \in Nat, NEW to \in Nat
  PROVE  LET s == After(b, k)
         IN  \E m \in 0 .. k : Filtered(s, {i \in DOMAIN s : s[i] <= to}) = After(b, m)
<1> DEFINE s == After(b, k)
           keep == {i \in DOMAIN s : s[i] <= to}
<1>1. keep = {i \in 1 .. k : b + i <= to}
  <2>1. DOMAIN s = 1 .. k /\ \A i \in 1 .. k : s[i] = b + i
    BY AfterType DEF After
  <2> HIDE DEF s
  <2> QED BY <2>1
<1> HIDE DEF keep
<1>2. PICK m \in 0 .. k : m = IF to < b THEN 0 ELSE IF to - b <= k THEN to - b ELSE k
  OBVIOUS
<1>3. keep = 1 .. m
  BY <1>1, <1>2
<1>4. Filtered(s, 1 .. m) = After(b + 1 - 1, m - 1 + 1)
  <2>1. 1 \in Nat /\ m \in Nat /\ 1 <= 1 /\ 1 <= m + 1 /\ m <= k
    OBVIOUS
  <2> QED BY <2>1, FilteredRange
<1>5. b + 1 - 1 = b /\ m - 1 + 1 = m
  OBVIOUS
<1> QED BY <1>3, <1>4, <1>5 DEF keep

\* How many of the mutations up to last come after a number and up to another.
Between(last, from, to) ==
    IF from < to /\ from < last THEN (IF to <= last THEN to ELSE last) - from ELSE 0

\* What is left of a stretch after a number and up to another.
LEMMA FilteredMiddle ==
  ASSUME NEW b \in Nat, NEW k \in Nat, NEW from \in Nat, b <= from, NEW to \in Nat
  PROVE  LET s == After(b, k)
         IN  Filtered(s, {i \in DOMAIN s : s[i] > from /\ s[i] <= to})
               = After(from, Between(b + k, from, to))
<1> DEFINE s == After(b, k)
           keep == {i \in DOMAIN s : s[i] > from /\ s[i] <= to}
<1>1. keep = {i \in 1 .. k : b + i > from /\ b + i <= to}
  <2>1. DOMAIN s = 1 .. k /\ \A i \in 1 .. k : s[i] = b + i
    BY AfterType DEF After
  <2> HIDE DEF s
  <2> QED BY <2>1
<1> HIDE DEF keep
<1>2. CASE from < to /\ from < b + k
  <2>1. PICK lo \in Nat : lo = from - b + 1
    OBVIOUS
  <2>2. PICK hi \in Nat : hi = IF to - b <= k THEN to - b ELSE k
    BY <1>2
  <2>3. 1 <= lo /\ lo <= hi + 1 /\ hi <= k
    BY <1>2, <2>1, <2>2
  <2>4. keep = lo .. hi
    BY <1>1, <1>2, <2>1, <2>2
  <2>5. Filtered(s, lo .. hi) = After(b + lo - 1, hi - lo + 1)
    BY <2>3, FilteredRange
  <2>6. b + lo - 1 = from /\ hi - lo + 1 = Between(b + k, from, to)
    BY <1>2, <2>1, <2>2 DEF Between
  <2> QED BY <2>4, <2>5, <2>6 DEF keep
<1>3. CASE ~(from < to /\ from < b + k)
  <2>1. keep = k + 1 .. k
    BY <1>1, <1>3
  <2>2. Filtered(s, k + 1 .. k) = After(b + (k + 1) - 1, k - (k + 1) + 1)
    <3>1. k + 1 \in Nat /\ 1 <= k + 1 /\ k + 1 <= k + 1 /\ k <= k
      OBVIOUS
    <3> QED BY <3>1, FilteredRange
  <2>3. k - (k + 1) + 1 = 0
    OBVIOUS
  <2>4. After(b + (k + 1) - 1, 0) = After(from, 0)
    BY DEF After
  <2>5. Between(b + k, from, to) = 0
    BY <1>3 DEF Between
  <2> QED BY <2>1, <2>2, <2>3, <2>4, <2>5 DEF keep
<1> QED BY <1>2, <1>3 DEF keep

\* A state that applies a stretch which goes on where it ends has no gap in it and
\* ends where the stretch does.
LEMMA ReachedAfter ==
  ASSUME NEW mem \in Nat, NEW k \in Nat
  PROVE  Reached(mem, After(mem, k)) = mem + k /\ Gapless(mem, After(mem, k))
<1> DEFINE s == After(mem, k)
<1>1. s \in Seq(Nat) /\ Len(s) = k /\ \A i \in 1 .. k : s[i] = mem + i
  BY AfterType
<1> HIDE DEF s
<1>2. Reached(mem, s) = mem + k
  <2>1. CASE k = 0
    <3>1. s = <<>>
      BY <1>1, <2>1
    <3> QED BY <3>1, <2>1 DEF Reached
  <2>2. CASE k # 0
    <3>1. s # <<>> /\ s[Len(s)] = mem + k
      BY <1>1, <2>2
    <3>2. Max2(mem, mem + k) = mem + k
      BY <2>2 DEF Max2
    <3> QED BY <3>1, <3>2 DEF Reached
  <2> QED BY <2>1, <2>2
<1>3. ASSUME NEW i \in 1 .. Len(s)
      PROVE  s[i] <= 1 + Max2(mem, IF i = 1 THEN 0 ELSE s[i - 1])
  <2>1. i \in 1 .. k /\ s[i] = mem + i
    BY <1>1
  <2>2. CASE i = 1
    BY <2>1, <2>2 DEF Max2
  <2>3. CASE i # 1
    <3>1. i - 1 \in 1 .. k
      BY <2>1, <2>3
    <3>2. s[i - 1] = mem + (i - 1)
      BY <3>1, <1>1
    <3> QED BY <2>1, <2>3, <3>2 DEF Max2
  <2> QED BY <2>2, <2>3
<1> QED BY <1>2, <1>3 DEF Gapless, s

(***************************************************************************)
(* What nodes and the relay answer.                                        *)
(***************************************************************************)

\* The numbers in the nodes, the cache and the agent.
LEMMA Numbers ==
  ASSUME DeliveryInv
  PROVE  /\ Leader \in Nodes
         /\ \A n \in Nodes : /\ node[n].seq \in Nat /\ node[n].floor \in Nat
                             /\ node[n].snap \in Nat
                             /\ node[n].floor <= node[n].snap
                             /\ node[n].floor <= node[n].seq
                             /\ node[n].snap <= node[n].seq
                             /\ node[n].seq <= node[Leader].seq
                             /\ node[n].snap <= node[Leader].seq
         /\ cache.base \in Nat /\ cache.watermark \in Nat
         /\ agent.mem \in Nat /\ agent.next \in Nat
         /\ agent.disk \in Nat \cup {NoFile}
         /\ published \subseteq Nat /\ acked \subseteq published
<1>1. Leader \in Nodes
  BY DeliveryAssumption
<1>2. /\ node \in [Nodes -> [seq : Nat, floor : Nat, snap : Nat]]
      /\ \A n \in Nodes :
           /\ node[n].floor <= node[n].snap /\ node[n].snap <= node[n].seq
           /\ node[n].seq <= node[Leader].seq
  BY DEF DeliveryInv, Shapes, TypeOK
<1>3. ASSUME NEW n \in Nodes
      PROVE  /\ node[n].seq \in Nat /\ node[n].floor \in Nat /\ node[n].snap \in Nat
             /\ node[n].floor <= node[n].snap
             /\ node[n].floor <= node[n].seq
             /\ node[n].snap <= node[n].seq
             /\ node[n].seq <= node[Leader].seq
             /\ node[n].snap <= node[Leader].seq
  <2>1. node[n] \in [seq : Nat, floor : Nat, snap : Nat] /\ node[Leader] \in [seq : Nat, floor : Nat, snap : Nat]
    BY <1>1, <1>2
  <2>2. /\ node[n].seq \in Nat /\ node[n].floor \in Nat /\ node[n].snap \in Nat
        /\ node[Leader].seq \in Nat
    BY <2>1
  <2> QED BY <1>2, <2>2
<1>4. cache.base \in Nat /\ cache.watermark \in Nat
  BY DEF DeliveryInv, Shapes
<1>5. agent.mem \in Nat /\ agent.next \in Nat /\ agent.disk \in Nat \cup {NoFile}
  BY DEF DeliveryInv, Shapes, AgentStates
<1>6. published \subseteq Nat /\ acked \subseteq published
  <2>1. published \subseteq 1 .. node[Leader].seq /\ acked \subseteq published
    BY DEF DeliveryInv, TypeOK
  <2>2. 1 .. node[Leader].seq \subseteq Nat
    BY <1>1, <1>3
  <2> QED BY <2>1, <2>2
<1> QED BY <1>1, <1>3, <1>4, <1>5, <1>6

\* A stretch after a number that the leader has, or after one up to which a node has
\* compacted, is an answer that continues.
LEMMA StretchContinues ==
  ASSUME DeliveryInv, NEW from \in Nat, NEW first \in Nat, NEW k \in Nat,
         from <= first, first + k <= node[Leader].seq,
         first = from \/ \E n \in Nodes : first <= node[n].floor
  PROVE  Continues(from, After(first, k))
<1>1. Len(After(first, k)) = k
  BY AfterType
<1>2. first \in from .. node[Leader].seq
  BY Numbers
<1>3. PICK s : s = After(first, k)
  OBVIOUS
<1>4. s = After(first, Len(s)) /\ Len(s) = k
  BY <1>1, <1>3
<1>5. Continues(from, s)
  BY <1>2, <1>4 DEF Continues
<1> QED BY <1>3, <1>5

\* And the other way round.
LEMMA ContinuesStretch ==
  ASSUME DeliveryInv, NEW from \in Nat, NEW s \in Seq(Nat), Continues(from, s)
  PROVE  \E first \in Nat, k \in Nat :
           /\ s = After(first, k) /\ k = Len(s)
           /\ from <= first /\ first + k <= node[Leader].seq
           /\ first = from \/ \E n \in Nodes : first <= node[n].floor
<1>1. PICK first \in from .. node[Leader].seq :
        /\ s = After(first, Len(s))
        /\ first + Len(s) <= node[Leader].seq
        /\ first > from => \E n \in Nodes : first <= node[n].floor
  BY DEF Continues
<1>2. first \in Nat /\ from <= first /\ (first = from \/ first > from)
  BY Numbers
<1>3. PICK k \in Nat : k = Len(s)
  OBVIOUS
<1>4. s = After(first, k) /\ first + k <= node[Leader].seq
  BY <1>1, <1>3
<1> QED BY <1>1, <1>2, <1>3, <1>4

\* mutations_for_query answers with the history that it has not compacted.
LEMMA NodeAnswers ==
  ASSUME DeliveryInv, NEW n \in Nodes, NEW from \in Nat, from <= node[Leader].seq
  PROVE  /\ mutations_for_query(n, from) \in Seq(Nat)
         /\ Continues(from, mutations_for_query(n, from))
<1>1. /\ node[n].seq \in Nat /\ node[n].seq <= node[Leader].seq /\ node[Leader].seq \in Nat
      /\ node[n].floor \in Nat /\ node[n].floor <= node[n].seq
  BY Numbers
<1>2. PICK first \in Nat : first = Max2(from, node[n].floor)
  BY <1>1 DEF Max2
<1>3. PICK k \in Nat : k = Max2(node[n].seq - first, 0)
  BY <1>1 DEF Max2
<1>4. from <= first /\ first + k <= node[Leader].seq /\ (first = from \/ first <= node[n].floor)
  BY <1>1, <1>2, <1>3 DEF Max2
<1>5. mutations_for_query(n, from) = After(first, k)
  BY <1>2, <1>3 DEF mutations_for_query
<1>6. Continues(from, After(first, k)) /\ After(first, k) \in Seq(Nat)
  BY <1>4, StretchContinues, AfterType
<1> QED BY <1>5, <1>6

\* So does delta_bundle_for_query, whatever mutation the request ends at.
LEMMA NodeBundles ==
  ASSUME DeliveryInv, NEW n \in Nodes, NEW from \in Nat, from <= node[Leader].seq, NEW to \in Nat
  PROVE  /\ delta_bundle_for_query(n, from, to) \in Seq(Nat)
         /\ Continues(from, delta_bundle_for_query(n, from, to))
<1>1. PICK found \in Seq(Nat) : found = mutations_for_query(n, from) /\ Continues(from, found)
  BY NodeAnswers
<1>2. PICK first \in Nat, k \in Nat :
        /\ found = After(first, k) /\ k = Len(found)
        /\ from <= first /\ first + k <= node[Leader].seq
        /\ first = from \/ \E p \in Nodes : first <= node[p].floor
  BY <1>1, ContinuesStretch
<1> DEFINE all == After(first, k)
           kept == Filtered(all, {i \in DOMAIN all : all[i] <= to})
<1>4. PICK m \in 0 .. k : kept = After(first, m)
  BY FilteredHead
<1>5. delta_bundle_for_query(n, from, to) = kept
  <2>1. found = all
    BY <1>2
  <2> QED BY <1>1, <2>1 DEF delta_bundle_for_query
<1> HIDE DEF kept, all
<1>6. m \in Nat /\ first + m <= node[Leader].seq
  BY <1>2, Numbers
<1>7. Continues(from, After(first, m))
  BY <1>2, <1>6, StretchContinues
<1>8. After(first, m) \in Seq(Nat)
  BY <1>6, AfterType
<1> QED BY <1>4, <1>5, <1>7, <1>8

\* A stretch that starts where the cache or before it is asked for, in any request
\* that RelayCache answers.
LEMMA CacheAnswers ==
  ASSUME DeliveryInv, NEW from \in Nat, from <= node[Leader].seq, cache.base <= from
  PROVE  /\ mutations_for_shard(from) \in Seq(Nat)
         /\ Continues(from, mutations_for_shard(from))
         /\ \A to \in Nat : /\ delta_bundle(from, to) \in Seq(Nat)
                            /\ Continues(from, delta_bundle(from, to))
<1>1. /\ cache.base \in Nat /\ cache.watermark \in Nat /\ cache.base <= cache.watermark
      /\ cache.watermark <= node[Leader].seq /\ node[Leader].seq \in Nat
      /\ cache.mutations = After(cache.base, cache.watermark - cache.base)
  BY Numbers DEF DeliveryInv, Shapes, TypeOK
<1>2. PICK b \in Nat, k \in Nat : b = cache.base /\ k = cache.watermark - cache.base
  BY <1>1
<1>3. b <= from /\ b + k <= node[Leader].seq
  BY <1>1, <1>2
<1>4. ASSUME NEW m \in Nat, m = 0 \/ from + m <= b + k
      PROVE  After(from, m) \in Seq(Nat) /\ Continues(from, After(from, m))
  <2>1. from <= from /\ from + m <= node[Leader].seq
    BY <1>1, <1>3, <1>4
  <2> QED BY <2>1, AfterType, StretchContinues
<1> DEFINE found == After(b, k)
<1>5. cache.mutations = found
  BY <1>1, <1>2
<1>6. mutations_for_shard(from) \in Seq(Nat) /\ Continues(from, mutations_for_shard(from))
  <2> DEFINE kept == Filtered(found, {i \in DOMAIN found : found[i] > from})
  <2>1. kept = After(from, Max2(b + k - from, 0))
    BY <1>3, FilteredTail
  <2>2. mutations_for_shard(from) = kept
    BY <1>5 DEF mutations_for_shard
  <2> HIDE DEF kept, found
  <2>3. PICK m \in Nat : m = Max2(b + k - from, 0)
    BY DEF Max2
  <2>4. m = 0 \/ from + m <= b + k
    BY <2>3 DEF Max2
  <2> QED BY <1>4, <2>1, <2>2, <2>3, <2>4
<1>7. ASSUME NEW to \in Nat
      PROVE  delta_bundle(from, to) \in Seq(Nat) /\ Continues(from, delta_bundle(from, to))
  <2> DEFINE kept == Filtered(found, {i \in DOMAIN found : found[i] > from /\ found[i] <= to})
  <2>1. kept = After(from, Between(b + k, from, to))
    BY <1>3, FilteredMiddle
  <2>2. delta_bundle(from, to) = kept
    BY <1>5 DEF delta_bundle
  <2> HIDE DEF kept, found
  <2>3. PICK m \in Nat : m = Between(b + k, from, to)
    BY DEF Between
  <2>4. m = 0 \/ from + m <= b + k
    BY <2>3 DEF Between
  <2> QED BY <1>4, <2>1, <2>2, <2>3, <2>4
<1> QED BY <1>6, <1>7

\* An answer without a gap is a stretch that goes on where the request says.
LEMMA GaplessContinues ==
  ASSUME DeliveryInv, NEW from \in Nat, NEW s \in Seq(Nat), from <= node[Leader].seq,
         Continues(from, s), Gapless(from, s)
  PROVE  \E k \in Nat : s = After(from, k) /\ from + k <= node[Leader].seq
<1>1. PICK first \in Nat, k \in Nat :
        /\ s = After(first, k) /\ k = Len(s)
        /\ from <= first /\ first + k <= node[Leader].seq
  BY ContinuesStretch
<1>3. CASE k = 0
  <2>1. After(first, 0) = After(from, 0)
    BY DEF After
  <2>2. from + 0 <= node[Leader].seq
    BY Numbers
  <2> QED BY <1>1, <1>3, <2>1, <2>2
<1>4. CASE k # 0
  <2>1. 1 \in 1 .. k
    BY <1>4
  <2>2. s[1] = first + 1
    BY <1>1, <2>1, AfterType
  <2>3. s[1] <= 1 + Max2(from, 0)
    BY <1>1, <2>1 DEF Gapless
  <2>4. first = from
    BY <1>1, <2>2, <2>3 DEF Max2
  <2> QED BY <1>1, <2>4
<1> QED BY <1>3, <1>4

(***************************************************************************)
(* The relay's cache.                                                      *)
(***************************************************************************)

\* A cache that is a stretch of the leader's history.
CacheOK(c) ==
    /\ c \in [base : Nat, watermark : Nat, mutations : Seq(Nat)]
    /\ c.base <= c.watermark
    /\ c.watermark <= node[Leader].seq
    /\ c.mutations = After(c.base, c.watermark - c.base)

\* The invariant says so of the relay's.
LEMMA CacheIsOK ==
  ASSUME DeliveryInv
  PROVE  CacheOK(cache)
  BY DEF DeliveryInv, Shapes, TypeOK, CacheOK

\* RelayCache::new at a watermark.
LEMMA RelayCacheOK ==
  ASSUME DeliveryInv, NEW w \in Nat, w <= node[Leader].seq
  PROVE  CacheOK(RelayCache(w)) /\ RelayCache(w).watermark = w
<1>1. After(w, w - w) = <<>>
  BY DEF After
<1> QED BY <1>1 DEF CacheOK, RelayCache

\* A cache that is lengthened by the stretch after its watermark.
LEMMA LongerCache ==
  ASSUME DeliveryInv, NEW c, CacheOK(c), NEW k \in Nat,
         c.watermark + k <= node[Leader].seq,
         NEW d, d = [c EXCEPT !.watermark = c.watermark + k,
                              !.mutations = c.mutations \o After(c.watermark, k)]
  PROVE  CacheOK(d) /\ d.watermark = c.watermark + k
<1> DEFINE ms == c.mutations \o After(c.watermark, k)
<1>1. /\ c \in [base : Nat, watermark : Nat, mutations : Seq(Nat)]
      /\ c.base <= c.watermark
      /\ c.mutations = After(c.base, c.watermark - c.base)
  BY DEF CacheOK
<1>2. PICK b \in Nat, l \in Nat : b = c.base /\ l = c.watermark - c.base
  BY <1>1
<1>3. c.watermark = b + l
  BY <1>1, <1>2
<1>4. ms = After(b, l + k) /\ ms \in Seq(Nat)
  <2>1. c.mutations = After(b, l)
    BY <1>1, <1>2
  <2>2. ms = After(b, l) \o After(b + l, k)
    BY <1>3, <2>1
  <2>3. l + k \in Nat
    OBVIOUS
  <2>4. After(b, l + k) \in Seq(Nat)
    BY <2>3, AfterType
  <2> QED BY <2>2, <2>4, ConcatAfter
<1>w. PICK w \in Nat : w = c.watermark + k /\ w = b + l + k
  BY <1>3
<1> HIDE DEF ms
<1>5. /\ d \in [base : Nat, watermark : Nat, mutations : Seq(Nat)]
      /\ d.base = b /\ d.watermark = b + l + k /\ d.mutations = ms
  <2>1. d = [c EXCEPT !.watermark = w, !.mutations = ms]
    BY <1>w DEF ms
  <2> QED BY <1>1, <1>2, <1>4, <1>w, <2>1
<1>6. (b + l + k) - b = l + k /\ b <= b + l + k /\ b + l + k <= node[Leader].seq
  BY <1>3
<1> QED BY <1>3, <1>4, <1>5, <1>6 DEF CacheOK

\* A mutation at the end of others is a stretch of one.
LEMMA AppendIsConcat ==
  ASSUME NEW s \in Seq(Nat), NEW i \in Nat
  PROVE  Append(s, i) = s \o << i >>
  OBVIOUS

\* RelayCache::apply of a mutation that is not a gap.
LEMMA CachedOK ==
  ASSUME DeliveryInv, NEW c, CacheOK(c), NEW i \in Nat,
         i <= c.watermark + 1, i <= node[Leader].seq
  PROVE  /\ CacheOK(Cached(c, i))
         /\ Cached(c, i).watermark >= i /\ Cached(c, i).watermark >= c.watermark
<1>1. c.watermark \in Nat /\ c.mutations \in Seq(Nat)
  BY DEF CacheOK
<1>2. CASE i <= c.watermark
  BY <1>1, <1>2 DEF Cached
<1>3. CASE ~(i <= c.watermark)
  <2>1. i = c.watermark + 1
    BY <1>1, <1>3
  <2>2. PICK d : d = [c EXCEPT !.watermark = c.watermark + 1,
                              !.mutations = c.mutations \o After(c.watermark, 1)]
    OBVIOUS
  <2>3. After(c.watermark, 1) = << c.watermark + 1 >>
    BY <1>1 DEF After
  <2>4. Append(c.mutations, i) = c.mutations \o After(c.watermark, 1)
    <3>1. Append(c.mutations, i) = c.mutations \o << i >>
      BY <1>1, AppendIsConcat
    <3> QED BY <2>1, <2>3, <3>1
  <2>5. Cached(c, i) = d
    BY <1>3, <2>1, <2>2, <2>4 DEF Cached
  <2>6. CacheOK(d) /\ d.watermark = c.watermark + 1
    BY <2>1, <2>2, LongerCache
  <2> QED BY <1>1, <2>1, <2>5, <2>6
<1> QED BY <1>2, <1>3

\* repair_gap lengthens a cache by a bundle without a gap.
LEMMA BundledOK ==
  ASSUME DeliveryInv, NEW bundle \in Seq(Nat), Continues(cache.watermark, bundle),
         Gapless(cache.watermark, bundle),
         NEW d, d = [cache EXCEPT !.watermark = Reached(cache.watermark, bundle),
                                  !.mutations = cache.mutations \o bundle]
  PROVE  CacheOK(d) /\ d.watermark >= cache.watermark
<1>1. CacheOK(cache) /\ cache.watermark \in Nat /\ cache.watermark <= node[Leader].seq
  BY CacheIsOK DEF CacheOK
<1>2. PICK w \in Nat : w = cache.watermark
  BY <1>1
<1>3. PICK k \in Nat : bundle = After(w, k) /\ w + k <= node[Leader].seq
  BY <1>1, <1>2, GaplessContinues
<1>4. Reached(w, bundle) = w + k
  BY <1>3, ReachedAfter
<1>5. d = [cache EXCEPT !.watermark = cache.watermark + k,
                        !.mutations = cache.mutations \o After(cache.watermark, k)]
  BY <1>2, <1>3, <1>4
<1>6. cache.watermark + k <= node[Leader].seq
  BY <1>2, <1>3
<1>7. CacheOK(d) /\ d.watermark = cache.watermark + k
  BY <1>1, <1>5, <1>6, LongerCache
<1> QED BY <1>1, <1>7

(***************************************************************************)
(* The invariant is inductive.                                             *)
(***************************************************************************)

\* It holds when nothing is committed and the agent has not started.
LEMMA InitDeliveryInv == Init => DeliveryInv
<1> SUFFICES ASSUME Init PROVE DeliveryInv
  OBVIOUS
<1>1. After(0, 0 - 0) = <<>>
  BY DEF After
<1>2. Leader \in Nodes
  BY DeliveryAssumption
<1>3. Shapes
  <2>1. cache = [base |-> 0, watermark |-> 0, mutations |-> <<>>]
    BY DEF Init, RelayCache
  <2>2. cache \in [base : Nat, watermark : Nat, mutations : Seq(Nat)]
        /\ cache.base <= cache.watermark
    BY <2>1
  <2>3. agent \in AgentStates
    BY <1>2 DEF Init, AgentStates, NoFile, NoBound
  <2>4. node \in [Nodes -> [seq : Nat, floor : Nat, snap : Nat]]
    BY DEF Init
  <2>5. /\ mode \in {"http", "jetstream"} /\ ackTable \in Nat
        /\ regressed \in BOOLEAN /\ restarted \in BOOLEAN
    BY DEF Init
  <2>6. pull \in [msg : Nat, step : {"idle", "asked", "rebuild"}, at : Nodes]
    BY <1>2 DEF Init, NoPull, Pulling
  <2> QED BY <2>2, <2>3, <2>4, <2>5, <2>6 DEF Shapes
<1>4. TypeOK
  <2>1. cache = [base |-> 0, watermark |-> 0, mutations |-> <<>>]
    BY DEF Init, RelayCache
  <2>2. \A n \in Nodes : node[n] = [seq |-> 0, floor |-> 0, snap |-> 0]
    BY DEF Init
  <2> QED BY <1>1, <1>2, <2>1, <2>2 DEF Init, TypeOK, NoFile
<1>5. PollUnderWay /\ PullUnderWay /\ BehindIsOwed /\ AckedIsDurable
  BY DEF Init, PollUnderWay, AnswersContinue, PullUnderWay, NoPull, Pulling, BehindIsOwed,
         AckedIsDurable, Max2, NoFile
<1> QED BY <1>3, <1>4, <1>5 DEF DeliveryInv

\* A step of the nodes that takes nothing from the leader keeps it.
LEMMA NodesMove ==
  ASSUME DeliveryInv,
         node' \in [Nodes -> [seq : Nat, floor : Nat, snap : Nat]],
         \A n \in Nodes : /\ node'[n].floor <= node'[n].snap
                          /\ node'[n].snap <= node'[n].seq
                          /\ node'[n].seq <= node'[Leader].seq,
         node'[Leader].seq >= node[Leader].seq,
         \A n \in Nodes : node'[n].floor >= node[n].floor,
         UNCHANGED << mode, published, acked, cache, pull, ackTable, agent, regressed, restarted >>
  PROVE  DeliveryInv'
<1>1. node[Leader].seq \in Nat /\ node'[Leader].seq \in Nat
  BY Numbers
<1>2. Shapes'
  BY DEF DeliveryInv, Shapes
<1>3. TypeOK'
  <2>1. published \subseteq 1 .. node'[Leader].seq
    BY <1>1 DEF DeliveryInv, TypeOK
  <2>2. cache.watermark \in Nat /\ cache.watermark <= node'[Leader].seq
    BY <1>1, Numbers DEF DeliveryInv, TypeOK
  <2>3. agent.mem \in 0 .. node'[Leader].seq
    BY <1>1 DEF DeliveryInv, TypeOK
  <2>4. agent.disk \in {NoFile} \cup 0 .. node'[Leader].seq
    BY <1>1 DEF DeliveryInv, TypeOK
  <2> QED BY <2>1, <2>2, <2>3, <2>4 DEF DeliveryInv, TypeOK
<1>4. PollUnderWay'
  <2>0. /\ agent.payload \in Seq(Nat) /\ agent.mem \in Nat /\ agent.next \in Nat
        /\ agent.to \in Nat \cup {NoBound}
    BY DEF DeliveryInv, Shapes, AgentStates
  <2>1. ASSUME NEW x \in Int, NEW n \in Nodes, x <= node[n].floor
        PROVE  x <= node'[n].floor
    <3>1. node[n].floor \in Nat /\ node'[n].floor \in Nat /\ node'[n].floor >= node[n].floor
      BY Numbers
    <3> QED BY <2>1, <3>1
  <2>2. ASSUME agent.pc = "got"
        PROVE  Continues(agent.mem, agent.payload)'
    <3>1. PICK from \in Nat, s \in Seq(Nat) : from = agent.mem /\ s = agent.payload
      BY <2>0
    <3>2. PICK first \in from .. node[Leader].seq :
            /\ s = After(first, Len(s))
            /\ first + Len(s) <= node[Leader].seq
            /\ first > from => \E n \in Nodes : first <= node[n].floor
      BY <2>2, <3>1 DEF DeliveryInv, PollUnderWay, AnswersContinue, Continues
    <3>3. first \in from .. node'[Leader].seq /\ Len(s) \in Nat /\ first \in Int
      BY <1>1
    <3>4. first + Len(s) <= node'[Leader].seq
      BY <1>1, <3>2, <3>3
    <3>5. first > from => \E n \in Nodes : first <= node'[n].floor
      BY <2>1, <3>2, <3>3
    <3>6. from = agent'.mem /\ s = agent'.payload
      BY <3>1
    <3>7. \E f \in from .. node'[Leader].seq :
            /\ s = After(f, Len(s))
            /\ f + Len(s) <= node'[Leader].seq
            /\ f > from => \E n \in Nodes : f <= node'[n].floor
      BY <3>2, <3>3, <3>4, <3>5
    <3> QED BY <3>6, <3>7 DEF Continues
  <2>3. AnswersContinue'
    BY <2>2 DEF AnswersContinue
  <2>4. agent.pc = "gap" => agent.to > agent.mem /\ \E n \in Nodes : agent.to <= node'[n].floor
    BY <2>0, <2>1 DEF DeliveryInv, PollUnderWay, NoBound
  <2>5. agent.pc = "swap" => agent.disk = agent.next /\ agent.next <= node'[Leader].seq
    BY <1>1, <2>0 DEF DeliveryInv, PollUnderWay
  <2> QED BY <2>3, <2>4, <2>5 DEF PollUnderWay
<1>5. PullUnderWay' /\ BehindIsOwed' /\ AckedIsDurable'
  BY DEF DeliveryInv, PullUnderWay, BehindIsOwed, AckedIsDurable
<1> QED BY <1>2, <1>3, <1>4, <1>5 DEF DeliveryInv

\* A node applies a mutation: the leader a new one, a follower one the leader has.
LEMMA ApplyKeeps ==
  ASSUME DeliveryInv, NEW n \in Nodes, ApplyAt(n),
         n # Leader => node[n].seq < node[Leader].seq
  PROVE  DeliveryInv'
<1>1. node \in [Nodes -> [seq : Nat, floor : Nat, snap : Nat]] /\ Leader \in Nodes
  BY DeliveryAssumption DEF DeliveryInv, Shapes
<1>2. \A p \in Nodes : /\ node[p].floor <= node[p].snap /\ node[p].snap <= node[p].seq
                       /\ node[p].seq <= node[Leader].seq
  BY DEF DeliveryInv, TypeOK
<1>3. PICK s \in {node[n].seq + 1, node[n].snap} :
        node' = [node EXCEPT ![n].seq = node[n].seq + 1, ![n].snap = s]
  <2>1. CASE node' = [node EXCEPT ![n].seq = @ + 1, ![n].snap = node[n].seq + 1]
    BY <2>1
  <2>2. CASE node' = [node EXCEPT ![n].seq = @ + 1]
    BY <1>1, <2>2
  <2> QED BY <2>1, <2>2 DEF ApplyAt
<1>4. s \in Nat /\ node[n].floor <= s /\ s <= node[n].seq + 1
  BY <1>1, <1>2
<1>5. /\ node' \in [Nodes -> [seq : Nat, floor : Nat, snap : Nat]]
      /\ node'[n].seq = node[n].seq + 1 /\ node'[n].snap = s
      /\ node'[n].floor = node[n].floor
      /\ \A p \in Nodes : p # n => node'[p] = node[p]
  <2>1. node[n].seq + 1 \in Nat
    BY <1>1
  <2> DEFINE q == node[n].seq + 1
  <2> HIDE DEF q
  <2>2. node' = [node EXCEPT ![n].seq = q, ![n].snap = s] /\ q \in Nat
    BY <1>3, <2>1 DEF q
  <2>3. /\ node' \in [Nodes -> [seq : Nat, floor : Nat, snap : Nat]]
        /\ node'[n].seq = q /\ node'[n].snap = s
        /\ node'[n].floor = node[n].floor
        /\ \A p \in Nodes : p # n => node'[p] = node[p]
    BY <1>1, <1>4, <2>2
  <2> QED BY <2>3 DEF q
<1>6. node'[Leader].seq >= node[Leader].seq /\ node'[n].seq <= node'[Leader].seq
  BY <1>1, <1>2, <1>5
<1>8. \A p \in Nodes : node'[p].floor >= node[p].floor
  BY <1>1, <1>5
<1>7. ASSUME NEW p \in Nodes
      PROVE  /\ node'[p].floor <= node'[p].snap /\ node'[p].snap <= node'[p].seq
             /\ node'[p].seq <= node'[Leader].seq
  <2>1. node[p].seq \in Nat /\ node[Leader].seq \in Nat /\ node'[Leader].seq \in Nat
    BY <1>1, <1>5
  <2> QED BY <1>2, <1>4, <1>5, <1>6, <2>1
<1> QED BY <1>5, <1>6, <1>7, <1>8, NodesMove DEF ApplyAt

\* maybe_compact_mutation_logs drops no more than the snapshot file it has written.
LEMMA CompactKeeps ==
  ASSUME DeliveryInv, Compact
  PROVE  DeliveryInv'
<1>1. node \in [Nodes -> [seq : Nat, floor : Nat, snap : Nat]] /\ Leader \in Nodes
  BY DeliveryAssumption DEF DeliveryInv, Shapes
<1>2. \A p \in Nodes : /\ node[p].floor <= node[p].snap /\ node[p].snap <= node[p].seq
                       /\ node[p].seq <= node[Leader].seq
  BY DEF DeliveryInv, TypeOK
<1>3. PICK n \in Nodes, k \in 1 .. MaxSeq :
        /\ node[n].floor < k /\ k <= node[n].seq
        /\ node' = [node EXCEPT ![n].floor = k, ![n].snap = node[n].seq]
  BY DEF Compact
<1>4. k \in Nat
  BY DeliveryAssumption
<1>5. /\ node' \in [Nodes -> [seq : Nat, floor : Nat, snap : Nat]]
      /\ node'[n].seq = node[n].seq /\ node'[n].snap = node[n].seq /\ node'[n].floor = k
      /\ \A p \in Nodes : p # n => node'[p] = node[p]
  BY <1>1, <1>3, <1>4
<1>6. \A p \in Nodes : node'[p].seq = node[p].seq
  BY <1>5
<1>7. ASSUME NEW p \in Nodes
      PROVE  /\ node'[p].floor <= node'[p].snap /\ node'[p].snap <= node'[p].seq
             /\ node'[p].seq <= node'[Leader].seq
  BY <1>1, <1>2, <1>3, <1>5, <1>6
<1>8. node'[Leader].seq >= node[Leader].seq
  BY <1>1, <1>6
<1>9. \A p \in Nodes : node'[p].floor >= node[p].floor
  BY <1>1, <1>3, <1>4, <1>5
<1> QED BY <1>5, <1>7, <1>8, <1>9, NodesMove DEF Compact

\* publish_committed_mutations only adds to the stream what the leader has.
LEMMA PublishKeeps ==
  ASSUME DeliveryInv, Publish
  PROVE  DeliveryInv'
<1>1. PICK i \in 1 .. node[Leader].seq : published' = published \cup {i}
  BY DEF Publish
<1>2. UNCHANGED << mode, node, acked, cache, pull, ackTable, agent, regressed, restarted >>
  BY DEF Publish
<1>3. Shapes' /\ AckedIsDurable'
  BY <1>2 DEF DeliveryInv, Shapes, AckedIsDurable
<1>4. PollUnderWay'
  BY <1>2 DEF DeliveryInv, PollUnderWay, AnswersContinue, Continues
<1>5. TypeOK'
  BY <1>1, <1>2 DEF DeliveryInv, TypeOK
<1>6. PullUnderWay' /\ BehindIsOwed'
  BY <1>1, <1>2 DEF DeliveryInv, PullUnderWay, BehindIsOwed
<1> QED BY <1>3, <1>4, <1>5, <1>6 DEF DeliveryInv

\* A step of the relay keeps the invariant where the cache stays a stretch of history
\* and a message that is acknowledged is in it or has one behind it.
LEMMA CacheMoves ==
  ASSUME DeliveryInv, CacheOK(cache)', BehindIsOwed', PullUnderWay',
         pull' \in [msg : Nat, step : {"idle", "asked", "rebuild"}, at : Nodes],
         UNCHANGED << mode, node, published, agent, regressed >>,
         acked' \subseteq published, ackTable' \in {0, ackTable}, restarted' \in BOOLEAN
  PROVE  DeliveryInv'
<1>1. Shapes'
  <2>1. Shapes
    BY DEF DeliveryInv
  <2>2. ackTable' \in Nat
    BY <2>1 DEF Shapes
  <2>3. mode' \in {"http", "jetstream"} /\ node' \in [Nodes -> [seq : Nat, floor : Nat, snap : Nat]]
    BY <2>1 DEF Shapes
  <2>4. cache' \in [base : Nat, watermark : Nat, mutations : Seq(Nat)] /\ cache'.base <= cache'.watermark
    BY DEF CacheOK
  <2>5. regressed' \in BOOLEAN /\ restarted' \in BOOLEAN /\ agent' \in AgentStates'
    BY <2>1, Zenon DEF Shapes, AgentStates
  <2> QED BY <2>2, <2>3, <2>4, <2>5 DEF Shapes
<1>2. TypeOK'
  BY DEF DeliveryInv, TypeOK, CacheOK
<1>3. PollUnderWay'
  BY DEF DeliveryInv, PollUnderWay, AnswersContinue, Continues
<1>4. AckedIsDurable'
  <2>1. ackTable \in Nat /\ agent.disk \in Nat \cup {NoFile}
    BY Numbers DEF DeliveryInv, Shapes
  <2>2. ~regressed => ackTable <= Max2(agent.disk, 0)
    BY DEF DeliveryInv, AckedIsDurable
  <2>3. ~regressed => ackTable' <= Max2(agent.disk, 0)
    BY <2>1, <2>2 DEF Max2, NoFile
  <2> QED BY <2>3 DEF AckedIsDurable
<1> QED BY <1>1, <1>2, <1>3, <1>4 DEF DeliveryInv

\* What the invariant says of the message in apply_or_repair.
LEMMA PullIsOK ==
  ASSUME DeliveryInv
  PROVE  /\ pull \in [msg : Nat, step : {"idle", "asked", "rebuild"}, at : Nodes]
         /\ NoPull \in [msg : Nat, step : {"idle", "asked", "rebuild"}, at : Nodes]
         /\ NoPull.step = "idle"
         /\ pull.step # "idle" => pull.msg \in published \ acked /\ pull.msg > cache.watermark + 1
         /\ restarted \in BOOLEAN
  BY Numbers DEF DeliveryInv, Shapes, PullUnderWay, NoPull, Pulling

\* pull_once of a message without a gap, whose acknowledgement arrives or is lost: an
\* earlier one that the cache is behind has a later one still to come.
LEMMA PullKeeps ==
  ASSUME DeliveryInv, PullAcks \/ PullUnacked
  PROVE  DeliveryInv'
<1>1. PICK i \in published \ acked :
        /\ pull.step = "idle" /\ i <= cache.watermark + 1
        /\ cache' = Cached(cache, i)
        /\ acked' = acked \cup {i} \/ acked' = acked
        /\ UNCHANGED << mode, node, published, ackTable, agent, regressed, restarted, pull >>
  BY DEF PullAcks, PullUnacked, PullStays
<1>2. /\ i \in Nat /\ i <= node[Leader].seq /\ published \subseteq Nat
      /\ acked \subseteq published /\ cache.watermark \in Nat
  BY Numbers DEF DeliveryInv, TypeOK
<1>3. PICK d : d = Cached(cache, i)
  OBVIOUS
<1>4. CacheOK(d) /\ d.watermark >= i /\ d.watermark >= cache.watermark /\ d.watermark \in Nat
  <2>1. CacheOK(d) /\ d.watermark >= i /\ d.watermark >= cache.watermark
    BY <1>1, <1>2, <1>3, CacheIsOK, CachedOK
  <2> QED BY <2>1 DEF CacheOK
<1>5. CacheOK(cache)'
  BY <1>1, <1>3, <1>4 DEF CacheOK
<1>6. BehindIsOwed'
  <2> SUFFICES ASSUME ~restarted, NEW a \in acked', a > d.watermark
               PROVE  \E j \in published \ acked' : j > a
    BY <1>1, <1>3 DEF BehindIsOwed
  <2>1. a \in acked /\ a \in Nat
    <3>1. a \in acked \/ a = i
      BY <1>1
    <3>2. a # i
      BY <1>2, <1>4
    <3> QED BY <1>2, <3>1, <3>2
  <2>2. a > cache.watermark
    BY <1>2, <1>4, <2>1
  <2>3. PICK j \in published \ acked : j > a
    BY <2>1, <2>2 DEF DeliveryInv, BehindIsOwed
  <2>4. j # i
    BY <1>2, <1>4, <2>1, <2>3
  <2> QED BY <1>1, <2>3, <2>4
<1>7. PullUnderWay'
  BY <1>1 DEF PullUnderWay
<1>8. acked' \subseteq published /\ restarted' \in BOOLEAN
  BY <1>1, <1>2, PullIsOK
<1> QED BY <1>1, <1>5, <1>6, <1>7, <1>8, PullIsOK, CacheMoves

\* repair_gap asks for a bundle.
LEMMA PullAsksKeeps ==
  ASSUME DeliveryInv, NEW n \in Nodes, PullAsks(n)
  PROVE  DeliveryInv'
<1>1. PICK i \in published \ acked :
        /\ i > cache.watermark + 1
        /\ pull' = Pulling(i, "rebuild", Leader) \/ pull' = Pulling(i, "asked", n)
        /\ UNCHANGED << mode, node, published, ackTable, agent, regressed, restarted, acked, cache >>
  BY DEF PullAsks, PullStays
<1>2. /\ pull' \in [msg : Nat, step : {"idle", "asked", "rebuild"}, at : Nodes]
      /\ pull'.msg = i
  BY <1>1, Numbers DEF Pulling
<1>3. PullUnderWay'
  BY <1>1, <1>2 DEF PullUnderWay
<1>4. CacheOK(cache)'
  BY <1>1, CacheIsOK DEF CacheOK
<1>5. BehindIsOwed' /\ acked' \subseteq published /\ restarted' \in BOOLEAN
  BY <1>1, Numbers, PullIsOK DEF DeliveryInv, BehindIsOwed
<1> QED BY <1>1, <1>2, <1>3, <1>4, <1>5, CacheMoves

\* The bundle only lengthens the cache.
LEMMA PullReadsKeeps ==
  ASSUME DeliveryInv, PullReads
  PROVE  DeliveryInv'
<1>1. PICK bundle : bundle = delta_bundle_for_query(pull.at, cache.watermark, pull.msg)
  OBVIOUS
<1>2. /\ cache' = IF Gapless(cache.watermark, bundle)
                  THEN [cache EXCEPT !.watermark = Reached(@, bundle), !.mutations = @ \o bundle]
                  ELSE cache
      /\ pull' = NoPull
      /\ UNCHANGED << mode, node, published, ackTable, agent, regressed, restarted, acked >>
  BY <1>1 DEF PullReads, PullStays
<1>3. bundle \in Seq(Nat) /\ Continues(cache.watermark, bundle)
  <2>1. /\ pull.at \in Nodes /\ pull.msg \in Nat
        /\ cache.watermark \in Nat /\ cache.watermark <= node[Leader].seq
    BY PullIsOK, CacheIsOK DEF CacheOK
  <2>2. PICK n \in Nodes, w \in Nat, to \in Nat :
          n = pull.at /\ w = cache.watermark /\ to = pull.msg
    BY <2>1
  <2>3. w <= node[Leader].seq /\ bundle = delta_bundle_for_query(n, w, to)
    BY <1>1, <2>1, <2>2
  <2>4. bundle \in Seq(Nat) /\ Continues(w, bundle)
    BY <2>3, NodeBundles
  <2> QED BY <2>2, <2>4
<1>4. PICK d : d = cache'
  OBVIOUS
<1>5. CacheOK(d) /\ d.watermark >= cache.watermark /\ cache.watermark \in Nat /\ d.watermark \in Nat
  <2>0. CacheOK(cache) /\ cache.watermark \in Nat
    BY CacheIsOK DEF CacheOK
  <2>1. CASE Gapless(cache.watermark, bundle)
    <3>1. d = [cache EXCEPT !.watermark = Reached(cache.watermark, bundle),
                            !.mutations = cache.mutations \o bundle]
      BY <1>2, <1>4, <2>1
    <3>2. CacheOK(d) /\ d.watermark >= cache.watermark
      BY <1>3, <2>1, <3>1, BundledOK
    <3> QED BY <2>0, <3>2 DEF CacheOK
  <2>2. CASE ~Gapless(cache.watermark, bundle)
    BY <1>2, <1>4, <2>0, <2>2
  <2> QED BY <2>1, <2>2
<1>6. CacheOK(cache)'
  BY <1>2, <1>4, <1>5 DEF CacheOK
<1>7. BehindIsOwed'
  <2> SUFFICES ASSUME ~restarted, NEW a \in acked, a > d.watermark
               PROVE  \E j \in published \ acked : j > a
    BY <1>2, <1>4 DEF BehindIsOwed
  <2>1. a > cache.watermark
    BY <1>5, Numbers
  <2> QED BY <2>1 DEF DeliveryInv, BehindIsOwed
<1>8. PullUnderWay' /\ acked' \subseteq published /\ restarted' \in BOOLEAN
  BY <1>2, Numbers, PullIsOK DEF PullUnderWay
<1> QED BY <1>2, <1>6, <1>7, <1>8, PullIsOK, CacheMoves

\* rebuild_cache_from_snapshot may put the cache behind messages that are
\* acknowledged, but the one it is done for is beyond them and is not.
LEMMA PullRebuildsKeeps ==
  ASSUME DeliveryInv, NEW m \in Nodes, PullRebuilds(m)
  PROVE  DeliveryInv'
<1>1. /\ pull.step = "rebuild"
      /\ cache' = RelayCache(node[m].snap)
      /\ pull' = NoPull
      /\ UNCHANGED << mode, node, published, ackTable, agent, regressed, restarted, acked >>
  BY DEF PullRebuilds, PullStays
<1>2. PICK w \in Nat : w = node[m].snap /\ w <= node[Leader].seq
  BY Numbers
<1>3. PICK d : d = RelayCache(w)
  OBVIOUS
<1>4. CacheOK(d)
  BY <1>2, <1>3, RelayCacheOK
<1>5. CacheOK(cache)'
  BY <1>1, <1>2, <1>3, <1>4 DEF CacheOK
<1>6. BehindIsOwed'
  <2> SUFFICES ASSUME ~restarted, NEW a \in acked
               PROVE  \E j \in published \ acked : j > a
    BY <1>1 DEF BehindIsOwed
  <2>1. pull.msg \in published \ acked /\ pull.msg > cache.watermark + 1 /\ cache.watermark \in Nat
        /\ a \in Nat /\ pull.msg \in Nat
    BY <1>1, PullIsOK, Numbers
  <2>2. CASE a > cache.watermark
    BY <2>2 DEF DeliveryInv, BehindIsOwed
  <2>3. CASE ~(a > cache.watermark)
    BY <2>1, <2>3
  <2> QED BY <2>2, <2>3
<1>7. PullUnderWay' /\ acked' \subseteq published /\ restarted' \in BOOLEAN
  BY <1>1, Numbers, PullIsOK DEF PullUnderWay
<1> QED BY <1>1, <1>5, <1>6, <1>7, PullIsOK, CacheMoves

\* bootstrap_cache of a relay started again.
LEMMA RestartRelayKeeps ==
  ASSUME DeliveryInv, RestartRelay
  PROVE  DeliveryInv'
<1>1. PICK n \in Nodes : \E w \in {node[n].snap, node[n].seq, 0} :
        cache' = IF mode = "http" THEN cache ELSE RelayCache(w)
  BY DEF RestartRelay
<1>2. PICK w \in {node[n].snap, node[n].seq, 0} :
        cache' = IF mode = "http" THEN cache ELSE RelayCache(w)
  BY <1>1
<1>3. /\ ackTable' = 0 /\ restarted' = TRUE /\ pull' = NoPull
      /\ UNCHANGED << mode, node, published, acked, agent, regressed >>
  BY DEF RestartRelay
<1>4. w \in Nat /\ w <= node[Leader].seq
  BY Numbers
<1>5. PICK d : d = cache'
  OBVIOUS
<1>6. CacheOK(d)
  BY <1>2, <1>4, <1>5, CacheIsOK, RelayCacheOK
<1>7. CacheOK(cache)'
  BY <1>3, <1>5, <1>6 DEF CacheOK
<1>8. BehindIsOwed' /\ PullUnderWay' /\ acked' \subseteq published
  BY <1>3, PullIsOK, Numbers DEF BehindIsOwed, PullUnderWay
<1> QED BY <1>3, <1>7, <1>8, CacheMoves, PullIsOK

(***************************************************************************)
(* The agent's steps.                                                      *)
(***************************************************************************)

\* A step of the agent keeps the invariant where what it then holds is of the
\* leader's history and the relay's ack of it is in its file.
LEMMA AgentMoves ==
  ASSUME DeliveryInv,
         agent' \in AgentStates,
         agent'.mem <= node[Leader].seq,
         agent'.disk \in {NoFile} \cup 0 .. node[Leader].seq,
         PollUnderWay', AckedIsDurable', regressed' \in BOOLEAN, ackTable' \in Nat,
         UNCHANGED << mode, node, published, acked, cache, pull, restarted >>
  PROVE  DeliveryInv'
<1>1. Shapes'
  BY DEF DeliveryInv, Shapes
<1>2. /\ agent'.mem \in 0 .. node[Leader].seq
      /\ agent'.pc \in {"down", "idle", "asked", "got", "gap", "repair", "swap"}
  BY Numbers DEF AgentStates
<1>3. TypeOK'
  BY <1>2 DEF DeliveryInv, TypeOK
<1>4. BehindIsOwed' /\ PullUnderWay'
  BY DEF DeliveryInv, BehindIsOwed, PullUnderWay
<1> QED BY <1>1, <1>3, <1>4 DEF DeliveryInv

\* What the invariant says of the agent.
LEMMA AgentIsOK ==
  ASSUME DeliveryInv
  PROVE  /\ agent \in AgentStates
         /\ agent.mem <= node[Leader].seq /\ node[Leader].seq \in Nat
         /\ agent.disk \in {NoFile} \cup 0 .. node[Leader].seq
         /\ regressed \in BOOLEAN /\ ackTable \in Nat
         /\ ~regressed => ackTable <= Max2(agent.disk, 0)
         /\ agent.payload \in Seq(Nat) /\ agent.mem \in Nat /\ agent.next \in Nat
         /\ agent.at \in Nodes /\ agent.to \in Nat \cup {NoBound}
<1>1. agent \in AgentStates /\ regressed \in BOOLEAN /\ ackTable \in Nat
  BY DEF DeliveryInv, Shapes
<1>2. agent.mem \in 0 .. node[Leader].seq /\ agent.disk \in {NoFile} \cup 0 .. node[Leader].seq
  BY DEF DeliveryInv, TypeOK
<1>3. ~regressed => ackTable <= Max2(agent.disk, 0)
  BY DEF DeliveryInv, AckedIsDurable
<1>4. node[Leader].seq \in Nat
  BY Numbers
<1>5. agent.mem <= node[Leader].seq
  BY <1>2, <1>4
<1>6. /\ agent.payload \in Seq(Nat) /\ agent.mem \in Nat /\ agent.next \in Nat
      /\ agent.at \in Nodes /\ agent.to \in Nat \cup {NoBound}
  BY <1>1 DEF AgentStates
<1> QED BY <1>1, <1>2, <1>3, <1>4, <1>5, <1>6

\* A poll that holds nothing.
LEMMA EmptyPayload == <<>> \in Seq(Nat)
  OBVIOUS

\* A step of a poll that leaves the state in memory and the file alone, and after
\* which what the agent holds is as the invariant says.
LEMMA PollMoves ==
  ASSUME DeliveryInv, NEW pc \in {"idle", "asked", "got", "gap", "repair"}, NEW n \in Nodes,
         NEW to \in Nat \cup {NoBound}, NEW payload \in Seq(Nat),
         agent' = [agent EXCEPT !.pc = pc, !.at = n, !.to = to, !.payload = payload],
         pc = "got" => Continues(agent.mem, payload),
         pc = "gap" => to > agent.mem /\ \E p \in Nodes : to <= node[p].floor,
         AgentStays, UNCHANGED regressed
  PROVE  DeliveryInv'
<1>1. /\ agent' \in AgentStates
      /\ agent'.mem = agent.mem /\ agent'.disk = agent.disk /\ agent'.pc = pc
      /\ agent'.payload = payload /\ agent'.to = to
  BY AgentIsOK DEF AgentStates
<1>2. UNCHANGED << mode, node, published, acked, cache, pull, restarted, ackTable >>
  BY DEF AgentStays
<1>3. AckedIsDurable'
  BY <1>1, <1>2 DEF DeliveryInv, AckedIsDurable
<1>4. PollUnderWay'
  <2>1. pc = "got" => Continues(agent.mem, agent.payload)'
    BY <1>1, <1>2 DEF Continues
  <2> QED BY <1>1, <1>2, <2>1 DEF PollUnderWay, AnswersContinue
<1> QED BY <1>1, <1>2, <1>3, <1>4, AgentIsOK, AgentMoves

\* A poll that ends without a new state.
LEMMA IdleKeeps ==
  ASSUME DeliveryInv, agent' = Idle, AgentStays, UNCHANGED regressed
  PROVE  DeliveryInv'
<1>1. PICK s \in Seq(Nat) : s = <<>>
  BY EmptyPayload
<1>2. agent' = [agent EXCEPT !.pc = "idle", !.at = Leader, !.to = NoBound, !.payload = s]
  BY <1>1 DEF Idle
<1> QED BY <1>2, Numbers, PollMoves

\* A poll that goes on with repair_from_snapshot.
LEMMA ToRepairKeeps ==
  ASSUME DeliveryInv, agent' = Repairing("repair", NoBound), AgentStays, UNCHANGED regressed
  PROVE  DeliveryInv'
<1>1. PICK s \in Seq(Nat) : s = <<>>
  BY EmptyPayload
<1>2. agent' = [agent EXCEPT !.pc = "repair", !.at = Leader, !.to = NoBound, !.payload = s]
  BY <1>1 DEF Repairing
<1> QED BY <1>2, Numbers, PollMoves

\* A poll that has an answer which continues.
LEMMA GotKeeps ==
  ASSUME DeliveryInv, NEW s \in Seq(Nat), Continues(agent.mem, s),
         agent' = Polling("got", Leader, s), AgentStays, UNCHANGED regressed
  PROVE  DeliveryInv'
<1>1. agent' = [agent EXCEPT !.pc = "got", !.at = Leader, !.to = agent.to, !.payload = s]
  BY AgentIsOK DEF Polling, AgentStates
<1>2. PICK to \in Nat \cup {NoBound} : to = agent.to
  BY AgentIsOK
<1>3. agent' = [agent EXCEPT !.pc = "got", !.at = Leader, !.to = to, !.payload = s]
  BY <1>1, <1>2
<1> QED BY <1>3, Numbers, PollMoves

\* The relay's answer to poll_once or repair_gap from its cache continues.
LEMMA CacheAnswerOK ==
  ASSUME DeliveryInv, AnsweredFromCache(agent.mem)
  PROVE  CacheAnswer \in Seq(Nat) /\ Continues(agent.mem, CacheAnswer)
<1>1. PICK from \in Nat : from = agent.mem /\ from <= node[Leader].seq
  BY AgentIsOK
<1>2. cache.base <= from
  BY <1>1, Numbers DEF AnsweredFromCache
<1>3. CASE agent.to = NoBound
  BY <1>1, <1>2, <1>3, CacheAnswers DEF CacheAnswer
<1>4. CASE agent.to # NoBound
  <2>1. PICK to \in Nat : to = agent.to
    BY <1>4, AgentIsOK
  <2>2. delta_bundle(from, to) \in Seq(Nat) /\ Continues(from, delta_bundle(from, to))
    BY <1>1, <1>2, CacheAnswers
  <2>3. CacheAnswer = delta_bundle(from, to)
    BY <1>1, <1>4, <2>1 DEF CacheAnswer
  <2> QED BY <1>1, <2>2, <2>3
<1> QED BY <1>3, <1>4

\* So does that of a node, whenever it reads.
LEMMA NodeAnswerOK ==
  ASSUME DeliveryInv, NEW n \in Nodes
  PROVE  NodeAnswer(n) \in Seq(Nat) /\ Continues(agent.mem, NodeAnswer(n))
<1>1. PICK from \in Nat : from = agent.mem /\ from <= node[Leader].seq
  BY AgentIsOK
<1>2. CASE agent.to = NoBound
  BY <1>1, <1>2, NodeAnswers DEF NodeAnswer
<1>3. CASE agent.to # NoBound
  <2>1. PICK to \in Nat : to = agent.to
    BY <1>3, AgentIsOK
  <2>2. /\ delta_bundle_for_query(n, from, to) \in Seq(Nat)
        /\ Continues(from, delta_bundle_for_query(n, from, to))
    BY <1>1, NodeBundles
  <2>3. NodeAnswer(n) = delta_bundle_for_query(n, from, to)
    BY <1>1, <1>3, <2>1 DEF NodeAnswer
  <2> QED BY <1>1, <2>2, <2>3
<1> QED BY <1>2, <1>3

\* poll_once and repair_gap ask.
LEMMA AskKeeps ==
  ASSUME DeliveryInv, NEW n \in Nodes, AgentAsks(n)
  PROVE  DeliveryInv'
<1>1. AgentStays /\ UNCHANGED regressed
  BY DEF AgentAsks
<1>2. CASE AnsweredFromCache(agent.mem) /\ agent' = Polling("got", Leader, CacheAnswer)
  <2>1. PICK s \in Seq(Nat) : s = CacheAnswer /\ Continues(agent.mem, s)
    BY <1>2, CacheAnswerOK
  <2> QED BY <1>1, <1>2, <2>1, GotKeeps
<1>3. CASE agent' = Repairing("repair", NoBound)
  BY <1>1, <1>3, ToRepairKeeps
<1>4. CASE agent' = Polling("asked", n, <<>>)
  <2>1. PICK s \in Seq(Nat), to \in Nat \cup {NoBound} : s = <<>> /\ to = agent.to
    BY EmptyPayload, AgentIsOK
  <2>2. agent' = [agent EXCEPT !.pc = "asked", !.at = n, !.to = to, !.payload = s]
    BY <1>4, <2>1, AgentIsOK DEF Polling, AgentStates
  <2> QED BY <1>1, <2>2, PollMoves
<1> QED BY <1>2, <1>3, <1>4 DEF AgentAsks

\* The node that was asked answers.
LEMMA AnswerKeeps ==
  ASSUME DeliveryInv, AgentIsAnswered
  PROVE  DeliveryInv'
<1>1. AgentStays /\ UNCHANGED regressed /\ agent' = Polling("got", Leader, NodeAnswer(agent.at))
  BY DEF AgentIsAnswered
<1>2. PICK n \in Nodes : n = agent.at
  BY AgentIsOK
<1>3. PICK s \in Seq(Nat) : s = NodeAnswer(n) /\ Continues(agent.mem, s)
  BY NodeAnswerOK
<1> QED BY <1>1, <1>2, <1>3, GotKeeps

\* A new state in the snapshot file that is of the leader's history.
LEMMA WriteKeeps ==
  ASSUME DeliveryInv, NEW next \in Nat, next <= node[Leader].seq,
         WriteSnapshotFile(next), AgentStays
  PROVE  DeliveryInv'
<1>1. /\ agent' = [Idle EXCEPT !.pc = "swap", !.disk = next, !.next = next]
      /\ regressed' = (regressed \/ next < agent.disk)
      /\ UNCHANGED << mode, node, published, acked, cache, pull, ackTable, restarted >>
  BY DEF WriteSnapshotFile, AgentStays
<1>2. /\ agent' \in AgentStates
      /\ agent'.mem = agent.mem /\ agent'.disk = next /\ agent'.next = next
      /\ agent'.pc = "swap"
  <2>1. PICK s \in Seq(Nat) : s = <<>>
    BY EmptyPayload
  <2>2. PICK idle : idle = [agent EXCEPT !.pc = "idle", !.at = Leader, !.to = NoBound, !.payload = s]
    OBVIOUS
  <2>3. idle \in AgentStates /\ idle.mem = agent.mem
    BY <2>2, AgentIsOK, Numbers DEF AgentStates
  <2>4. agent' = [idle EXCEPT !.pc = "swap", !.disk = next, !.next = next]
    BY <1>1, <2>1, <2>2 DEF Idle
  <2> QED BY <2>3, <2>4 DEF AgentStates
<1>3. PollUnderWay'
  BY <1>1, <1>2 DEF PollUnderWay, AnswersContinue
<1>4. AckedIsDurable'
  <2>1. ~regressed' => ~regressed /\ ~(next < agent.disk)
    BY <1>1
  <2>2. ~regressed' => ackTable <= Max2(next, 0)
    BY <2>1, AgentIsOK DEF Max2, NoFile
  <2> QED BY <1>1, <1>2, <2>2 DEF AckedIsDurable
<1>5. regressed' \in BOOLEAN
  BY <1>1
<1>6. next \in {NoFile} \cup 0 .. node[Leader].seq
  BY AgentIsOK
<1> QED BY <1>1, <1>2, <1>3, <1>4, <1>5, <1>6, AgentIsOK, AgentMoves

\* A gap in an answer is one before its first mutation, and a node has compacted
\* everything before that.
LEMMA GapIsCompacted ==
  ASSUME DeliveryInv, agent.pc = "got", agent.payload # <<>>, ~Gapless(agent.mem, agent.payload)
  PROVE  /\ agent.payload[1] - 1 \in Nat /\ agent.payload[1] - 1 > agent.mem
         /\ \E n \in Nodes : agent.payload[1] - 1 <= node[n].floor
<1>1. PICK mem \in Nat, s \in Seq(Nat) : mem = agent.mem /\ s = agent.payload
  BY AgentIsOK
<1>2. Continues(mem, s)
  BY <1>1 DEF DeliveryInv, PollUnderWay, AnswersContinue
<1>3. PICK first \in Nat, k \in Nat :
        /\ s = After(first, k) /\ k = Len(s) /\ mem <= first
        /\ first = mem \/ \E n \in Nodes : first <= node[n].floor
  BY <1>2, ContinuesStretch
<1>4. first # mem
  <2>1. Gapless(mem, After(mem, k))
    BY ReachedAfter
  <2> QED BY <1>1, <1>3, <2>1
<1>5. s[1] = first + 1
  <2>1. k # 0
    BY <1>1, <1>3
  <2>2. 1 \in 1 .. k
    BY <2>1
  <2>3. After(first, k)[1] = first + 1
    BY <2>2, AfterType
  <2> QED BY <1>3, <2>3
<1>6. s[1] - 1 = first /\ first > mem
  BY <1>3, <1>4, <1>5
<1>7. s[1] - 1 \in Nat /\ s[1] - 1 > mem /\ \E n \in Nodes : s[1] - 1 <= node[n].floor
  BY <1>3, <1>4, <1>6
<1> QED BY <1>1, <1>7

\* poll_once and repair_gap apply an answer, or go on after a gap.
LEMMA AcceptKeeps ==
  ASSUME DeliveryInv, agent.pc = "got", Accepts, AgentStays
  PROVE  DeliveryInv'
<1>1. CASE agent.payload # <<>> /\ Gapless(agent.mem, agent.payload)
  <2>1. PICK mem \in Nat, s \in Seq(Nat) : mem = agent.mem /\ s = agent.payload
    BY AgentIsOK
  <2>2. Continues(mem, s) /\ Gapless(mem, s) /\ mem <= node[Leader].seq
    BY <1>1, <2>1, AgentIsOK DEF DeliveryInv, PollUnderWay, AnswersContinue
  <2>3. PICK k \in Nat : s = After(mem, k) /\ mem + k <= node[Leader].seq
    BY <2>2, GaplessContinues
  <2>4. PICK next \in Nat : next = mem + k
    OBVIOUS
  <2>5. Reached(agent.mem, agent.payload) = next /\ next <= node[Leader].seq
    BY <2>1, <2>3, <2>4, ReachedAfter
  <2>6. WriteSnapshotFile(next)
    BY <1>1, <2>5 DEF Accepts
  <2> QED BY <2>5, <2>6, WriteKeeps
<1>2. CASE ~(agent.payload # <<>> /\ Gapless(agent.mem, agent.payload))
  <2>1. UNCHANGED regressed
    BY <1>2 DEF Accepts
  <2>2. \/ agent' = Idle
        \/ agent' = Repairing("repair", NoBound)
        \/ agent.payload # <<>> /\ agent' = Repairing("gap", agent.payload[1] - 1)
    BY <1>2 DEF Accepts
  <2>3. CASE agent' = Idle
    BY <2>1, <2>3, IdleKeeps
  <2>4. CASE agent' = Repairing("repair", NoBound)
    BY <2>1, <2>4, ToRepairKeeps
  <2>5. CASE agent.payload # <<>> /\ agent' = Repairing("gap", agent.payload[1] - 1)
    <3>1. PICK to \in Nat : to = agent.payload[1] - 1 /\ to > agent.mem
                            /\ \E n \in Nodes : to <= node[n].floor
      BY <1>2, <2>5, GapIsCompacted
    <3>2. PICK s \in Seq(Nat) : s = <<>>
      BY EmptyPayload
    <3>3. agent' = [agent EXCEPT !.pc = "gap", !.at = Leader, !.to = to, !.payload = s]
      BY <2>5, <3>1, <3>2 DEF Repairing
    <3>4. to \in Nat \cup {NoBound}
      OBVIOUS
    <3> QED BY <2>1, <3>1, <3>3, <3>4, Numbers, PollMoves
  <2> QED BY <2>2, <2>3, <2>4, <2>5
<1> QED BY <1>1, <1>2

\* A signature of another answer fails the poll, none is accepted.
LEMMA VerifyKeeps ==
  ASSUME DeliveryInv, NEW n \in Nodes, AgentVerifies(n)
  PROVE  DeliveryInv'
<1>1. agent.pc = "got" /\ AgentStays
  BY DEF AgentVerifies
<1>2. Accepts \/ (agent' = Idle /\ UNCHANGED regressed)
  BY DEF AgentVerifies, Verifies
<1> QED BY <1>1, <1>2, AcceptKeeps, IdleKeeps

\* A request fails.
LEMMA RequestFailsKeeps ==
  ASSUME DeliveryInv, AgentRequestFails
  PROVE  DeliveryInv'
<1>1. AgentStays
  BY DEF AgentRequestFails
<1>2. \/ agent' = Idle /\ UNCHANGED regressed
      \/ agent.pc = "got" /\ Accepts
      \/ agent' = Repairing("repair", NoBound) /\ UNCHANGED regressed
  BY DEF AgentRequestFails
<1> QED BY <1>1, <1>2, IdleKeeps, AcceptKeeps, ToRepairKeeps

\* repair_from_snapshot: a snapshot of any node is of the leader's history.
LEMMA RepairKeeps ==
  ASSUME DeliveryInv, NEW n \in Nodes, AgentRepairs(n)
  PROVE  DeliveryInv'
<1>1. PICK next \in Nat : next = node[n].snap
  BY Numbers
<1>2. next <= node[Leader].seq
  BY <1>1, Numbers
<1>3. WriteSnapshotFile(next) /\ AgentStays
  BY <1>1 DEF AgentRepairs
<1> QED BY <1>2, <1>3, WriteKeeps

\* swap_state serves what is in the file, and only that is acknowledged.
LEMMA SwapKeeps ==
  ASSUME DeliveryInv, AgentSwaps
  PROVE  DeliveryInv'
<1>1. /\ agent.pc = "swap"
      /\ agent' = [agent EXCEPT !.pc = "idle", !.mem = agent.next, !.next = 0]
      /\ ackTable' \in {agent.next, ackTable}
      /\ UNCHANGED << mode, node, published, acked, cache, pull, regressed, restarted >>
  BY DEF AgentSwaps
<1>2. agent.disk = agent.next /\ agent.next <= node[Leader].seq /\ agent.next \in Nat
  BY <1>1, AgentIsOK DEF DeliveryInv, PollUnderWay
<1>3. /\ agent' \in AgentStates
      /\ agent'.mem = agent.next /\ agent'.disk = agent.disk /\ agent'.pc = "idle"
  BY <1>1, AgentIsOK DEF AgentStates
<1>4. PollUnderWay'
  BY <1>3 DEF PollUnderWay, AnswersContinue
<1>5. ackTable' \in Nat
  BY <1>1, <1>2, AgentIsOK
<1>6. ~regressed => ackTable' <= Max2(agent.disk, 0)
  BY <1>1, <1>2, AgentIsOK DEF Max2
<1>7. AckedIsDurable'
  BY <1>1, <1>3, <1>6 DEF AckedIsDurable
<1> QED BY <1>1, <1>2, <1>3, <1>4, <1>5, <1>7, AgentIsOK, AgentMoves

\* A crash leaves the file.
LEMMA CrashKeeps ==
  ASSUME DeliveryInv, AgentCrashes
  PROVE  DeliveryInv'
<1>1. /\ agent' = [Idle EXCEPT !.pc = "down", !.mem = 0, !.next = 0]
      /\ UNCHANGED << mode, node, published, acked, cache, pull, ackTable, restarted, regressed >>
  BY DEF AgentCrashes, AgentStays
<1>2. /\ agent' \in AgentStates
      /\ agent'.mem = 0 /\ agent'.disk = agent.disk /\ agent'.pc = "down"
  <2>1. PICK s \in Seq(Nat) : s = <<>>
    BY EmptyPayload
  <2>2. PICK idle : idle = [agent EXCEPT !.pc = "idle", !.at = Leader, !.to = NoBound, !.payload = s]
    OBVIOUS
  <2>3. idle \in AgentStates /\ idle.disk = agent.disk
    BY <2>2, AgentIsOK, Numbers DEF AgentStates
  <2>4. agent' = [idle EXCEPT !.pc = "down", !.mem = 0, !.next = 0]
    BY <1>1, <2>1, <2>2 DEF Idle
  <2> QED BY <2>3, <2>4 DEF AgentStates
<1>3. PollUnderWay'
  BY <1>2 DEF PollUnderWay, AnswersContinue
<1>4. AckedIsDurable'
  BY <1>1, <1>2 DEF DeliveryInv, AckedIsDurable
<1>5. 0 <= node[Leader].seq
  BY AgentIsOK
<1> QED BY <1>1, <1>2, <1>3, <1>4, <1>5, AgentIsOK, AgentMoves

\* build_app starts from the file, or from a node where there is none; an agent
\* without a file has acknowledged nothing.
LEMMA StartKeeps ==
  ASSUME DeliveryInv, NEW n \in Nodes, AgentStarts(n)
  PROVE  DeliveryInv'
<1>1. PICK seq : seq = IF agent.disk = NoFile THEN node[n].snap ELSE agent.disk
  OBVIOUS
<1>2. /\ agent' = [agent EXCEPT !.pc = "idle", !.mem = seq, !.disk = seq]
      /\ UNCHANGED << mode, node, published, acked, cache, pull, ackTable, restarted, regressed >>
  BY <1>1 DEF AgentStarts, AgentStays
<1>3. seq \in Nat /\ seq <= node[Leader].seq
  BY <1>1, AgentIsOK, Numbers
<1>4. ~regressed => ackTable <= Max2(seq, 0)
  BY <1>1, <1>3, AgentIsOK DEF Max2, NoFile
<1>5. /\ agent' \in AgentStates
      /\ agent'.mem = seq /\ agent'.disk = seq /\ agent'.pc = "idle"
  BY <1>2, <1>3, AgentIsOK DEF AgentStates
<1>6. PollUnderWay'
  BY <1>5 DEF PollUnderWay, AnswersContinue
<1>7. AckedIsDurable'
  BY <1>2, <1>4, <1>5 DEF AckedIsDurable
<1>8. seq \in {NoFile} \cup 0 .. node[Leader].seq
  BY <1>3, AgentIsOK
<1> QED BY <1>2, <1>3, <1>5, <1>6, <1>7, <1>8, AgentIsOK, AgentMoves

(***************************************************************************)
(* The theorems.                                                           *)
(***************************************************************************)

\* Every step of commitd, the stream, the relay and the agent keeps the invariant.
LEMMA NextDeliveryInv == DeliveryInv /\ [Next]_vars => DeliveryInv'
<1> SUFFICES ASSUME DeliveryInv, [Next]_vars PROVE DeliveryInv'
  OBVIOUS
<1>1. CASE LeaderCommits
  BY <1>1, DeliveryAssumption, ApplyKeeps DEF LeaderCommits
<1>2. CASE \E n \in Nodes \ {Leader} : FollowerApplies(n)
  BY <1>2, ApplyKeeps DEF FollowerApplies
<1>3. CASE Compact
  BY <1>3, CompactKeeps
<1>4. CASE Publish
  BY <1>4, PublishKeeps
<1>5. CASE PullAcks \/ PullUnacked
  BY <1>5, PullKeeps
<1>6. CASE PullReads \/ \E n \in Nodes : PullAsks(n) \/ PullRebuilds(n)
  BY <1>6, PullReadsKeeps, PullAsksKeeps, PullRebuildsKeeps
<1>7. CASE RestartRelay
  BY <1>7, RestartRelayKeeps
<1>8. CASE \E n \in Nodes : AgentAsks(n) \/ AgentVerifies(n) \/ AgentRepairs(n) \/ AgentStarts(n)
  BY <1>8, AskKeeps, VerifyKeeps, RepairKeeps, StartKeeps
<1>9. CASE AgentIsAnswered \/ AgentSwaps
  BY <1>9, AnswerKeeps, SwapKeeps
<1>10. CASE AgentRepairFails
  BY <1>10, IdleKeeps DEF AgentRepairFails
<1>11. CASE AgentRequestFails
  BY <1>11, RequestFailsKeeps
<1>12. CASE AgentCrashes
  BY <1>12, CrashKeeps
<1>13. CASE UNCHANGED vars
  BY <1>13 DEF vars, DeliveryInv, Shapes, TypeOK, PollUnderWay, AnswersContinue, Continues,
               PullUnderWay, BehindIsOwed, AckedIsDurable
<1> QED
  BY <1>1, <1>2, <1>3, <1>4, <1>5, <1>6, <1>7, <1>8, <1>9, <1>10, <1>11, <1>12, <1>13
     DEF Next, PullNext, AgentNext

\* The inductive invariant holds for any number of nodes, mutations and faults.
THEOREM DeliveryInvariant == Spec => []DeliveryInv
<1>1. Init /\ [][Next]_vars => []DeliveryInv
  BY InitDeliveryInv, NextDeliveryInv, PTL
<1> QED BY <1>1, PTL DEF Spec

\* Nothing is ahead of the source: no cache, file or watermark holds a mutation the
\* leader has not committed, no history is dropped that no snapshot file holds, and
\* RelayCache holds every mutation between its two watermarks, in order.
THEOREM NothingAheadOfSource == Spec => []TypeOK
<1>1. DeliveryInv => TypeOK
  BY DEF DeliveryInv
<1> QED BY <1>1, DeliveryInvariant, PTL

\* Whatever node or cache answers poll_once or repair_gap, and whatever a node
\* compacts between its floor check and its read, the answer is without a hole, and
\* where it does not go on at the agent's watermark a snapshot file holds what is
\* missing.
THEOREM AnswersAlwaysContinue == Spec => []AnswersContinue
<1>1. DeliveryInv => AnswersContinue
  BY DEF DeliveryInv, PollUnderWay
<1> QED BY <1>1, DeliveryInvariant, PTL

\* A relay that has run since it started is never left behind the stream with
\* nothing more to be delivered, whatever it acknowledged and however often
\* repair_gap put its cache at an older snapshot.
THEOREM RelayNeverStranded == Spec => []NeverStranded
<1>1. ASSUME DeliveryInv PROVE NeverStranded
  <2> SUFFICES ASSUME ~restarted, NEW i \in published, i > cache.watermark
               PROVE  \E j \in published \ acked : j > cache.watermark
    BY DEF NeverStranded
  <2>1. CASE i \notin acked
    BY <2>1
  <2>2. CASE i \in acked
    <3>1. PICK j \in published \ acked : j > i
      BY <1>1, <2>2 DEF DeliveryInv, BehindIsOwed
    <3>2. j > cache.watermark
      BY <1>1, <3>1, Numbers
    <3> QED BY <3>1, <3>2
  <2> QED BY <2>1, <2>2
<1> QED BY <1>1, DeliveryInvariant, PTL

\* The relay's ack of an agent claims no more than the agent's file holds, unless a
\* repair took the file back: swap_state and send_ack come after the write.
THEOREM AcksAreDurable == Spec => []AckedIsDurable
<1>1. DeliveryInv => AckedIsDurable
  BY DEF DeliveryInv
<1> QED BY <1>1, DeliveryInvariant, PTL
=============================================================================
