----------------------------- MODULE AcksProofs -----------------------------
(***************************************************************************)
(* Proofs about Acks: what the relay was told is recorded stays on a       *)
(* quorum, and a new leader that reads enough peers finds it, for any      *)
(* number of nodes, acks, requests and faults.                             *)
(***************************************************************************)
EXTENDS Acks, FiniteSetTheorems, TLAPS

(***************************************************************************)
(* The operators.                                                          *)
(***************************************************************************)

\* The nodes are counted by a natural number, and a quorum is a majority.
LEMMA QuorumIsMajority ==
  /\ Cardinality(Nodes) \in Nat
  /\ Quorum \in Nat
  /\ Quorum >= 1
  /\ Quorum <= Cardinality(Nodes)
  /\ 2 * Quorum > Cardinality(Nodes)
<1>1. Cardinality(Nodes) \in Nat
  BY AcksAssumption, FS_CardinalityType
<1>2. Cardinality(Nodes) # 0
  BY AcksAssumption, FS_EmptySet
<1>3. QED
  BY <1>1, <1>2 DEF Quorum

\* A subset of the nodes is counted, and a larger one counts at least as much.
LEMMA Counts ==
  ASSUME NEW S \in SUBSET Nodes, NEW T \in SUBSET Nodes, S \subseteq T
  PROVE  /\ IsFiniteSet(S) /\ IsFiniteSet(T)
         /\ Cardinality(S) \in Nat /\ Cardinality(T) \in Nat
         /\ Cardinality(S) <= Cardinality(T)
<1>1. IsFiniteSet(T)
  BY AcksAssumption, FS_Subset
<1>2. IsFiniteSet(S) /\ Cardinality(S) <= Cardinality(T)
  BY <1>1, FS_Subset
<1>3. QED
  BY <1>1, <1>2, FS_CardinalityType

\* The newer of two acks is one of them, and not older than either.
LEMMA KeepGrows ==
  ASSUME NEW a \in Nat, NEW b \in Nat
  PROVE  /\ Keep(a, b) \in {a, b}
         /\ Keep(a, b) \in Nat
         /\ Keep(a, b) >= a
         /\ Keep(a, b) >= b
  BY DEF Keep

\* Acks are natural numbers.
LEMMA AcksAreNumbers ==
  ASSUME TypeOK
  PROVE  /\ \A s \in posts \cup {0} : s \in Nat
         /\ \A n \in Nodes : store[n] \in posts \cup {0} /\ store[n] \in Nat
         /\ confirmed \in Nat
         /\ merge.owes \in Nat
<1>1. \A s \in posts \cup {0} : s \in Nat
  BY AcksAssumption DEF TypeOK
<1>2. \A n \in Nodes : store[n] \in posts \cup {0}
  BY DEF TypeOK
<1>3. confirmed \in posts \cup {0} /\ merge.owes \in posts \cup {0}
  BY DEF TypeOK
<1>4. QED
  BY <1>1, <1>2, <1>3

(***************************************************************************)
(* Stores only grow.                                                       *)
(***************************************************************************)

\* No action takes an ack away from a node.
StoresGrow == \A n \in Nodes : store'[n] >= store[n]

\* A node that keeps the newer of what it has and another ack has lost nothing.
LEMMA KeepsGrowing ==
  ASSUME TypeOK, NEW p \in Nodes, NEW s \in posts \cup {0},
         store' = [store EXCEPT ![p] = Keep(@, s)]
  PROVE  /\ StoresGrow
         /\ store' \in [Nodes -> posts \cup {0}]
         /\ store'[p] >= s
         /\ \A n \in Nodes : n # p => store'[n] = store[n]
<1>1. s \in Nat /\ \A n \in Nodes : store[n] \in posts \cup {0} /\ store[n] \in Nat
  BY AcksAreNumbers
<1>2. store \in [Nodes -> posts \cup {0}]
  BY DEF TypeOK
<1>3. store'[p] = Keep(store[p], s) /\ \A n \in Nodes : n # p => store'[n] = store[n]
  BY <1>2
<1>4. Keep(store[p], s) \in {store[p], s} /\ Keep(store[p], s) >= store[p]
      /\ Keep(store[p], s) >= s
  BY <1>1, KeepGrows
<1>5. store' \in [Nodes -> posts \cup {0}]
  BY <1>1, <1>2, <1>4
<1>6. QED
  BY <1>1, <1>3, <1>4, <1>5 DEF StoresGrow

\* What a quorum has is on a quorum after any step that takes nothing away.
LEMMA QuorumStays ==
  ASSUME NEW s \in Nat, NEW S \in SUBSET Nodes, StoresGrow,
         \A n \in Nodes : store[n] \in Nat, \A n \in Nodes : store'[n] \in Nat
  PROVE  Cardinality({n \in S : store'[n] >= s}) >= Cardinality({n \in S : store[n] >= s})
<1> DEFINE A == {n \in S : store[n] >= s}
           B == {n \in S : store'[n] >= s}
<1>1. A \subseteq B
  BY DEF StoresGrow
<1>2. A \in SUBSET Nodes /\ B \in SUBSET Nodes
  OBVIOUS
<1>3. /\ Cardinality(A) \in Nat /\ Cardinality(B) \in Nat
      /\ Cardinality(A) <= Cardinality(B)
  BY <1>1, <1>2, Counts
<1> QED BY <1>3

(***************************************************************************)
(* The invariant is inductive.                                             *)
(***************************************************************************)

\* The invariant holds when the nodes start.
LEMMA InitAcksInv == Init => AcksInv
<1> SUFFICES ASSUME Init PROVE AcksInv
  OBVIOUS
<1>1. TypeOK /\ merge \in [read : SUBSET Nodes, owes : Nat]
  BY AcksAssumption DEF Init, TypeOK
<1>2. CountedHaveIt /\ OwedIsUnread
  BY DEF Init, CountedHaveIt, OwedIsUnread
<1>3. {n \in Nodes : store[n] >= confirmed} = Nodes
  BY DEF Init
<1>4. ConfirmedOnQuorum
  BY <1>3, QuorumIsMajority DEF ConfirmedOnQuorum
<1>5. QED
  BY <1>1, <1>2, <1>4 DEF AcksInv

\* What is confirmed stays on a quorum when stores grow.
LEMMA ConfirmedStays ==
  ASSUME AcksInv, StoresGrow, UNCHANGED confirmed, \A n \in Nodes : store'[n] \in Nat
  PROVE  ConfirmedOnQuorum'
<1>1. confirmed \in Nat /\ \A n \in Nodes : store[n] \in Nat
  BY AcksAreNumbers DEF AcksInv
<1>2. Cardinality({n \in Nodes : store'[n] >= confirmed})
        >= Cardinality({n \in Nodes : store[n] >= confirmed})
  BY <1>1, QuorumStays
<1>3. /\ Cardinality({n \in Nodes : store'[n] >= confirmed}) \in Nat
      /\ Cardinality({n \in Nodes : store[n] >= confirmed}) \in Nat
  BY Counts
<1>4. Cardinality({n \in Nodes : store[n] >= confirmed}) >= Quorum
  BY DEF AcksInv, ConfirmedOnQuorum
<1>5. QED
  BY <1>2, <1>3, <1>4, QuorumIsMajority DEF ConfirmedOnQuorum

\* What a leader is owed stays unread, or read, when stores grow.
LEMMA OwedStays ==
  ASSUME AcksInv, StoresGrow, UNCHANGED << leader, merge >>,
         \A n \in Nodes : store'[n] \in Nat
  PROVE  OwedIsUnread'
<1> DEFINE U == Nodes \ (merge.read \cup {leader})
           A == {n \in U : store[n] >= merge.owes}
           B == {n \in U : store'[n] >= merge.owes}
<1>1. /\ merge.owes \in Nat /\ \A n \in Nodes : store[n] \in Nat
      /\ leader \in Nodes
  BY AcksAreNumbers DEF AcksInv, TypeOK
<1>2. CASE store[leader] >= merge.owes
  BY <1>1, <1>2 DEF StoresGrow, OwedIsUnread
<1>3. CASE Cardinality(A) >= Quorum
  <2>1. U \in SUBSET Nodes /\ A \in SUBSET Nodes /\ B \in SUBSET Nodes
    OBVIOUS
  <2>2. Cardinality(B) >= Cardinality(A)
    BY <1>1, <2>1, QuorumStays
  <2>3. Cardinality(A) \in Nat /\ Cardinality(B) \in Nat
    BY <2>1, Counts
  <2>4. Cardinality(B) >= Quorum
    BY <1>3, <2>2, <2>3, QuorumIsMajority
  <2>5. QED
    BY <2>4 DEF OwedIsUnread
<1>4. QED
  BY <1>2, <1>3 DEF AcksInv, OwedIsUnread

\* Steps after which stores have grown, and what is confirmed, owed and counted
\* is what it was, keep the invariant.
LEMMA GrowingKeepsInv ==
  ASSUME AcksInv, StoresGrow, TypeOK', UNCHANGED << confirmed, leader, merge >>,
         \A r \in requests' : \A p \in r.stored : store'[p] >= r.seq
  PROVE  AcksInv'
<1>2. \A n \in Nodes : store'[n] \in Nat
  <2>1. \A s \in posts' \cup {0} : s \in Nat
    BY AcksAssumption DEF TypeOK
  <2>2. \A n \in Nodes : store'[n] \in posts' \cup {0}
    BY DEF TypeOK
  <2>3. QED
    BY <2>1, <2>2
<1>4. CountedHaveIt'
  BY DEF CountedHaveIt
<1>5. ConfirmedOnQuorum' /\ OwedIsUnread'
  BY <1>2, ConfirmedStays, OwedStays
<1>6. merge' \in [read : SUBSET Nodes, owes : Nat]
  BY DEF AcksInv
<1>7. QED
  BY <1>4, <1>5, <1>6 DEF AcksInv

\* Every step keeps the invariant.
LEMMA NextAcksInv == AcksInv /\ [Next]_vars => AcksInv'
<1> SUFFICES ASSUME AcksInv, [Next]_vars
             PROVE  AcksInv'
  OBVIOUS
<1>0. /\ TypeOK
      /\ \A s \in posts \cup {0} : s \in Nat
      /\ \A n \in Nodes : store[n] \in posts \cup {0} /\ store[n] \in Nat
      /\ confirmed \in Nat /\ merge.owes \in Nat
      /\ merge \in [read : SUBSET Nodes, owes : Nat]
  BY AcksAreNumbers DEF AcksInv
<1>a. \A r \in requests : \A p \in r.stored : store[p] >= r.seq
  BY DEF AcksInv, CountedHaveIt
<1>b. \A r \in requests :
        /\ r \in [at : Nodes, seq : posts, stored : SUBSET Nodes, open : BOOLEAN]
        /\ r.at \notin r.stored
  BY <1>0 DEF TypeOK
<1>c. UNCHANGED store => StoresGrow
  BY <1>0 DEF StoresGrow
<1>1. ASSUME NEW s \in 1 .. MaxSeq, AgentAcks(s)
      PROVE  AcksInv'
  <2>1. TypeOK'
    BY <1>0, <1>1 DEF TypeOK, AgentAcks
  <2>2. QED
    BY <1>1, <1>a, <1>c, <2>1, GrowingKeepsInv DEF AgentAcks
<1>2. CASE RestartRelay
  <2>1. TypeOK'
    BY <1>0, <1>2 DEF TypeOK, RestartRelay
  <2>2. QED
    BY <1>2, <1>a, <1>c, <2>1, GrowingKeepsInv DEF RestartRelay
<1>3. ASSUME NEW n \in Nodes, NEW s \in posts, TakePost(n, s)
      PROVE  AcksInv'
  <2> DEFINE new == [at |-> n, seq |-> s, stored |-> {}, open |-> TRUE]
  <2>1. requests' = requests \cup {new}
    BY <1>3 DEF TakePost
  <2>2. /\ new \in [at : Nodes, seq : posts, stored : SUBSET Nodes, open : BOOLEAN]
        /\ new.stored = {}
    OBVIOUS
  <2> HIDE DEF new
  <2>3. TypeOK'
    BY <1>0, <1>3, <2>1, <2>2 DEF TypeOK, TakePost, RelayStays
  <2>4. QED
    BY <1>3, <1>a, <1>c, <2>1, <2>2, <2>3, GrowingKeepsInv DEF TakePost
<1>4. ASSUME NEW r \in requests, NEW p \in Nodes, PeerStores(r, p)
      PROVE  AcksInv'
  <2> DEFINE q == [r EXCEPT !.stored = @ \cup {p}]
  <2>1. /\ r \in [at : Nodes, seq : posts, stored : SUBSET Nodes, open : BOOLEAN]
        /\ r.at \notin r.stored /\ p # r.at
    BY <1>4, <1>b DEF PeerStores
  <2>2. /\ q \in [at : Nodes, seq : posts, stored : SUBSET Nodes, open : BOOLEAN]
        /\ q.stored = r.stored \cup {p} /\ q.seq = r.seq /\ q.at = r.at
    BY <2>1
  <2>3. requests' \subseteq requests \cup {q}
    BY <1>4 DEF PeerStores, Becomes
  <2> HIDE DEF q
  <2>4. store' = [store EXCEPT ![p] = Keep(@, r.seq)] /\ r.seq \in posts \cup {0}
    BY <1>4, <2>1 DEF PeerStores
  <2>5. StoresGrow /\ store' \in [Nodes -> posts \cup {0}] /\ store'[p] >= r.seq
    BY <1>0, <2>4, KeepsGrowing
  <2>6. TypeOK'
    BY <1>0, <1>4, <2>1, <2>2, <2>3, <2>5 DEF TypeOK, PeerStores, RelayStays
  <2>7. \A x \in requests' : \A y \in x.stored : store'[y] >= x.seq
    <3> SUFFICES ASSUME NEW x \in requests', NEW y \in x.stored
                 PROVE  store'[y] >= x.seq
      OBVIOUS
    <3>1. /\ x.stored \subseteq Nodes /\ x.seq \in posts
      BY <1>b, <2>2, <2>3
    <3>2. y \in Nodes /\ x.seq \in Nat /\ store[y] \in Nat /\ store'[y] \in Nat
      BY <1>0, <2>5, <3>1
    <3>3. store[y] >= x.seq \/ (y = p /\ x.seq = r.seq)
      BY <1>a, <2>2, <2>3
    <3>4. QED
      BY <2>5, <3>2, <3>3 DEF StoresGrow
  <2>8. QED
    BY <1>4, <2>5, <2>6, <2>7, GrowingKeepsInv DEF PeerStores
<1>5. ASSUME NEW r \in requests, RecordAck(r)
      PROVE  AcksInv'
  <2> DEFINE q == [r EXCEPT !.open = FALSE]
  <2>1. /\ r \in [at : Nodes, seq : posts, stored : SUBSET Nodes, open : BOOLEAN]
        /\ r.at \notin r.stored
    BY <1>b
  <2>2. /\ q \in [at : Nodes, seq : posts, stored : SUBSET Nodes, open : BOOLEAN]
        /\ q.stored = r.stored /\ q.seq = r.seq /\ q.at = r.at
    BY <2>1
  <2>3. requests' \subseteq requests \cup {q}
    BY <1>5 DEF RecordAck, Becomes
  <2> HIDE DEF q
  <2>4. store' = [store EXCEPT ![r.at] = Keep(@, r.seq)] /\ r.seq \in posts \cup {0}
        /\ r.at \in Nodes /\ r.seq \in Nat
    BY <1>0, <1>5, <2>1 DEF RecordAck
  <2>5. StoresGrow /\ store' \in [Nodes -> posts \cup {0}] /\ store'[r.at] >= r.seq
    BY <1>0, <2>4, KeepsGrowing
  <2>6. confirmed' = Max2(confirmed, r.seq) /\ confirmed' \in {confirmed, r.seq}
    BY <1>5 DEF RecordAck, Max2
  <2>7. UNCHANGED << posts, ackTable, leader, leaders, merge >>
    BY <1>5 DEF RecordAck, RelayStays
  <2>8. TypeOK'
    BY <1>0, <2>1, <2>2, <2>3, <2>4, <2>5, <2>6, <2>7 DEF TypeOK
  <2>9. \A n \in Nodes : store'[n] \in Nat
    BY <1>0, <2>5
  <2>10. CountedHaveIt'
    <3> SUFFICES ASSUME NEW x \in requests', NEW y \in x.stored
                 PROVE  store'[y] >= x.seq
      BY DEF CountedHaveIt
    <3>1. x.stored \subseteq Nodes /\ x.seq \in posts /\ store[y] >= x.seq
      BY <1>a, <1>b, <2>2, <2>3
    <3>2. y \in Nodes /\ x.seq \in Nat /\ store[y] \in Nat /\ store'[y] \in Nat
      BY <1>0, <2>9, <3>1
    <3>3. QED
      BY <2>5, <3>1, <3>2 DEF StoresGrow
  <2>11. ConfirmedOnQuorum'
    <3> DEFINE H(s) == {n \in Nodes : store'[n] >= s}
    <3>1. CASE confirmed' = confirmed
      BY <3>1, <2>5, <2>9, ConfirmedStays
    <3>2. CASE confirmed' = r.seq
      <4>1. r.stored \in SUBSET Nodes /\ r.stored \cup {r.at} \in SUBSET Nodes
        BY <2>1
      <4>2. IsFiniteSet(r.stored) /\ Cardinality(r.stored) \in Nat
        BY <4>1, Counts
      <4>3. Cardinality(r.stored \cup {r.at}) = Cardinality(r.stored) + 1
        BY <2>1, <4>2, FS_AddElement
      <4>4. \A n \in r.stored \cup {r.at} : store'[n] >= r.seq
        BY <1>0, <1>a, <2>4, <2>5, <2>9, <4>1 DEF StoresGrow
      <4>5. r.stored \cup {r.at} \subseteq H(r.seq) /\ H(r.seq) \in SUBSET Nodes
        BY <4>1, <4>4
      <4>6. /\ Cardinality(H(r.seq)) >= Cardinality(r.stored \cup {r.at})
            /\ Cardinality(H(r.seq)) \in Nat
        BY <4>1, <4>5, Counts
      <4>7. Cardinality(r.stored) + 1 >= Quorum
        BY <1>5 DEF RecordAck, QuorumReached
      <4>8. Cardinality(H(r.seq)) >= Quorum
        BY <4>2, <4>3, <4>6, <4>7, QuorumIsMajority
      <4>9. QED
        BY <3>2, <4>8 DEF ConfirmedOnQuorum
    <3>3. QED
      BY <2>6, <3>1, <3>2
  <2>12. OwedIsUnread'
    BY <2>5, <2>7, <2>9, OwedStays
  <2>13. QED
    BY <1>0, <2>7, <2>8, <2>10, <2>11, <2>12 DEF AcksInv
<1>6. ASSUME NEW r \in requests, RecordFails(r)
      PROVE  AcksInv'
  <2> DEFINE q == [r EXCEPT !.open = FALSE]
  <2>1. /\ q \in [at : Nodes, seq : posts, stored : SUBSET Nodes, open : BOOLEAN]
        /\ q.stored = r.stored /\ q.seq = r.seq /\ q.at = r.at
    BY <1>b
  <2>2. requests' \subseteq requests \cup {q}
    BY <1>6 DEF RecordFails, Becomes
  <2> HIDE DEF q
  <2>3. TypeOK'
    BY <1>0, <1>6, <1>b, <2>1, <2>2 DEF TypeOK, RecordFails, RelayStays
  <2>4. \A x \in requests' : \A y \in x.stored : store'[y] >= x.seq
    BY <1>6, <1>a, <2>1, <2>2 DEF RecordFails
  <2>5. QED
    BY <1>6, <1>c, <2>3, <2>4, GrowingKeepsInv DEF RecordFails
<1>7. ASSUME NEW r \in requests, ThreadsEnd(r)
      PROVE  AcksInv'
  <2>1. TypeOK'
    BY <1>0, <1>7 DEF TypeOK, ThreadsEnd, RelayStays
  <2>2. QED
    BY <1>7, <1>a, <1>c, <2>1, GrowingKeepsInv DEF ThreadsEnd
<1>8. ASSUME NEW n \in Nodes, Elect(n)
      PROVE  AcksInv'
  <2>1. /\ leader' = n /\ merge' = [read |-> {}, owes |-> confirmed]
        /\ UNCHANGED << ackTable, posts, requests, store, confirmed >>
        /\ leaders' = leaders \cup {n}
    BY <1>8 DEF Elect, RelayStays
  <2>2. /\ merge' \in [read : SUBSET Nodes, owes : Nat]
        /\ merge'.read = {} /\ merge'.owes = confirmed
    BY <1>0, <2>1
  <2>3. TypeOK'
    BY <1>0, <2>1, <2>2 DEF TypeOK
  <2>4. CountedHaveIt' /\ ConfirmedOnQuorum'
    BY <2>1 DEF AcksInv, CountedHaveIt, ConfirmedOnQuorum
  <2>5. OwedIsUnread'
    <3> DEFINE H == {m \in Nodes : store[m] >= confirmed}
    <3>1. CASE store[n] >= confirmed
      BY <2>1, <2>2, <3>1 DEF OwedIsUnread
    <3>2. CASE ~(store[n] >= confirmed)
      <4>1. H = {m \in Nodes \ (merge'.read \cup {leader'}) : store'[m] >= merge'.owes}
        BY <2>1, <2>2, <3>2
      <4>2. Cardinality(H) >= Quorum
        BY DEF AcksInv, ConfirmedOnQuorum
      <4>3. QED
        BY <4>1, <4>2 DEF OwedIsUnread
    <3>3. QED
      BY <3>1, <3>2
  <2>6. QED
    BY <2>2, <2>3, <2>4, <2>5 DEF AcksInv
<1>9. ASSUME NEW n \in Nodes, StepDown(n)
      PROVE  AcksInv'
  <2>1. TypeOK'
    BY <1>0, <1>9 DEF TypeOK, StepDown, RelayStays
  <2>2. QED
    BY <1>9, <1>a, <1>c, <2>1, GrowingKeepsInv DEF StepDown
<1>10. ASSUME NEW p \in Nodes, MergeFrom(p)
      PROVE  AcksInv'
  <2>1. /\ p # leader /\ p \notin merge.read /\ leader \in Nodes
        /\ store' = [store EXCEPT ![leader] = Keep(@, store[p])]
        /\ UNCHANGED << ackTable, posts, requests, confirmed, leader, leaders >>
        /\ merge' = [merge EXCEPT !.read = @ \cup {p}]
    BY <1>0, <1>10 DEF MergeFrom, RelayStays, TypeOK
  <2>2. /\ merge' \in [read : SUBSET Nodes, owes : Nat]
        /\ merge'.read = merge.read \cup {p} /\ merge'.owes = merge.owes
    BY <1>0, <2>1
  <2>3. store[p] \in posts \cup {0}
    BY <1>0
  <2>4. /\ StoresGrow /\ store' \in [Nodes -> posts \cup {0}]
        /\ store'[leader] >= store[p]
        /\ \A n \in Nodes : n # leader => store'[n] = store[n]
    BY <1>0, <2>1, <2>3, KeepsGrowing
  <2>5. \A n \in Nodes : store'[n] \in Nat
    BY <1>0, <2>4
  <2>6. TypeOK'
    BY <1>0, <2>1, <2>2, <2>4 DEF TypeOK
  <2>7. CountedHaveIt'
    <3> SUFFICES ASSUME NEW x \in requests, NEW y \in x.stored
                 PROVE  store'[y] >= x.seq
      BY <2>1 DEF CountedHaveIt
    <3>1. y \in Nodes /\ x.seq \in Nat /\ store[y] >= x.seq
      BY <1>0, <1>a, <1>b
    <3>2. QED
      BY <1>0, <2>4, <2>5, <3>1 DEF StoresGrow
  <2>8. ConfirmedOnQuorum'
    BY <2>1, <2>4, <2>5, ConfirmedStays
  <2>9. OwedIsUnread'
    <3> DEFINE A == {n \in Nodes \ (merge.read \cup {leader}) : store[n] >= merge.owes}
    <3>1. CASE store[leader] >= merge.owes \/ store[p] >= merge.owes
      <4>1. store'[leader] >= merge.owes
        BY <1>0, <2>1, <2>4, <2>5, <3>1 DEF StoresGrow
      <4>2. QED
        BY <2>1, <2>2, <4>1 DEF OwedIsUnread
    <3>2. CASE ~(store[leader] >= merge.owes) /\ ~(store[p] >= merge.owes)
      <4>1. Cardinality(A) >= Quorum
        BY <3>2 DEF AcksInv, OwedIsUnread
      <4>2. A = {n \in Nodes \ (merge'.read \cup {leader'}) : store'[n] >= merge'.owes}
        BY <2>1, <2>2, <2>4, <3>2
      <4>3. QED
        BY <4>1, <4>2 DEF OwedIsUnread
    <3>3. QED
      BY <3>1, <3>2
  <2>10. QED
    BY <2>2, <2>6, <2>7, <2>8, <2>9 DEF AcksInv
<1>11. ASSUME NEW n \in Nodes, FollowerSyncs(n)
      PROVE  AcksInv'
  <2>1. /\ leader \in Nodes /\ store[leader] \in posts \cup {0}
        /\ store' = [store EXCEPT ![n] = Keep(@, store[leader])]
    BY <1>0, <1>11 DEF FollowerSyncs, TypeOK
  <2>2. StoresGrow /\ store' \in [Nodes -> posts \cup {0}]
    BY <1>0, <2>1, KeepsGrowing
  <2>3. TypeOK'
    BY <1>0, <1>11, <2>2 DEF TypeOK, FollowerSyncs, RelayStays
  <2>4. \A x \in requests' : \A y \in x.stored : store'[y] >= x.seq
    <3> SUFFICES ASSUME NEW x \in requests, NEW y \in x.stored
                 PROVE  store'[y] >= x.seq
      BY <1>11 DEF FollowerSyncs
    <3>1. y \in Nodes /\ x.seq \in Nat /\ store[y] >= x.seq
      BY <1>0, <1>a, <1>b
    <3>2. store[y] \in Nat /\ store'[y] \in Nat
      BY <1>0, <2>2, <3>1
    <3>3. QED
      BY <2>2, <3>1, <3>2 DEF StoresGrow
  <2>5. QED
    BY <1>11, <2>2, <2>3, <2>4, GrowingKeepsInv DEF FollowerSyncs
<1>12. ASSUME NEW n \in Nodes, RestartNode(n)
      PROVE  AcksInv'
  <2>1. TypeOK'
    BY <1>0, <1>12 DEF TypeOK, RestartNode, RelayStays
  <2>2. QED
    BY <1>12, <1>a, <1>c, <2>1, GrowingKeepsInv DEF RestartNode
<1>13. CASE UNCHANGED vars
  <2>1. TypeOK'
    BY <1>0, <1>13 DEF TypeOK, vars
  <2>2. QED
    BY <1>13, <1>a, <1>c, <2>1, GrowingKeepsInv DEF vars
<1>14. QED
  BY <1>1, <1>2, <1>3, <1>4, <1>5, <1>6, <1>7, <1>8, <1>9, <1>10, <1>11, <1>12, <1>13
     DEF Next, RequestNext, NodeNext

\* When the nodes that a leader has read, and a quorum, are all nodes, what it is
\* owed cannot be on a quorum of the others: the leader has it.
LEMMA InvRemembers == AcksInv => LeaderRemembers
<1> SUFFICES ASSUME AcksInv, Cardinality(merge.read) + Quorum >= Cardinality(Nodes),
                    ~(store[leader] >= merge.owes)
             PROVE  FALSE
  BY DEF LeaderRemembers
<1> DEFINE S == {n \in Nodes \ (merge.read \cup {leader}) : store[n] >= merge.owes}
           R == merge.read \cup {leader}
<1>1. /\ merge.read \in SUBSET Nodes /\ leader \in Nodes /\ leader \notin merge.read
  BY DEF AcksInv, TypeOK
<1>2. Cardinality(S) >= Quorum
  BY DEF AcksInv, OwedIsUnread
<1>3. /\ IsFiniteSet(merge.read) /\ Cardinality(merge.read) \in Nat
      /\ Cardinality(S) \in Nat
  BY <1>1, Counts
<1>4. Cardinality(R) = Cardinality(merge.read) + 1
  BY <1>1, <1>3, FS_AddElement
<1>5. Cardinality(S) + Cardinality(R) > Cardinality(Nodes)
  BY <1>2, <1>3, <1>4, QuorumIsMajority
<1>6. S \subseteq Nodes /\ R \subseteq Nodes /\ S \cap R = {}
  BY <1>1
<1> HIDE DEF S, R
<1>7. S \cap R # {}
  BY <1>5, <1>6, AcksAssumption, FS_MajoritiesIntersect
<1>8. QED
  BY <1>6, <1>7

(***************************************************************************)
(* Theorems.                                                               *)
(***************************************************************************)

\* The inductive invariant of the acks holds at all times: answers that are
\* counted are of nodes that have the ack, and what a new leader is owed is to be
\* found (replicate_propagation_ack_on_quorum, sync_acks_from_peers).
THEOREM AcksInvariant == Spec => []AcksInv
  BY InitAcksInv, NextAcksInv, PTL DEF Spec

\* Acks that are stored, confirmed or kept were posted by the relay.
THEOREM AcksTypeOK == Spec => []TypeOK
<1>1. AcksInv => TypeOK
  BY DEF AcksInv
<1>2. QED
  BY <1>1, AcksInvariant, PTL

\* An ack that was answered with 200 (record_propagation_ack) is on a quorum, and
\* stays there, for any number of nodes.
THEOREM ConfirmedAcksStay == Spec => []ConfirmedOnQuorum
<1>1. AcksInv => ConfirmedOnQuorum
  BY DEF AcksInv
<1>2. QED
  BY <1>1, AcksInvariant, PTL

\* A new leader that has merged the acks of enough peers reports no less than what
\* was confirmed before it was elected (sync_acks_from_peers).
THEOREM NewLeaderRemembers == Spec => []LeaderRemembers
  BY InvRemembers, AcksInvariant, PTL
=============================================================================
