---------------------------- MODULE StorageProofs ----------------------------
(***************************************************************************)
(* Proofs about Storage, for any operations, bounds and commit times, any  *)
(* writes that fail with a publisher, and any but that of a delta bundle   *)
(* without one: what the files hold, together with the log, is at every    *)
(* moment what the process has applied, so that no crash, failed write or  *)
(* interrupted compaction loses a mutation or applies one twice.           *)
(***************************************************************************)
EXTENDS Storage, TLAPS

(***************************************************************************)
(* Numbered mutations.                                                     *)
(***************************************************************************)

\* The sequence number of a mutation is a number.
LEMMA SeqIsNumber == \A m \in Mutation : m.seq \in Nat /\ m.seq \in 1 .. MaxSeq
  BY StorageAssumption DEF Mutation

\* Mutations that are numbered: none is beyond the last number, every number has one.
LEMMA NumberedMeans ==
  ASSUME NEW ms, NEW w \in Nat, Numbered(ms, w)
  PROVE  /\ \A m \in ms : m.seq \in 1 .. w
         /\ \A i \in 1 .. w : \E m \in ms : m.seq = i
         /\ \A m, n \in ms : m.seq = n.seq => m = n
  BY DEF Numbered

\* And that is all it takes.
LEMMA MeansNumbered ==
  ASSUME NEW ms, NEW w \in Nat,
         \A m \in ms : m.seq \in 1 .. w,
         \A i \in 1 .. w : \E m \in ms : m.seq = i,
         \A m, n \in ms : m.seq = n.seq => m = n
  PROVE  Numbered(ms, w)
  BY DEF Numbered

\* A numbered set that holds another goes at least as far.
LEMMA LargerGoesFurther ==
  ASSUME NEW a, NEW b, NEW v \in Nat, NEW w \in Nat,
         Numbered(a, v), Numbered(b, w), a \subseteq b
  PROVE  v <= w
<1>1. CASE v = 0
  BY <1>1
<1>2. CASE v # 0
  <2>1. v \in 1 .. v
    BY <1>2
  <2>2. PICK m \in a : m.seq = v
    BY <2>1, NumberedMeans
  <2>3. m.seq \in 1 .. w
    BY <2>2, NumberedMeans
  <2> QED BY <2>2, <2>3
<1> QED BY <1>1, <1>2

\* Two numbered sets of one length of which one holds the other are one.
LEMMA SameLengthSame ==
  ASSUME NEW a, NEW b, NEW w \in Nat, Numbered(a, w), Numbered(b, w), a \subseteq b
  PROVE  a = b
<1>1. ASSUME NEW m \in b PROVE m \in a
  <2>1. m.seq \in 1 .. w
    BY NumberedMeans
  <2>2. PICK n \in a : n.seq = m.seq
    BY <2>1, NumberedMeans
  <2>3. n = m
    BY <2>2, NumberedMeans
  <2> QED BY <2>3
<1> QED BY <1>1

\* What apply_committed_mutation accepts in a row.
LEMMA ContiguousMeans ==
  ASSUME NEW ms, NEW from \in Nat, Contiguous(ms, from)
  PROVE  /\ LastSeq(ms, from) \in from .. MaxSeq
         /\ \A m \in ms : m.seq \in (from + 1) .. LastSeq(ms, from)
         /\ \A i \in (from + 1) .. LastSeq(ms, from) : \E m \in ms : m.seq = i
         /\ \A m, n \in ms : m.seq = n.seq => m = n
<1>1. \E seq \in from .. MaxSeq : {m.seq : m \in ms} = (from + 1) .. seq
  BY DEF Contiguous
<1>2. /\ LastSeq(ms, from) \in from .. MaxSeq
      /\ {m.seq : m \in ms} = (from + 1) .. LastSeq(ms, from)
  BY <1>1 DEF LastSeq
<1>3. \A m, n \in ms : m.seq = n.seq => m = n
  BY DEF Contiguous
<1> QED BY <1>2, <1>3

(***************************************************************************)
(* What load_source_of_truth makes of the files.                           *)
(***************************************************************************)

\* A state that goes with the files.
Loaded(s) ==
    /\ s \in SourceOfTruth
    /\ Numbered(s.applied, s.watermark) /\ DroppedBelow(s.applied)
    /\ s.compacted <= s.watermark
    /\ s.mutations = After(s.applied, s.compacted)
    /\ s.op_index = s.applied /\ OpsAgree(s.applied)
    /\ snap.applied \subseteq s.applied /\ s.applied \subseteq Recoverable
    /\ Recoverable \subseteq s.applied
    /\ s.applied \subseteq idem \union log
    /\ log \subseteq s.applied
    /\ publishing => s.compacted <= offsets

\* Whether the log below the snapshot holds nothing that the snapshot does not.
CleanBelow == \A m \in log : m.seq <= snap.watermark => m \in snap.applied

\* The types of the files.
LEMMA FileTypes ==
  ASSUME TypeOK
  PROVE  /\ log \subseteq Mutation /\ snap.applied \subseteq Mutation /\ idem \subseteq Mutation
         /\ snap.watermark \in Nat /\ snap.watermark \in 0 .. MaxSeq
         /\ offsets \in Nat /\ offsets \in 0 .. MaxSeq
  BY StorageAssumption DEF TypeOK, Snapshot

\* A snapshot and a tail that goes on where it ends.
LEMMA TailGoesOn ==
  ASSUME TypeOK, FilesAddUp, CleanBelow, NEW top \in Nat, snap.watermark <= top,
         \A m \in After(log, snap.watermark) : m.seq \in (snap.watermark + 1) .. top,
         \A i \in (snap.watermark + 1) .. top : \E m \in After(log, snap.watermark) : m.seq = i,
         \A m, n \in After(log, snap.watermark) : m.seq = n.seq => m = n
  PROVE  /\ Numbered(Recoverable, top) /\ DroppedBelow(Recoverable)
         /\ idem \union log = Recoverable
<1> DEFINE tail == After(log, snap.watermark)
<1>1. /\ tail \subseteq log /\ Recoverable = snap.applied \union tail
      /\ \A m \in log : m.seq > snap.watermark => m \in tail
      /\ \A m \in tail : m.seq > snap.watermark
  BY DEF After, Recoverable
<1>2. /\ \A m \in snap.applied : m.seq \in 1 .. snap.watermark
      /\ \A i \in 1 .. snap.watermark : \E m \in snap.applied : m.seq = i
      /\ \A m, n \in snap.applied : m.seq = n.seq => m = n
  BY FileTypes, NumberedMeans DEF FilesAddUp
<1>3. /\ \A m \in tail : m.seq \in (snap.watermark + 1) .. top
      /\ \A i \in (snap.watermark + 1) .. top : \E m \in tail : m.seq = i
      /\ \A m, n \in tail : m.seq = n.seq => m = n
  OBVIOUS
<1> HIDE DEF tail
<1>4. Numbered(Recoverable, top)
  <2>1. \A m \in Recoverable : m.seq \in 1 .. top
    BY <1>1, <1>2, <1>3, FileTypes
  <2>2. ASSUME NEW i \in 1 .. top PROVE \E m \in Recoverable : m.seq = i
    <3>1. i \in 1 .. snap.watermark \/ i \in (snap.watermark + 1) .. top
      BY FileTypes
    <3> QED BY <1>1, <1>2, <1>3, <3>1
  <2>3. \A m, n \in Recoverable : m.seq = n.seq => m = n
    BY <1>1, <1>2, <1>3, FileTypes
  <2> QED BY <2>1, <2>2, <2>3, MeansNumbered
<1>5. DroppedBelow(Recoverable)
  BY <1>1 DEF FilesAddUp, DroppedBelow
<1>6. idem \union log \subseteq Recoverable
  <2>1. \A m \in log : m.seq <= snap.watermark \/ m.seq > snap.watermark
    BY FileTypes, SeqIsNumber
  <2> QED BY <1>1, <2>1 DEF FilesAddUp, CleanBelow
<1>7. Recoverable \subseteq idem \union log
  BY <1>1 DEF FilesAddUp
<1> QED BY <1>4, <1>5, <1>6, <1>7

\* from_mutations of a log that reaches the snapshot's watermark.
LEMMA ReplayLoads ==
  ASSUME TypeOK, FilesAddUp, log # {}, Contiguous(log, 0), OpsAgree(log),
         LastSeq(log, 0) = snap.watermark
  PROVE  Loaded(from_mutations(log))
<1> DEFINE w == snap.watermark
           s == [watermark |-> w, applied |-> log, compacted |-> 0,
                 mutations |-> log, op_index |-> log]
<1>1. /\ \A m \in log : m.seq \in 1 .. w
      /\ \A i \in 1 .. w : \E m \in log : m.seq = i
      /\ \A m, n \in log : m.seq = n.seq => m = n
  BY ContiguousMeans
<1>2. Numbered(log, w) /\ w \in Nat
  BY <1>1, FileTypes, MeansNumbered
<1>3. snap.applied \subseteq log
  <2>1. 1 \in 1 .. w
    BY <1>1, <1>2
  <2>2. PICK x \in log : x.seq = 1
    BY <1>1, <2>1
  <2>3. \A m \in snap.applied : m.seq \in 1 .. w
    BY <1>2, NumberedMeans DEF FilesAddUp
  <2> QED BY <2>2, <2>3 DEF FilesAddUp, DroppedBelow
<1>4. snap.applied = log
  BY <1>2, <1>3, SameLengthSame DEF FilesAddUp
<1>5. After(log, w) = {} /\ After(log, 0) = log
  BY <1>1, <1>2 DEF After
<1>6. Recoverable = log
  BY <1>4, <1>5 DEF Recoverable
<1>7. s \in SourceOfTruth
  BY FileTypes, StorageAssumption DEF SourceOfTruth
<1>8. from_mutations(log) = s
  BY DEF from_mutations
<1>9. idem \subseteq log /\ DroppedBelow(log)
  BY <1>4 DEF FilesAddUp
<1>10. 0 <= w /\ 0 <= offsets
  BY FileTypes
<1> QED BY <1>2, <1>4, <1>5, <1>6, <1>7, <1>8, <1>9, <1>10 DEF Loaded

\* from_snapshot_and_mutations, where the log below the snapshot is clean.
LEMMA SnapshotLoads ==
  ASSUME TypeOK, FilesAddUp, CleanBelow, ~publishing,
         Contiguous(TailOfSnapshot(snap), snap.watermark),
         OpsAgree((idem \union log) \union TailOfSnapshot(snap))
  PROVE  Loaded(from_snapshot_and_mutations(snap, idem \union log, TailOfSnapshot(snap)))
<1> DEFINE w == snap.watermark
           tail == TailOfSnapshot(snap)
           top == LastSeq(tail, w)
           s == [watermark |-> top, applied |-> snap.applied \union tail, compacted |-> w,
                 mutations |-> tail, op_index |-> (idem \union log) \union tail]
<1>1. tail = After(log, w) /\ w \in Nat /\ tail \subseteq log
  BY FileTypes DEF TailOfSnapshot, After
<1>2. /\ top \in w .. MaxSeq
      /\ \A m \in tail : m.seq \in (w + 1) .. top
      /\ \A i \in (w + 1) .. top : \E m \in tail : m.seq = i
      /\ \A m, n \in tail : m.seq = n.seq => m = n
  BY <1>1, ContiguousMeans
<1>3. top \in Nat /\ w <= top /\ top \in 0 .. MaxSeq
  BY <1>1, <1>2, StorageAssumption
<1> HIDE DEF top
<1>4. /\ Numbered(Recoverable, top) /\ DroppedBelow(Recoverable)
      /\ idem \union log = Recoverable
  BY <1>1, <1>2, <1>3, TailGoesOn
<1>5. snap.applied \union tail = Recoverable
  BY <1>1 DEF Recoverable
<1>6. (idem \union log) \union tail = Recoverable
  BY <1>1, <1>4
<1>7. tail = After(Recoverable, w)
  <2>1. \A m \in snap.applied : m.seq <= w /\ m.seq \in Nat
    BY FileTypes, NumberedMeans DEF FilesAddUp
  <2> QED BY <1>1, <1>2, <2>1 DEF After, Recoverable
<1>8. Recoverable \subseteq Mutation /\ tail \subseteq Mutation
  BY <1>1, <1>5, FileTypes
<1>9. w \in 0 .. MaxSeq
  BY FileTypes
<1> HIDE DEF tail, w
<1>10. s = [watermark |-> top, applied |-> Recoverable, compacted |-> w,
            mutations |-> tail, op_index |-> Recoverable]
  BY <1>5, <1>6
<1>11. s \in SourceOfTruth
  BY <1>3, <1>8, <1>9, <1>10 DEF SourceOfTruth
<1>12. from_snapshot_and_mutations(snap, idem \union log, TailOfSnapshot(snap)) = s
  BY DEF from_snapshot_and_mutations, top, tail, w
<1>13. OpsAgree(Recoverable)
  BY <1>6 DEF tail
<1> HIDE DEF s
<1>14. /\ s.watermark = top /\ s.applied = Recoverable /\ s.compacted = w
       /\ s.mutations = tail /\ s.op_index = Recoverable
  BY <1>10
<1>15. snap.applied \subseteq Recoverable /\ Recoverable \subseteq idem \union log
  BY <1>4, <1>5
<1>16. log \subseteq Recoverable
  BY <1>4
<1> QED
  BY <1>3, <1>4, <1>7, <1>11, <1>12, <1>13, <1>14, <1>15, <1>16 DEF Loaded

\* from_snapshot_and_retained_history: a log that goes on from the offsets or the
\* snapshot holds nothing at or below the snapshot that the snapshot does not.
LEMMA RetainedLoads ==
  ASSUME TypeOK, FilesAddUp, NEW from \in Nat, from <= snap.watermark, from <= offsets,
         Contiguous(log, from), LastSeq(log, from) >= snap.watermark,
         OpsAgree((idem \union log) \union log)
  PROVE  Loaded(from_snapshot_and_retained_history(snap, idem \union log, log, from))
<1> DEFINE w == snap.watermark
           tail == After(log, w)
           top == LastSeq(log, from)
           s == [watermark |-> top, applied |-> snap.applied \union tail, compacted |-> from,
                 mutations |-> log, op_index |-> (idem \union log) \union log]
<1>1. /\ w \in Nat /\ tail \subseteq log
      /\ \A m \in log : m.seq > w <=> m \in tail
  BY FileTypes DEF After
<1>2. /\ top \in from .. MaxSeq
      /\ \A m \in log : m.seq \in (from + 1) .. top
      /\ \A i \in (from + 1) .. top : \E m \in log : m.seq = i
      /\ \A m, n \in log : m.seq = n.seq => m = n
  BY ContiguousMeans
<1>3. top \in Nat /\ w <= top /\ top \in 0 .. MaxSeq
  BY <1>1, <1>2, StorageAssumption
<1>u. LastSeq(log, from) = top
  OBVIOUS
<1> HIDE DEF top
<1>4. /\ \A m \in snap.applied : m.seq \in 1 .. w
      /\ \A i \in 1 .. w : \E m \in snap.applied : m.seq = i
  BY FileTypes, NumberedMeans DEF FilesAddUp
<1>5. \A m \in snap.applied, x \in log : m \in log \/ m.seq < x.seq
  BY DEF FilesAddUp, DroppedBelow
<1>6. ASSUME NEW x \in log, x.seq <= w
      PROVE  x \in snap.applied
  <2>1. x.seq \in 1 .. w
    BY <1>2, <1>3, <1>6
  <2>2. PICK m \in snap.applied : m.seq = x.seq
    BY <1>4, <2>1
  <2>3. m \in log
    BY <1>5, <2>1, <2>2
  <2>4. m = x
    BY <1>2, <2>2, <2>3
  <2> QED BY <2>4
<1>7. CleanBelow
  BY <1>6 DEF CleanBelow
<1>8. /\ \A m \in tail : m.seq \in (w + 1) .. top
      /\ \A i \in (w + 1) .. top : \E m \in tail : m.seq = i
      /\ \A m, n \in tail : m.seq = n.seq => m = n
  <2>1. \A m \in tail : m.seq \in (w + 1) .. top
    BY <1>1, <1>2, <1>3
  <2>2. ASSUME NEW i \in (w + 1) .. top PROVE \E m \in tail : m.seq = i
    <3>1. i \in (from + 1) .. top /\ i > w
      BY <1>1
    <3>2. PICK m \in log : m.seq = i
      BY <1>2, <3>1
    <3> QED BY <1>1, <3>1, <3>2
  <2> QED BY <1>1, <1>2, <2>1, <2>2
<1>9. /\ Numbered(Recoverable, top) /\ DroppedBelow(Recoverable)
      /\ idem \union log = Recoverable
  BY <1>3, <1>7, <1>8, TailGoesOn
<1>10. snap.applied \union tail = Recoverable /\ (idem \union log) \union log = Recoverable
  BY <1>9 DEF Recoverable
<1>11. log = After(Recoverable, from)
  <2>1. ASSUME NEW x \in log PROVE x \in Recoverable /\ x.seq > from
    BY <1>2, <1>9
  <2>2. ASSUME NEW m \in Recoverable, m.seq > from PROVE m \in log
    <3>1. CASE m \in tail
      BY <1>1, <3>1
    <3>2. CASE m \in snap.applied
      <4>1. m.seq \in (from + 1) .. top
        BY <1>1, <1>3, <1>4, <2>2, <3>2
      <4>2. PICK x \in log : x.seq = m.seq
        BY <1>2, <4>1
      <4> QED BY <1>5, <3>2, <4>1, <4>2
    <3> QED BY <1>10, <3>1, <3>2
  <2> QED BY <2>1, <2>2 DEF After
<1>12. Recoverable \subseteq Mutation
  BY <1>9, FileTypes
<1>13. from \in 0 .. MaxSeq /\ from <= top
  BY <1>2, <1>3, StorageAssumption
<1> HIDE DEF tail, w
<1>14. s = [watermark |-> top, applied |-> Recoverable, compacted |-> from,
            mutations |-> log, op_index |-> Recoverable]
  BY <1>10
<1>15. s \in SourceOfTruth
  BY <1>3, <1>12, <1>13, <1>14, FileTypes DEF SourceOfTruth
<1>16. from_snapshot_and_retained_history(snap, idem \union log, log, from) = s
  BY <1>u DEF from_snapshot_and_retained_history, tail, w
<1>17. OpsAgree(Recoverable)
  BY <1>10
<1> HIDE DEF s
<1>18. /\ s.watermark = top /\ s.applied = Recoverable /\ s.compacted = from
       /\ s.mutations = log /\ s.op_index = Recoverable
  BY <1>14
<1>19. snap.applied \subseteq Recoverable /\ log \subseteq Recoverable
       /\ Recoverable \subseteq idem \union log
  BY <1>9, <1>10
<1> QED
  BY <1>9, <1>11, <1>13, <1>15, <1>16, <1>17, <1>18, <1>19 DEF Loaded

\* Whatever load_source_of_truth returns goes with the files.
LEMMA LoadIsGood ==
  ASSUME TypeOK, FilesAddUp, ~publishing => CleanBelow, load_source_of_truth # None
  PROVE  Loaded(load_source_of_truth)
<1> DEFINE replayed == from_mutations(log)
           from == Least(offsets, snap.watermark)
           retained == from_snapshot_and_retained_history(snap, idem \union log, log, from)
           alone == from_snapshot_and_mutations(snap, idem \union log, TailOfSnapshot(snap))
<1>1. ~torn
  BY DEF load_source_of_truth
<1>2. CASE ~publishing
  <2>1. load_source_of_truth = alone
    BY <1>1, <1>2 DEF load_source_of_truth
  <2>2. /\ Contiguous(TailOfSnapshot(snap), snap.watermark)
        /\ OpsAgree((idem \union log) \union TailOfSnapshot(snap))
    BY <2>1 DEF from_snapshot_and_mutations
  <2> QED BY <1>2, <2>1, <2>2, SnapshotLoads
<1>3. CASE publishing /\ log # {} /\ replayed # None /\ replayed.watermark = snap.watermark
  <2>1. load_source_of_truth = replayed
    BY <1>1, <1>3 DEF load_source_of_truth
  <2>2. Contiguous(log, 0) /\ OpsAgree(log)
    BY <1>3 DEF from_mutations
  <2>3. LastSeq(log, 0) = snap.watermark
    BY <1>3, <2>2 DEF from_mutations
  <2> QED BY <1>3, <2>1, <2>2, <2>3, ReplayLoads
<1>4. CASE publishing /\ ~(log # {} /\ replayed # None /\ replayed.watermark = snap.watermark)
  <2>1. load_source_of_truth = retained
    BY <1>1, <1>4 DEF load_source_of_truth
  <2>2. from \in Nat /\ from <= offsets /\ from <= snap.watermark
    BY FileTypes DEF Least
  <2> HIDE DEF from
  <2>3. /\ Contiguous(log, from) /\ LastSeq(log, from) >= snap.watermark
        /\ OpsAgree((idem \union log) \union log)
    BY <2>1 DEF from_snapshot_and_retained_history
  <2> QED BY <2>1, <2>2, <2>3, RetainedLoads
<1> QED BY <1>2, <1>3, <1>4 DEF TypeOK

(***************************************************************************)
(* A node without a publisher always starts again.                         *)
(***************************************************************************)

\* What a node without a publisher keeps, apart from what follows from the rest.
AloneSimple ==
    /\ stream = {} /\ offsets = 0 /\ doubled = {}
    /\ pc # "down" =>
          /\ log \subseteq state.applied \union IF pc = "logged" THEN {cur} ELSE {}
          /\ batch = {} /\ next = 0

\* The types of the process.
LEMMA StateTypes ==
  ASSUME TypeOK
  PROVE  /\ state \in SourceOfTruth
         /\ state.applied \subseteq Mutation /\ state.mutations \subseteq Mutation
         /\ state.op_index \subseteq Mutation
         /\ state.watermark \in Nat /\ state.watermark \in 0 .. MaxSeq
         /\ state.compacted \in Nat /\ state.compacted \in 0 .. MaxSeq
         /\ cut \in Nat /\ published \in Nat /\ next \in Nat
         /\ stream \subseteq Mutation /\ batch \subseteq Mutation
  BY StorageAssumption DEF TypeOK, SourceOfTruth

\* The snapshot is not ahead of the state.
LEMMA SnapshotBehind ==
  ASSUME TypeOK, FilesAddUp, StateAddsUp
  PROVE  snap.watermark <= state.watermark
  BY FileTypes, StateTypes, LargerGoesFurther DEF FilesAddUp, StateAddsUp

\* The log of a running node holds nothing below its snapshot that the snapshot does
\* not, and snapshot and log add up (load_source_of_truth), also between the append
\* of a commit and its application.
LEMMA AloneStarts ==
  TypeOK /\ FilesAddUp /\ StateAddsUp /\ CommitUnderWay /\ pc # "down" /\ ~publishing
    /\ AloneSimple => CleanBelow /\ (~torn => StartsAgain)
<1> SUFFICES ASSUME TypeOK, FilesAddUp, StateAddsUp, CommitUnderWay, pc # "down",
                    ~publishing, AloneSimple
             PROVE  CleanBelow /\ (~torn => StartsAgain)
  OBVIOUS
<1> DEFINE w == snap.watermark
           tail == TailOfSnapshot(snap)
           extra == IF pc = "logged" THEN {cur} ELSE {}
           top == IF pc = "logged" THEN state.watermark + 1 ELSE state.watermark
<1>1. /\ w \in Nat /\ state.watermark \in Nat /\ w <= state.watermark
      /\ MaxSeq \in Nat
      /\ log \subseteq Mutation /\ \A m \in Mutation : m.seq \in 1 .. MaxSeq /\ m.seq \in Nat
  BY FileTypes, StateTypes, SnapshotBehind, SeqIsNumber, StorageAssumption
<1>2. /\ \A m \in state.applied : m.seq \in 1 .. state.watermark
      /\ \A i \in 1 .. state.watermark : \E m \in state.applied : m.seq = i
      /\ \A m, n \in state.applied : m.seq = n.seq => m = n
  BY <1>1, NumberedMeans DEF StateAddsUp
<1>3. log \subseteq state.applied \union extra
  BY DEF AloneSimple
<1>4. \A m \in extra : m = cur /\ cur \in log /\ cur.seq = state.watermark + 1 /\ pc = "logged"
                       /\ KnownOp(cur.op) = {}
  BY DEF CommitUnderWay
<1>5. \A m \in state.applied : m \in snap.applied \/ (m \in log /\ m.seq > w)
  BY DEF StateAddsUp, Recoverable, After
<1>6. CleanBelow
  <2> SUFFICES ASSUME NEW m \in log, m.seq <= w PROVE m \in snap.applied
    BY DEF CleanBelow
  <2>1. m \notin extra
    BY <1>1, <1>4
  <2> QED BY <1>1, <1>3, <1>5, <2>1
<1>7. ASSUME ~torn PROVE StartsAgain
  <2>1. \A m \in log : m \in tail <=> m.seq > w
    BY DEF TailOfSnapshot, After
  <2>2. tail \subseteq log
    BY DEF TailOfSnapshot, After
  <2>t. top \in Nat /\ w <= top /\ top <= MaxSeq
    <3>1. CASE pc = "logged"
      <4>1. cur \in log /\ cur.seq = state.watermark + 1
        BY <3>1 DEF CommitUnderWay
      <4> QED BY <1>1, <3>1, <4>1
    <3>2. CASE pc # "logged"
      BY <1>1, <3>2, StateTypes
    <3> QED BY <3>1, <3>2
  <2> HIDE DEF tail
  <2>3. \A m \in tail : m.seq \in (w + 1) .. top
    <3> SUFFICES ASSUME NEW m \in tail PROVE m.seq \in (w + 1) .. top
      OBVIOUS
    <3>1. m.seq > w /\ m \in log /\ m.seq \in Nat
      BY <1>1, <2>1, <2>2
    <3>2. CASE m \in extra
      BY <1>1, <1>4, <3>1, <3>2
    <3>3. CASE m \in state.applied
      BY <1>1, <1>2, <3>1, <3>3
    <3> QED BY <1>3, <3>1, <3>2, <3>3
  <2>4. ASSUME NEW i \in (w + 1) .. top PROVE \E m \in tail : m.seq = i
    <3>1. CASE i \in 1 .. state.watermark
      <4>1. PICK m \in state.applied : m.seq = i
        BY <1>2, <3>1
      <4>2. m \notin snap.applied
        <5>1. \A x \in snap.applied : x.seq \in 1 .. w
          BY <1>1, NumberedMeans DEF FilesAddUp
        <5> QED BY <1>1, <4>1, <5>1
      <4> QED BY <1>5, <2>1, <4>1, <4>2
    <3>2. CASE i \notin 1 .. state.watermark
      <4>1. pc = "logged" /\ i = state.watermark + 1
        BY <1>1, <3>2
      <4> QED BY <1>1, <1>4, <2>1, <4>1
    <3> QED BY <3>1, <3>2
  <2>5. ASSUME NEW m \in log, NEW n \in log, m.seq = n.seq PROVE m = n
    <3>1. CASE m \in extra
      BY <1>1, <1>2, <1>3, <1>4, <2>5, <3>1
    <3>2. CASE n \in extra
      BY <1>1, <1>2, <1>3, <1>4, <2>5, <3>2
    <3> QED BY <1>2, <1>3, <2>5, <3>1, <3>2
  <2>6. Contiguous(tail, w)
    <3>1. {m.seq : m \in tail} = (w + 1) .. top
      BY <2>3, <2>4
    <3>2. top \in w .. MaxSeq
      BY <1>1, <2>t
    <3>3. tail \intersect doubled = {}
      BY DEF AloneSimple
    <3> QED BY <2>2, <2>5, <3>1, <3>2, <3>3 DEF Contiguous
  <2>7. OpsAgree((idem \union log) \union tail)
    <3>1. (idem \union log) \union tail \subseteq state.applied \union extra
      BY <1>3, <2>2 DEF FilesAddUp, StateAddsUp
    <3>2. \A m, n \in state.applied : m.op = n.op => m = n
      BY DEF StateAddsUp, OpsAgree
    <3>3. \A m \in extra, n \in state.applied : m.op # n.op
      BY <1>4 DEF StateAddsUp, KnownOp
    <3> QED BY <1>4, <3>1, <3>2, <3>3 DEF OpsAgree
  <2> DEFINE loaded == from_snapshot_and_mutations(snap, idem \union log, tail)
  <2>8. Loaded(loaded)
    BY <1>6, <2>6, <2>7, SnapshotLoads DEF tail
  <2>9. load_source_of_truth = loaded
    BY <1>7 DEF load_source_of_truth, tail
  <2> QED BY <2>8, <2>9, NoneAssumption DEF StartsAgain, Loaded
<1> QED BY <1>6, <1>7

\* What there is to show of a running node.
LEMMA RunningInv ==
  TypeOK /\ publishing \in Publishing /\ pc # "down" /\ FilesAddUp /\ StateAddsUp
    /\ CommitUnderWay /\ PublisherInStep /\ (~publishing => AloneSimple) => StorageInv
<1> SUFFICES ASSUME TypeOK, publishing \in Publishing, pc # "down", FilesAddUp, StateAddsUp,
                    CommitUnderWay, PublisherInStep, ~publishing => AloneSimple
             PROVE  StorageInv
  OBVIOUS
<1>1. ASSUME ~publishing PROVE AloneAddsUp
  <2>1. CleanBelow /\ (~torn => StartsAgain)
    BY <1>1, AloneStarts
  <2> QED BY <1>1, <2>1 DEF AloneAddsUp, AloneSimple, CleanBelow
<1> QED BY <1>1 DEF StorageInv

\* The same after a step.
LEMMA RunningInvNext ==
  ASSUME TypeOK', (publishing \in Publishing)', (pc # "down")', FilesAddUp', StateAddsUp',
         CommitUnderWay', PublisherInStep', (~publishing => AloneSimple)'
  PROVE  StorageInv'
<1>1. (TypeOK /\ publishing \in Publishing /\ pc # "down" /\ FilesAddUp /\ StateAddsUp
        /\ CommitUnderWay /\ PublisherInStep /\ (~publishing => AloneSimple) => StorageInv)'
  BY RunningInv, PTL
<1> QED BY <1>1

(***************************************************************************)
(* Steps that leave the log and the state alone.                           *)
(***************************************************************************)

\* The snapshot of the state is of the right type.
LEMMA SnapshotOfState ==
  ASSUME TypeOK
  PROVE  /\ SnapshotOf(state) \in Snapshot
         /\ SnapshotOf(state).applied = state.applied
         /\ SnapshotOf(state).watermark = state.watermark
  BY StateTypes DEF SnapshotOf, Snapshot

\* Whether or not the snapshot is rewritten, and whichever applied mutation is
\* acknowledged, files and state go on adding up.
LEMMA FilesStay ==
  ASSUME StorageInv, pc # "down", snap' \in {snap, SnapshotOf(state)},
         UNCHANGED << log, idem, offsets, state, stream >>, acked' \subseteq state.applied
  PROVE  FilesAddUp' /\ StateAddsUp' /\ snap' \in Snapshot /\ acked' \subseteq Mutation
<1>1. TypeOK /\ FilesAddUp /\ StateAddsUp
  BY DEF StorageInv
<1>2. snap' \in Snapshot /\ acked' \subseteq Mutation
  BY <1>1, SnapshotOfState, StateTypes DEF TypeOK
<1>3. CASE snap' = snap
  <2>1. Recoverable' = Recoverable
    BY <1>3 DEF Recoverable
  <2>2. FilesAddUp'
    BY <1>1, <1>3, <2>1 DEF FilesAddUp, StateAddsUp, DroppedBelow
  <2>3. StateAddsUp'
    BY <1>1, <1>3, <2>1 DEF StateAddsUp, DroppedBelow
  <2> QED BY <1>2, <2>2, <2>3
<1>4. CASE snap' = SnapshotOf(state)
  <2>1. snap'.applied = state.applied /\ snap'.watermark = state.watermark
    BY <1>1, <1>4, SnapshotOfState
  <2>2. state.applied \subseteq Recoverable'
    BY <2>1 DEF Recoverable
  <2>3. FilesAddUp'
    BY <1>1, <2>1, <2>2 DEF FilesAddUp, StateAddsUp, DroppedBelow
  <2>4. StateAddsUp'
    BY <1>1, <2>1, <2>2 DEF StateAddsUp, DroppedBelow
  <2> QED BY <1>2, <2>3, <2>4
<1> QED BY <1>3, <1>4

\* The publisher is in step where nothing is taken from the state.
LEMMA PublisherStays ==
  ASSUME StorageInv, pc # "down",
         UNCHANGED << published, offsets, next, batch, stream, publishing >>,
         state.applied \subseteq state'.applied,
         publishing => state'.compacted <= published
  PROVE  PublisherInStep'
<1>1. PublisherInStep
  BY DEF StorageInv
<1>2. After(state.applied, published) \subseteq After(state'.applied, published)
  BY DEF After
<1> QED BY <1>1, <1>2 DEF PublisherInStep

\* What the invariant says of a running node.
LEMMA WhenRunning ==
  ASSUME StorageInv, pc # "down"
  PROVE  /\ TypeOK /\ publishing \in Publishing /\ FilesAddUp /\ StateAddsUp /\ CommitUnderWay
         /\ PublisherInStep /\ (~publishing => AloneSimple)
         /\ publishing => state.compacted <= published
  BY DEF StorageInv, AloneAddsUp, AloneSimple, PublisherInStep

\* The snapshot written at startup.
LEMMA WriteStartupSnapshotKeeps ==
  ASSUME StorageInv, WriteStartupSnapshot
  PROVE  StorageInv'
<1>1. /\ pc = "loaded" /\ pc' \in {"compact", "idle"} /\ snap' = SnapshotOf(state)
      /\ UNCHANGED << log, doubled, torn, idem, offsets, cur, state, cut, stream, acked, crashes >>
      /\ UNCHANGED << publishing, published, batch, next >>
  BY DEF WriteStartupSnapshot, publisher
<1>2. TypeOK /\ publishing \in Publishing /\ StateAddsUp /\ CommitUnderWay
      /\ (~publishing => AloneSimple) /\ (publishing => state.compacted <= published)
  BY <1>1, WhenRunning
<1>3. FilesAddUp' /\ StateAddsUp' /\ snap' \in Snapshot /\ acked' \subseteq Mutation
  BY <1>1, <1>2, FilesStay DEF StateAddsUp
<1>4. TypeOK'
  BY <1>1, <1>2, <1>3 DEF TypeOK
<1>5. CommitUnderWay'
  BY <1>1, <1>2 DEF CommitUnderWay
<1>6. PublisherInStep'
  BY <1>1, <1>2, PublisherStays
<1>7. (~publishing => AloneSimple)'
  BY <1>1, <1>2 DEF AloneSimple
<1> QED BY <1>1, <1>2, <1>3, <1>4, <1>5, <1>6, <1>7, RunningInvNext

\* A duplicate is answered with what was applied under its op_id.
LEMMA CommitDuplicateKeeps ==
  ASSUME StorageInv, NEW op \in Op, CommitDuplicate(op)
  PROVE  StorageInv'
<1>1. /\ pc = "idle" /\ acked' = acked \union KnownOp(op)
      /\ UNCHANGED << log, doubled, torn, snap, idem, offsets, pc, cur, state, cut, stream, crashes >>
      /\ UNCHANGED << publishing, published, batch, next >>
  BY DEF CommitDuplicate, disk, publisher
<1>2. TypeOK /\ publishing \in Publishing /\ StateAddsUp /\ CommitUnderWay
      /\ (~publishing => AloneSimple) /\ (publishing => state.compacted <= published)
  BY <1>1, WhenRunning
<1>3. acked' \subseteq state.applied
  BY <1>1, <1>2 DEF StateAddsUp, KnownOp
<1>4. FilesAddUp' /\ StateAddsUp' /\ snap' \in Snapshot /\ acked' \subseteq Mutation
  BY <1>1, <1>3, FilesStay
<1>5. TypeOK'
  BY <1>1, <1>2, <1>4 DEF TypeOK
<1>6. CommitUnderWay'
  BY <1>1, <1>2 DEF CommitUnderWay
<1>7. PublisherInStep'
  BY <1>1, <1>2, PublisherStays
<1>8. (~publishing => AloneSimple)'
  BY <1>1, <1>2 DEF AloneSimple
<1> QED BY <1>1, <1>2, <1>4, <1>5, <1>6, <1>7, <1>8, RunningInvNext

\* A record that is cut short is not read, but makes the log unreadable.
LEMMA CommitTearsKeeps ==
  ASSUME StorageInv, NEW op \in Op, CommitTears(op)
  PROVE  StorageInv'
<1>1. /\ pc = "idle" /\ torn' = TRUE
      /\ UNCHANGED << log, doubled, snap, idem, offsets, pc, cur, state, cut, stream, acked, crashes >>
      /\ UNCHANGED << publishing, published, batch, next >>
  BY DEF CommitTears, CanPrepare, publisher
<1>2. TypeOK /\ publishing \in Publishing /\ StateAddsUp /\ CommitUnderWay
      /\ (~publishing => AloneSimple) /\ (publishing => state.compacted <= published)
  BY <1>1, WhenRunning
<1>3. FilesAddUp' /\ StateAddsUp' /\ snap' \in Snapshot /\ acked' \subseteq Mutation
  BY <1>1, <1>2, FilesStay DEF StateAddsUp
<1>4. TypeOK'
  BY <1>1, <1>2, <1>3 DEF TypeOK
<1>5. CommitUnderWay'
  BY <1>1, <1>2 DEF CommitUnderWay
<1>6. PublisherInStep'
  BY <1>1, <1>2, PublisherStays
<1>7. (~publishing => AloneSimple)'
  BY <1>1, <1>2 DEF AloneSimple
<1> QED BY <1>1, <1>2, <1>3, <1>4, <1>5, <1>6, <1>7, RunningInvNext

\* Where a request is given up after its mutation was applied, or before anything was
\* written, the state stays as it is.  (Without a publisher only the former happens.)
LEMMA GivesUpKeeps ==
  ASSUME StorageInv, pc # "down", GiveUp, snap' \in {snap, SnapshotOf(state)},
         ~publishing => pc # "logged",
         UNCHANGED << log, doubled, torn, idem, offsets, state >>
  PROVE  StorageInv'
<1>1. /\ pc' = "idle" /\ cur' = None /\ cut' = 0
      /\ UNCHANGED << publishing, published, batch, next, stream, acked, crashes >>
  BY DEF GiveUp, publisher
<1>2. TypeOK /\ publishing \in Publishing /\ StateAddsUp
      /\ (~publishing => AloneSimple) /\ (publishing => state.compacted <= published)
  BY WhenRunning
<1>3. FilesAddUp' /\ StateAddsUp' /\ snap' \in Snapshot /\ acked' \subseteq Mutation
  BY <1>1, <1>2, FilesStay DEF StateAddsUp
<1>4. TypeOK'
  <2>1. cut' \in 0 .. MaxSeq
    BY <1>1, StorageAssumption
  <2> QED BY <1>1, <1>2, <1>3, <2>1 DEF TypeOK
<1>5. CommitUnderWay'
  BY <1>1 DEF CommitUnderWay
<1>6. PublisherInStep'
  BY <1>1, <1>2, PublisherStays
<1>7. (~publishing => AloneSimple)'
  BY <1>1, <1>2 DEF AloneSimple
<1> QED BY <1>1, <1>2, <1>3, <1>4, <1>5, <1>6, <1>7, RunningInvNext

\* The snapshot after a commit, which is then answered or goes on to compaction.
LEMMA PersistSnapshotKeeps ==
  ASSUME StorageInv, PersistSnapshot
  PROVE  StorageInv'
<1>1. /\ pc = "applied" /\ snap' = SnapshotOf(state)
      /\ UNCHANGED << log, doubled, torn, idem, offsets, state, stream, crashes >>
      /\ UNCHANGED << publishing, published, batch, next >>
  BY DEF PersistSnapshot, publisher
<1>2. \/ pc' = "compact" /\ UNCHANGED << cur, cut, acked >>
      \/ /\ pc' = "idle" /\ cur' = None /\ cut' = 0
         /\ acked' = acked \union ({cur} \ {None})
  BY DEF PersistSnapshot, Answer
<1>3. TypeOK /\ publishing \in Publishing /\ StateAddsUp /\ CommitUnderWay
      /\ (~publishing => AloneSimple) /\ (publishing => state.compacted <= published)
  BY <1>1, WhenRunning
<1>4. cur \in state.applied \union {None}
  BY <1>1, <1>3 DEF CommitUnderWay
<1>5. acked' \subseteq state.applied
  BY <1>2, <1>3, <1>4 DEF StateAddsUp
<1>6. FilesAddUp' /\ StateAddsUp' /\ snap' \in Snapshot /\ acked' \subseteq Mutation
  BY <1>1, <1>5, FilesStay
<1>7. TypeOK'
  <2>1. cut' \in 0 .. MaxSeq /\ cur' \in Mutation \union {None}
    BY <1>2, <1>3, StorageAssumption DEF TypeOK
  <2> QED BY <1>1, <1>2, <1>3, <1>6, <2>1 DEF TypeOK
<1>8. CommitUnderWay'
  BY <1>1, <1>2, <1>4 DEF CommitUnderWay
<1>9. PublisherInStep'
  BY <1>1, <1>3, PublisherStays
<1>10. (~publishing => AloneSimple)'
  BY <1>1, <1>2, <1>3 DEF AloneSimple
<1>11. (pc # "down")'
  BY <1>2
<1> QED BY <1>1, <1>3, <1>6, <1>7, <1>8, <1>9, <1>10, <1>11, RunningInvNext

(***************************************************************************)
(* Compaction.                                                             *)
(***************************************************************************)

\* compaction_watermark is between what is compacted already and the state, and
\* with a publisher not beyond what JetStream has.
LEMMA CutIsBetween ==
  ASSUME StorageInv, pc # "down"
  PROVE  /\ CompactionWatermark \in 0 .. MaxSeq
         /\ state.compacted <= CompactionWatermark /\ CompactionWatermark <= state.watermark
         /\ publishing => CompactionWatermark <= published
<1>1. /\ state.compacted <= state.watermark
      /\ publishing => state.compacted <= published
  BY WhenRunning DEF StateAddsUp
<1>2. /\ state.watermark \in Nat /\ state.watermark \in 0 .. MaxSeq
      /\ state.compacted \in Nat /\ published \in Nat
  BY WhenRunning, StateTypes
<1> QED BY <1>1, <1>2, StorageAssumption DEF CompactionWatermark, Least, Greatest

\* The snapshot that compaction writes first.
LEMMA CompactSnapshotKeeps ==
  ASSUME StorageInv, CompactSnapshot
  PROVE  StorageInv'
<1>1. /\ pc = "compact" /\ pc' = "idem" /\ cut' = CompactionWatermark
      /\ snap' = SnapshotOf(state)
      /\ UNCHANGED << log, doubled, torn, idem, offsets, cur, state, stream, acked, crashes >>
      /\ UNCHANGED << publishing, published, batch, next >>
  BY DEF CompactSnapshot, publisher
<1>2. TypeOK /\ publishing \in Publishing /\ StateAddsUp /\ CommitUnderWay
      /\ (~publishing => AloneSimple) /\ (publishing => state.compacted <= published)
  BY <1>1, WhenRunning
<1>3. FilesAddUp' /\ StateAddsUp' /\ snap' \in Snapshot /\ acked' \subseteq Mutation
  BY <1>1, <1>2, FilesStay DEF StateAddsUp
<1>4. /\ cut' \in 0 .. MaxSeq /\ state.compacted <= cut' /\ cut' <= state.watermark
      /\ publishing => cut' <= published
  BY <1>1, CutIsBetween
<1>5. TypeOK'
  BY <1>1, <1>2, <1>3, <1>4 DEF TypeOK
<1>6. CommitUnderWay'
  BY <1>1, <1>2, <1>4 DEF CommitUnderWay, SnapshotOf
<1>7. PublisherInStep'
  BY <1>1, <1>2, PublisherStays
<1>8. (~publishing => AloneSimple)'
  BY <1>1, <1>2 DEF AloneSimple
<1> QED BY <1>1, <1>2, <1>3, <1>5, <1>6, <1>7, <1>8, RunningInvNext

\* The idempotency stream is rewritten with every operation the snapshot knows.
LEMMA CompactIdempotencyKeeps ==
  ASSUME StorageInv, CompactIdempotency
  PROVE  StorageInv'
<1>1. /\ pc = "idem" /\ pc' = "logs" /\ idem' = state.op_index
      /\ UNCHANGED << log, doubled, torn, snap, offsets, cur, state, cut, stream, acked, crashes >>
      /\ UNCHANGED << publishing, published, batch, next >>
  BY DEF CompactIdempotency, IdempotencyMutations, publisher
<1>2. TypeOK /\ publishing \in Publishing /\ FilesAddUp /\ StateAddsUp /\ CommitUnderWay
      /\ (~publishing => AloneSimple) /\ (publishing => state.compacted <= published)
  BY <1>1, WhenRunning
<1>3. state.op_index = state.applied /\ snap.applied = state.applied
  BY <1>1, <1>2 DEF StateAddsUp, CommitUnderWay, SnapshotOf
<1>4. Recoverable' = Recoverable
  BY <1>1 DEF Recoverable
<1>5. FilesAddUp'
  BY <1>1, <1>2, <1>3, <1>4 DEF FilesAddUp, DroppedBelow
<1>6. StateAddsUp'
  BY <1>1, <1>2, <1>3, <1>4 DEF StateAddsUp, DroppedBelow
<1>7. TypeOK'
  BY <1>1, <1>2, StateTypes DEF TypeOK
<1>8. CommitUnderWay'
  BY <1>1, <1>2 DEF CommitUnderWay, SnapshotOf
<1>9. PublisherInStep'
  BY <1>1, <1>2, PublisherStays
<1>10. (~publishing => AloneSimple)'
  BY <1>1, <1>2 DEF AloneSimple
<1> QED BY <1>1, <1>2, <1>5, <1>6, <1>7, <1>8, <1>9, <1>10, RunningInvNext

\* What is dropped from the log and the history is in the snapshot, and its operations
\* in the idempotency stream.
LEMMA CompactLogsKeeps ==
  ASSUME StorageInv, CompactLogs
  PROVE  StorageInv'
<1>1. /\ pc = "logs" /\ log' = After(log, cut) /\ doubled' = After(doubled, cut)
      /\ state' = [state EXCEPT !.mutations = After(state.mutations, cut),
                                !.compacted = Greatest(state.compacted, cut)]
      /\ pc' = "idle" /\ cur' = None /\ cut' = 0
      /\ acked' = acked \union ({cur} \ {None})
      /\ UNCHANGED << torn, snap, idem, offsets, stream, crashes >>
      /\ UNCHANGED << publishing, published, batch, next >>
  BY DEF CompactLogs, Answer, publisher
<1>2. TypeOK /\ publishing \in Publishing /\ FilesAddUp /\ StateAddsUp /\ CommitUnderWay
      /\ (~publishing => AloneSimple) /\ (publishing => state.compacted <= published)
  BY <1>1, WhenRunning
<1>3. /\ snap.applied = state.applied /\ snap.watermark = state.watermark
      /\ idem = state.applied
      /\ state.compacted <= cut /\ cut <= state.watermark
      /\ publishing => cut <= published
      /\ cur \in state.applied \union {None}
  BY <1>1, <1>2 DEF StateAddsUp, CommitUnderWay, SnapshotOf
<1>4. /\ cut \in Nat /\ cut \in 0 .. MaxSeq /\ state.compacted \in Nat /\ state.watermark \in Nat
      /\ \A m \in log \union state.applied : m.seq \in Nat
  BY <1>2, StateTypes, FileTypes, SeqIsNumber DEF TypeOK
<1>5. Greatest(state.compacted, cut) = cut
  BY <1>3, <1>4 DEF Greatest
<1>6. PICK ms : ms = After(state.mutations, cut)
  OBVIOUS
<1>7. /\ state'.applied = state.applied /\ state'.watermark = state.watermark
      /\ state'.compacted = cut /\ state'.op_index = state.op_index
      /\ state'.mutations = ms
      /\ state' \in SourceOfTruth
  <2>1. ms \subseteq Mutation
    BY <1>2, <1>6, StateTypes DEF After
  <2>2. state' = [state EXCEPT !.mutations = ms, !.compacted = cut]
    BY <1>1, <1>5, <1>6
  <2> QED BY <1>2, <1>4, <2>1, <2>2, StateTypes DEF SourceOfTruth
<1>8. ms = After(state.applied, cut)
  <2>1. state.mutations = After(state.applied, state.compacted)
    BY <1>2 DEF StateAddsUp
  <2>2. \A m \in state.applied : m.seq > cut => m.seq > state.compacted
    BY <1>3, <1>4
  <2> QED BY <1>6, <2>1, <2>2 DEF After
<1>9. /\ log' \subseteq log /\ doubled' \subseteq doubled /\ doubled' \subseteq log'
      /\ \A x \in log' : x.seq > cut
      /\ \A x \in log : x.seq > cut => x \in log'
  BY <1>1, <1>2 DEF After, TypeOK
<1>10. \A m \in state.applied, x \in log' : m \in log' \/ m.seq < x.seq
  <2> SUFFICES ASSUME NEW m \in state.applied, NEW x \in log', ~(m.seq < x.seq)
               PROVE  m \in log'
    OBVIOUS
  <2>1. m \in log
    BY <1>2, <1>9 DEF StateAddsUp, DroppedBelow
  <2>2. m.seq > cut
    BY <1>4, <1>9
  <2> QED BY <1>9, <2>1, <2>2
<1>11. acked' \subseteq state.applied
  BY <1>1, <1>2, <1>3 DEF StateAddsUp
<1>12. state.applied \subseteq Recoverable'
  BY <1>1, <1>3 DEF Recoverable
<1>13. FilesAddUp'
  BY <1>1, <1>2, <1>3, <1>10, <1>11, <1>12 DEF FilesAddUp, StateAddsUp, DroppedBelow
<1>14. StateAddsUp'
  <2>1. \A x \in log' : x.seq <= state.watermark + 1
    BY <1>2, <1>9 DEF StateAddsUp
  <2> QED
    BY <1>1, <1>2, <1>3, <1>7, <1>8, <1>10, <1>11, <1>12, <2>1 DEF StateAddsUp, DroppedBelow
<1>15. TypeOK'
  <2>1. log' \subseteq Mutation /\ doubled' \subseteq log'
    BY <1>2, <1>9, FileTypes
  <2>2. acked' \subseteq Mutation /\ cut' \in 0 .. MaxSeq
    BY <1>1, <1>2, <1>11, StateTypes, StorageAssumption
  <2> QED BY <1>1, <1>2, <1>7, <2>1, <2>2 DEF TypeOK
<1>16. CommitUnderWay'
  BY <1>1 DEF CommitUnderWay
<1>17. PublisherInStep'
  BY <1>1, <1>2, <1>3, <1>7, PublisherStays
<1>18. (~publishing => AloneSimple)'
  BY <1>1, <1>2, <1>7, <1>9 DEF AloneSimple
<1> QED
  BY <1>1, <1>2, <1>13, <1>14, <1>15, <1>16, <1>17, <1>18, RunningInvNext

(***************************************************************************)
(* Commits.                                                                *)
(***************************************************************************)

\* prepare_commit numbers the mutation after the last one, and the log gets it.
LEMMA CommitKeeps ==
  ASSUME StorageInv, NEW op \in Op, NEW at \in 0 .. MaxAt, Commit(op, at)
  PROVE  StorageInv'
<1>1. /\ pc = "idle" /\ KnownOp(op) = {} /\ state.watermark < MaxSeq
      /\ cur' = [seq |-> state.watermark + 1, op |-> op, at |-> at]
      /\ log' = log \union {cur'}
      /\ doubled' = doubled \union ({cur'} \intersect log)
      /\ pc' = "logged"
      /\ UNCHANGED << torn, snap, idem, offsets, state, cut, stream, acked, crashes >>
      /\ UNCHANGED << publishing, published, batch, next >>
  BY DEF Commit, CanPrepare, AppendToLog, Append, publisher
<1>2. TypeOK /\ publishing \in Publishing /\ FilesAddUp /\ StateAddsUp /\ CommitUnderWay
      /\ (~publishing => AloneSimple) /\ (publishing => state.compacted <= published)
  BY <1>1, WhenRunning
<1>3. PICK mut : mut = cur'
  OBVIOUS
<1>4. /\ state.watermark \in Nat /\ state.watermark + 1 \in 1 .. MaxSeq
      /\ snap.watermark <= state.watermark /\ snap.watermark \in Nat
  BY <1>1, <1>2, StateTypes, FileTypes, SnapshotBehind, StorageAssumption
<1>5. mut \in Mutation /\ mut.seq = state.watermark + 1 /\ mut.op = op
  BY <1>1, <1>3, <1>4 DEF Mutation
<1>6. /\ \A m \in state.applied : m.seq \in 1 .. state.watermark
      /\ \A m \in snap.applied : m.seq \in 1 .. snap.watermark
  BY <1>2, <1>4, NumberedMeans DEF StateAddsUp, FilesAddUp
<1>7. /\ \A m \in state.applied : m.seq < mut.seq /\ m # mut
      /\ \A m \in snap.applied : m.seq < mut.seq
  BY <1>4, <1>5, <1>6
<1>8. Recoverable \subseteq Recoverable'
  BY <1>1 DEF Recoverable, After
<1>9. FilesAddUp'
  <2>1. DroppedBelow(snap.applied)'
    BY <1>1, <1>2, <1>3, <1>7 DEF FilesAddUp, DroppedBelow
  <2> QED BY <1>1, <1>2, <1>8, <2>1 DEF FilesAddUp
<1>10. StateAddsUp'
  <2>1. DroppedBelow(state.applied)'
    BY <1>1, <1>2, <1>3, <1>7 DEF StateAddsUp, DroppedBelow
  <2>2. mut.seq <= state.watermark + 1
    BY <1>4, <1>5
  <2>3. \A x \in log' : x.seq <= state.watermark + 1
    BY <1>1, <1>2, <1>3, <2>2 DEF StateAddsUp
  <2> QED BY <1>1, <1>2, <1>8, <2>1, <2>3 DEF StateAddsUp
<1>11. TypeOK'
  BY <1>1, <1>2, <1>3, <1>5 DEF TypeOK
<1>12. CommitUnderWay'
  <2>1. cur' # None
    BY <1>3, <1>5, NoneAssumption
  <2> QED BY <1>1, <1>3, <1>5, <2>1 DEF CommitUnderWay, KnownOp
<1>13. PublisherInStep'
  BY <1>1, <1>2, PublisherStays
<1>14. (~publishing => AloneSimple)'
  <2> SUFFICES ASSUME ~publishing PROVE AloneSimple'
    BY <1>1
  <2>1. AloneSimple /\ log \subseteq state.applied
    BY <1>1, <1>2 DEF AloneSimple
  <2>2. mut \notin log
    BY <1>7, <2>1
  <2>3. doubled' = {}
    BY <1>1, <1>3, <2>1, <2>2 DEF AloneSimple
  <2> QED BY <1>1, <2>1, <2>3 DEF AloneSimple
<1> QED
  BY <1>1, <1>2, <1>9, <1>10, <1>11, <1>12, <1>13, <1>14, RunningInvNext

\* apply_replicated_mutation of the mutation that was logged.
LEMMA ApplyLoggedKeeps ==
  ASSUME StorageInv, ApplyLogged
  PROVE  StorageInv'
<1>1. /\ pc = "logged" /\ pc' = "applied" /\ state' = Applied(state, cur)
      /\ UNCHANGED << log, doubled, torn, snap, idem, offsets, cur, cut, stream, acked, crashes >>
      /\ UNCHANGED << publishing, published, batch, next >>
  BY DEF ApplyLogged, disk, publisher
<1>2. TypeOK /\ publishing \in Publishing /\ FilesAddUp /\ StateAddsUp /\ CommitUnderWay
      /\ (~publishing => AloneSimple) /\ (publishing => state.compacted <= published)
  BY <1>1, WhenRunning
<1>3. /\ cur # None /\ cur \in log /\ cur.seq = state.watermark + 1 /\ KnownOp(cur.op) = {}
      /\ cur \in Mutation
  BY <1>1, <1>2 DEF CommitUnderWay, TypeOK
<1>4. /\ state.watermark \in Nat /\ cur.seq \in 1 .. MaxSeq /\ cur.seq \in Nat
      /\ snap.watermark <= state.watermark /\ snap.watermark \in Nat
      /\ state.compacted <= state.watermark /\ state.compacted \in Nat
  BY <1>2, <1>3, StateTypes, FileTypes, SnapshotBehind, SeqIsNumber DEF StateAddsUp
<1>5. PICK seq, all, ms :
        seq = cur.seq /\ all = state.applied \union {cur} /\ ms = state.mutations \union {cur}
  OBVIOUS
<1>6. /\ seq \in Nat /\ all \subseteq Mutation /\ ms \subseteq Mutation /\ seq \in 0 .. MaxSeq
      /\ seq = state.watermark + 1
  BY <1>2, <1>3, <1>4, <1>5, StateTypes
<1>7. state' = [state EXCEPT !.watermark = seq, !.applied = all, !.mutations = ms, !.op_index = all]
  BY <1>1, <1>2, <1>5 DEF Applied, StateAddsUp
<1>8. /\ state'.watermark = seq /\ state'.applied = all /\ state'.mutations = ms
      /\ state'.op_index = all /\ state'.compacted = state.compacted
      /\ state' \in SourceOfTruth
  BY <1>2, <1>6, <1>7, StateTypes DEF SourceOfTruth
<1>9. Numbered(all, seq)
  <2>1. /\ \A m \in state.applied : m.seq \in 1 .. state.watermark
        /\ \A i \in 1 .. state.watermark : \E m \in state.applied : m.seq = i
        /\ \A m, n \in state.applied : m.seq = n.seq => m = n
    BY <1>2, <1>4, NumberedMeans DEF StateAddsUp
  <2>2. ASSUME NEW m \in all PROVE m.seq \in 1 .. seq
    <3>0. m \in state.applied \/ m = cur
      BY <1>5
    <3>1. CASE m \in state.applied
      BY <1>4, <1>6, <2>1, <3>1
    <3>2. CASE m = cur
      <4>1. cur.seq = seq /\ seq \in 1 .. seq
        BY <1>4, <1>5, <1>6
      <4> QED BY <3>2, <4>1
    <3> QED BY <3>0, <3>1, <3>2
  <2>3. ASSUME NEW i \in 1 .. seq PROVE \E m \in all : m.seq = i
    <3>1. i \in 1 .. state.watermark \/ i = cur.seq
      BY <1>4, <1>5, <1>6
    <3>2. cur \in all /\ state.applied \subseteq all
      BY <1>5
    <3> QED BY <2>1, <3>1, <3>2
  <2>4. ASSUME NEW m \in all, NEW n \in all, m.seq = n.seq PROVE m = n
    <3>1. \A x \in state.applied : x.seq # cur.seq
      BY <1>3, <1>4, <2>1
    <3> QED BY <1>5, <2>1, <2>4, <3>1
  <2> QED BY <1>6, <2>2, <2>3, <2>4, MeansNumbered
<1>10. OpsAgree(all)
  <2>1. \A m \in state.applied : m.op # cur.op
    BY <1>2, <1>3 DEF KnownOp, StateAddsUp
  <2> QED BY <1>2, <1>5, <2>1 DEF OpsAgree, StateAddsUp
<1>11. ms = After(all, state.compacted)
  <2>1. cur.seq > state.compacted
    BY <1>3, <1>4
  <2> QED BY <1>2, <1>5, <2>1 DEF After, StateAddsUp
<1>12. cur \in Recoverable
  BY <1>3, <1>4 DEF Recoverable, After
<1>13. Recoverable' = Recoverable
  BY <1>1 DEF Recoverable
<1>14. DroppedBelow(all)
  BY <1>2, <1>3, <1>5 DEF DroppedBelow, StateAddsUp
<1>15. FilesAddUp'
  BY <1>1, <1>2, <1>13 DEF FilesAddUp, DroppedBelow
<1>16. StateAddsUp'
  <2>1. state'.compacted <= state'.watermark
    BY <1>4, <1>6, <1>8
  <2>2. /\ snap.applied \subseteq all /\ all \subseteq Recoverable
        /\ all \subseteq idem \union log /\ acked \union stream \subseteq all
    BY <1>2, <1>3, <1>5, <1>12 DEF StateAddsUp
  <2>3. DroppedBelow(state.applied)'
    BY <1>1, <1>8, <1>14 DEF DroppedBelow
  <2>4. \A x \in log : x.seq <= seq + 1
    <3> SUFFICES ASSUME NEW x \in log PROVE x.seq <= seq + 1
      OBVIOUS
    <3>1. x.seq \in Nat /\ x.seq <= state.watermark + 1
      BY <1>2, FileTypes, SeqIsNumber DEF StateAddsUp
    <3> QED BY <1>4, <1>6, <3>1
  <2> QED
    BY <1>1, <1>8, <1>9, <1>10, <1>11, <1>13, <2>1, <2>2, <2>3, <2>4 DEF StateAddsUp
<1>17. TypeOK'
  BY <1>1, <1>2, <1>8 DEF TypeOK
<1>18. CommitUnderWay'
  BY <1>1, <1>3, <1>5, <1>8 DEF CommitUnderWay
<1>19. PublisherInStep'
  BY <1>1, <1>2, <1>5, <1>8, PublisherStays
<1>20. (~publishing => AloneSimple)'
  BY <1>1, <1>2, <1>5, <1>8 DEF AloneSimple
<1> QED
  BY <1>1, <1>2, <1>15, <1>16, <1>17, <1>18, <1>19, <1>20, RunningInvNext

(***************************************************************************)
(* Starting and stopping.                                                  *)
(***************************************************************************)

\* What is loaded goes with the files, and the publisher starts from its offsets.
LEMMA LoadKeeps ==
  ASSUME StorageInv, Load
  PROVE  StorageInv'
<1>1. /\ pc = "down" /\ pc' = "loaded"
      /\ load_source_of_truth # None /\ state' = load_source_of_truth
      /\ published' = offsets /\ next' = offsets
      /\ UNCHANGED << log, doubled, torn, snap, idem, offsets, cur, cut, stream, acked, crashes >>
      /\ UNCHANGED << publishing, batch >>
  BY DEF Load, disk
<1>2. /\ TypeOK /\ publishing \in Publishing /\ FilesAddUp /\ cur = None /\ batch = {}
      /\ ~publishing => AloneAddsUp
  BY <1>1 DEF StorageInv, PublisherIdle
<1>3. PICK s : s = load_source_of_truth
  OBVIOUS
<1>4. Loaded(s)
  BY <1>1, <1>2, <1>3, LoadIsGood DEF AloneAddsUp, CleanBelow
<1>5. state' = s
  BY <1>1, <1>3
<1>6. Recoverable' = Recoverable
  BY <1>1 DEF Recoverable
<1>7. FilesAddUp'
  BY <1>1, <1>2, <1>6 DEF FilesAddUp, DroppedBelow
<1>8. StateAddsUp'
  <2>1. acked \union stream \subseteq s.applied
    BY <1>2, <1>4 DEF FilesAddUp, Loaded
  <2>2. DroppedBelow(s.applied)'
    BY <1>1, <1>4, <1>5 DEF Loaded, DroppedBelow
  <2>3. \A x \in log : x.seq <= s.watermark + 1
    <3> SUFFICES ASSUME NEW x \in log PROVE x.seq <= s.watermark + 1
      OBVIOUS
    <3>1. s.watermark \in Nat /\ s.applied \subseteq Mutation
      BY <1>4, StorageAssumption DEF Loaded, SourceOfTruth
    <3>2. x \in s.applied /\ Numbered(s.applied, s.watermark)
      BY <1>4 DEF Loaded
    <3>3. x.seq \in 1 .. s.watermark
      BY <3>1, <3>2, NumberedMeans
    <3> QED BY <3>1, <3>3
  <2> QED BY <1>1, <1>4, <1>5, <1>6, <2>1, <2>2, <2>3 DEF Loaded, StateAddsUp, DroppedBelow
<1>9. TypeOK'
  BY <1>1, <1>2, <1>4, <1>5 DEF Loaded, TypeOK
<1>10. CommitUnderWay'
  BY <1>1, <1>2 DEF CommitUnderWay
<1>11. PublisherInStep'
  <2>1. 1 .. offsets \subseteq {m.seq : m \in stream}
    BY <1>2 DEF FilesAddUp
  <2>2. offsets \in Nat
    BY <1>2, FileTypes
  <2>3. publishing => s.compacted <= offsets
    BY <1>4 DEF Loaded
  <2>4. /\ published' = offsets /\ offsets' = offsets /\ next' = offsets
        /\ batch' = {} /\ stream' = stream /\ publishing' = publishing
        /\ state'.compacted = s.compacted
    BY <1>1, <1>2, <1>5 DEF PublisherIdle
  <2>5. (\A i \in {next} \union {m.seq : m \in batch} :
           1 .. i \subseteq {m.seq : m \in stream \union batch})'
    BY <2>1, <2>4
  <2>6. (published = offsets /\ published <= next
         /\ batch \subseteq After(state.applied, published))'
    BY <2>2, <2>4
  <2>7. (publishing => state.compacted <= published)'
    BY <2>3, <2>4
  <2> QED BY <2>5, <2>6, <2>7 DEF PublisherInStep
<1>12. (~publishing => AloneSimple)'
  BY <1>1, <1>2, <1>4, <1>5 DEF AloneAddsUp, AloneSimple, Loaded
<1> QED
  BY <1>1, <1>2, <1>7, <1>8, <1>9, <1>10, <1>11, <1>12, RunningInvNext

\* A crash leaves the files as they are.
LEMMA CrashKeeps ==
  ASSUME StorageInv, Crash
  PROVE  StorageInv'
<1>1. /\ pc # "down" /\ pc' = "down" /\ cur' = None /\ state' = Empty /\ cut' = 0
      /\ published' = 0 /\ batch' = {} /\ next' = 0
      /\ crashes < MaxCrashes /\ crashes' = crashes + 1
      /\ UNCHANGED << log, doubled, torn, snap, idem, offsets, publishing, stream, acked >>
  BY DEF Crash, disk
<1>2. TypeOK /\ publishing \in Publishing /\ FilesAddUp /\ (~publishing => AloneAddsUp)
  BY <1>1 DEF StorageInv
<1>3. TypeOK'
  <2>1. Empty \in SourceOfTruth /\ 0 \in 0 .. MaxSeq
    BY StorageAssumption DEF Empty, SourceOfTruth
  <2>2. crashes' \in 0 .. MaxCrashes
    BY <1>1, <1>2, StorageAssumption DEF TypeOK
  <2> QED BY <1>1, <1>2, <2>1, <2>2 DEF TypeOK
<1>4. FilesAddUp'
  BY <1>1, <1>2 DEF FilesAddUp, DroppedBelow, Recoverable
<1>5. (~publishing => AloneAddsUp)'
  <2>1. load_source_of_truth' = load_source_of_truth
    BY <1>1 DEF load_source_of_truth, from_mutations, from_snapshot_and_mutations,
                from_snapshot_and_retained_history, TailOfSnapshot, Contiguous
  <2> QED BY <1>1, <1>2, <2>1 DEF AloneAddsUp, StartsAgain
<1>6. PublisherIdle'
  BY <1>1 DEF PublisherIdle
<1> QED BY <1>1, <1>2, <1>3, <1>4, <1>5, <1>6 DEF StorageInv

(***************************************************************************)
(* The publisher.                                                          *)
(***************************************************************************)

\* A step of the publisher sends what the state has, and nothing else.
LEMMA PublisherMoves ==
  ASSUME StorageInv, pc # "down", publishing, PublisherInStep', TypeOK',
         UNCHANGED << log, torn, doubled, snap, idem, pc, cur, state, cut, publishing, acked >>,
         stream \subseteq stream', stream' \subseteq state.applied,
         1 .. offsets' \subseteq {m.seq : m \in stream'},
         published <= published'
  PROVE  StorageInv'
<1>1. TypeOK /\ publishing \in Publishing /\ FilesAddUp /\ StateAddsUp /\ CommitUnderWay
  BY WhenRunning
<1>2. Recoverable' = Recoverable
  BY DEF Recoverable
<1>3. \A m, n \in stream' : m.seq = n.seq => m = n
  BY <1>1, StateTypes, NumberedMeans DEF StateAddsUp
<1>4. FilesAddUp'
  BY <1>1, <1>2, <1>3 DEF FilesAddUp, StateAddsUp, DroppedBelow
<1>5. StateAddsUp'
  BY <1>1, <1>2 DEF StateAddsUp, DroppedBelow
<1>6. CommitUnderWay'
  <2>1. published \in Nat /\ published' \in Nat /\ cut \in Nat
    BY <1>1, StateTypes, StorageAssumption DEF TypeOK
  <2> QED BY <1>1, <2>1 DEF CommitUnderWay, KnownOp, SnapshotOf
<1> QED BY <1>1, <1>4, <1>5, <1>6, RunningInvNext

\* Where something is being published, there is a publisher and the node is up.
LEMMA PublishesOnly ==
  ASSUME StorageInv, ~PublisherIdle
  PROVE  publishing /\ pc # "down"
<1>1. pc # "down"
  BY DEF StorageInv
<1>2. ASSUME ~publishing PROVE PublisherIdle
  BY <1>1, <1>2 DEF StorageInv, AloneAddsUp, PublisherInStep, PublisherIdle
<1>3. publishing \in BOOLEAN
  BY DEF StorageInv, TypeOK
<1> QED BY <1>1, <1>2, <1>3

\* read_unpublished_mutations: the history after the offsets, none of it compacted.
LEMMA PublishReadKeeps ==
  ASSUME StorageInv, PublishRead
  PROVE  StorageInv'
<1>1. /\ publishing /\ pc = "idle" /\ batch = {} /\ next = published
      /\ batch' = After(state.mutations, published)
      /\ UNCHANGED << log, doubled, torn, snap, idem, offsets, publishing, pc, cur, state, cut,
                      published, next, stream, acked, crashes >>
  BY DEF PublishRead, PublisherIdle, disk
<1>2. TypeOK /\ FilesAddUp /\ StateAddsUp /\ PublisherInStep
  BY <1>1, WhenRunning
<1>3. /\ published \in Nat /\ state.compacted \in Nat /\ state.compacted <= published
      /\ state.watermark \in Nat /\ state.applied \subseteq Mutation
  BY <1>1, <1>2, StateTypes DEF PublisherInStep
<1>4. /\ \A m \in batch' : m \in state.applied /\ m.seq > published
      /\ \A m \in state.applied : m.seq > published => m \in batch'
  <2>1. state.mutations = After(state.applied, state.compacted)
    BY <1>2 DEF StateAddsUp
  <2>2. \A m \in state.applied : m.seq > published => m.seq > state.compacted
    BY <1>3, SeqIsNumber
  <2> QED BY <1>1, <2>1, <2>2 DEF After
<1>5. PICK b : b = batch'
  OBVIOUS
<1>6. /\ \A m \in state.applied : m.seq \in 1 .. state.watermark
      /\ \A i \in 1 .. state.watermark : \E m \in state.applied : m.seq = i
  BY <1>2, <1>3, NumberedMeans DEF StateAddsUp
<1>7. 1 .. published \subseteq {m.seq : m \in stream}
  BY <1>2 DEF PublisherInStep, FilesAddUp
<1>8. ASSUME NEW i \in {next} \union {m.seq : m \in b}
      PROVE  1 .. i \subseteq {m.seq : m \in stream \union b}
  <2> SUFFICES ASSUME NEW j \in 1 .. i PROVE \E m \in stream \union b : m.seq = j
    OBVIOUS
  <2>1. i \in Nat /\ (i <= published \/ i <= state.watermark)
    <3>1. CASE i = next
      BY <1>1, <1>3, <3>1
    <3>2. CASE i \in {m.seq : m \in b}
      BY <1>3, <1>4, <1>5, <1>6, <3>2
    <3> QED BY <3>1, <3>2
  <2>2. CASE j <= published
    <3>1. j \in 1 .. published
      BY <1>3, <2>1, <2>2
    <3> QED BY <1>7, <3>1
  <2>3. CASE j > published
    <3>1. j \in 1 .. state.watermark
      BY <1>3, <2>1, <2>3
    <3>2. PICK m \in state.applied : m.seq = j
      BY <1>6, <3>1
    <3> QED BY <1>4, <1>5, <2>3, <3>2
  <2> QED BY <1>3, <2>1, <2>2, <2>3
<1>9. PublisherInStep'
  <2>1. b \subseteq After(state.applied, published)
    BY <1>4, <1>5 DEF After
  <2> QED BY <1>1, <1>2, <1>5, <1>8, <2>1 DEF PublisherInStep
<1>10. TypeOK'
  <2>1. batch' \subseteq Mutation
    BY <1>3, <1>4
  <2> QED BY <1>1, <1>2, <2>1 DEF TypeOK
<1>11. stream' \subseteq state.applied /\ published <= published'
       /\ 1 .. offsets' \subseteq {m.seq : m \in stream'}
  BY <1>1, <1>2, <1>3 DEF StateAddsUp, FilesAddUp
<1> QED BY <1>1, <1>9, <1>10, <1>11, PublisherMoves

\* One message sent: next_published is the largest number sent, and what is below it
\* is sent or still in the batch.
LEMMA PublishOneKeeps ==
  ASSUME StorageInv, PublishOne
  PROVE  StorageInv'
<1>1. PICK m \in batch :
        /\ stream' = stream \union {m} /\ batch' = batch \ {m} /\ next' = Greatest(next, m.seq)
        /\ UNCHANGED << log, doubled, torn, snap, idem, offsets, publishing, pc, cur, state, cut,
                        published, acked, crashes >>
  BY DEF PublishOne, disk
<1>2. publishing /\ pc # "down"
  BY <1>1, PublishesOnly DEF PublisherIdle
<1>3. TypeOK /\ FilesAddUp /\ StateAddsUp /\ PublisherInStep
  BY <1>2, WhenRunning
<1>4. /\ m \in state.applied /\ m \in Mutation /\ m.seq \in Nat /\ m.seq \in 0 .. MaxSeq
      /\ next \in Nat /\ next \in 0 .. MaxSeq
  BY <1>3, StateTypes, SeqIsNumber, StorageAssumption DEF PublisherInStep, After, TypeOK
<1>5. PICK n \in Nat : n = Greatest(next, m.seq)
  BY <1>4 DEF Greatest
<1>6. n \in {next, m.seq} /\ next <= n /\ n \in 0 .. MaxSeq
  BY <1>4, <1>5 DEF Greatest
<1>7. stream' \union batch' = stream \union batch
  BY <1>1
<1>8. \A i \in {n} \union {x.seq : x \in batch'} :
        1 .. i \subseteq {x.seq : x \in stream \union batch}
  <2>1. \A i \in {next} \union {x.seq : x \in batch} :
          1 .. i \subseteq {x.seq : x \in stream \union batch}
    BY <1>3 DEF PublisherInStep
  <2>2. m.seq \in {x.seq : x \in batch} /\ \A x \in batch' : x.seq \in {y.seq : y \in batch}
    BY <1>1
  <2> QED BY <1>6, <2>1, <2>2
<1>9. PublisherInStep'
  <2>1. published \in Nat /\ published <= n
    BY <1>3, <1>4, <1>6, StateTypes DEF PublisherInStep
  <2>2. batch' \subseteq After(state.applied, published)
    BY <1>1, <1>3 DEF PublisherInStep
  <2>3. (\A i \in {next} \union {x.seq : x \in batch} :
           1 .. i \subseteq {x.seq : x \in stream \union batch})'
    BY <1>1, <1>5, <1>7, <1>8
  <2> QED BY <1>1, <1>3, <1>5, <2>1, <2>2, <2>3 DEF PublisherInStep
<1>10. TypeOK'
  BY <1>1, <1>3, <1>4, <1>5, <1>6 DEF TypeOK
<1>11. /\ stream \subseteq stream' /\ stream' \subseteq state.applied
       /\ published <= published'
       /\ 1 .. offsets' \subseteq {x.seq : x \in stream'}
  <2>1. published \in Nat
    BY <1>3, StateTypes
  <2> QED BY <1>1, <1>3, <1>4, <2>1 DEF StateAddsUp, FilesAddUp
<1> QED BY <1>1, <1>2, <1>9, <1>10, <1>11, PublisherMoves

\* The offsets are recorded when the batch has been sent.
LEMMA PublishPersistKeeps ==
  ASSUME StorageInv, PublishPersist
  PROVE  StorageInv'
<1>1. /\ batch = {} /\ next # published /\ offsets' = next /\ published' = next
      /\ UNCHANGED << log, doubled, torn, snap, idem, publishing, pc, cur, state, cut,
                      batch, next, stream, acked, crashes >>
  BY DEF PublishPersist
<1>2. publishing /\ pc # "down"
  BY <1>1, PublishesOnly DEF PublisherIdle
<1>3. TypeOK /\ FilesAddUp /\ StateAddsUp /\ PublisherInStep
  BY <1>2, WhenRunning
<1>4. published <= next /\ published \in Nat /\ next \in Nat /\ state.compacted \in Nat
      /\ state.compacted <= published
  BY <1>2, <1>3, StateTypes DEF PublisherInStep
<1>5. 1 .. next \subseteq {x.seq : x \in stream}
  <2>1. 1 .. next \subseteq {x.seq : x \in stream \union batch}
    BY <1>3 DEF PublisherInStep
  <2>2. stream \union batch = stream
    BY <1>1
  <2> QED BY <2>1, <2>2
<1>6. PublisherInStep'
  <2>1. state.compacted <= next
    BY <1>4
  <2>2. (\A i \in {next} \union {x.seq : x \in batch} :
           1 .. i \subseteq {x.seq : x \in stream \union batch})'
    BY <1>1, <1>5
  <2> QED BY <1>1, <1>4, <2>1, <2>2 DEF PublisherInStep
<1>7. TypeOK'
  BY <1>1, <1>3 DEF TypeOK
<1>8. /\ stream \subseteq stream' /\ stream' \subseteq state.applied
      /\ published <= published'
      /\ 1 .. offsets' \subseteq {x.seq : x \in stream'}
  BY <1>1, <1>3, <1>4, <1>5 DEF StateAddsUp
<1> QED BY <1>1, <1>2, <1>6, <1>7, <1>8, PublisherMoves

\* A failed send may have arrived; the batch is read again from the offsets.
LEMMA PublishFailsKeeps ==
  ASSUME StorageInv, PublishFails
  PROVE  StorageInv'
<1>1. /\ ~PublisherIdle /\ batch' = {} /\ next' = published
      /\ UNCHANGED << log, doubled, torn, snap, idem, offsets, publishing, pc, cur, state, cut,
                      published, acked, crashes >>
  BY DEF PublishFails, disk
<1>2. PICK arrived \in SUBSET batch : stream' = stream \union arrived
  BY DEF PublishFails
<1>3. publishing /\ pc # "down"
  BY <1>1, PublishesOnly
<1>4. TypeOK /\ FilesAddUp /\ StateAddsUp /\ PublisherInStep
  BY <1>3, WhenRunning
<1>5. published = offsets /\ published \in Nat /\ published \in 0 .. MaxSeq
  BY <1>4, StateTypes DEF PublisherInStep, TypeOK
<1>6. 1 .. published \subseteq {x.seq : x \in stream'}
  BY <1>2, <1>4, <1>5 DEF FilesAddUp
<1>7. batch \subseteq state.applied /\ state.applied \subseteq Mutation
  BY <1>4, StateTypes DEF PublisherInStep, After
<1>8. PublisherInStep'
  <2>1. (\A i \in {next} \union {x.seq : x \in batch} :
           1 .. i \subseteq {x.seq : x \in stream \union batch})'
    BY <1>1, <1>6
  <2> QED BY <1>1, <1>4, <1>5, <2>1 DEF PublisherInStep
<1>9. TypeOK'
  <2>1. stream' \subseteq Mutation
    BY <1>2, <1>4, <1>7, StateTypes
  <2> QED BY <1>1, <1>4, <1>5, <2>1 DEF TypeOK
<1>10. /\ stream \subseteq stream' /\ stream' \subseteq state.applied
       /\ published <= published'
       /\ 1 .. offsets' \subseteq {x.seq : x \in stream'}
  BY <1>1, <1>2, <1>4, <1>5, <1>6, <1>7 DEF StateAddsUp
<1> QED BY <1>1, <1>3, <1>8, <1>9, <1>10, PublisherMoves

(***************************************************************************)
(* The theorems.                                                           *)
(***************************************************************************)

\* A node without a publisher is only looked at where its bundles can be written:
\* otherwise its log keeps the mutation of a request that failed, whose operation a
\* restart would take for applied.
BundlesAlone == FALSE \in Publishing => "bundle" \notin Faults

\* The invariant holds when there are no files.
LEMMA InitStorageInv == Init => StorageInv
<1> SUFFICES ASSUME Init PROVE StorageInv
  OBVIOUS
<1>1. TypeOK
  <2>1. 0 \in 0 .. MaxSeq /\ 0 \in 0 .. MaxCrashes
    BY StorageAssumption
  <2>2. snap \in Snapshot
    BY <2>1 DEF Init, Snapshot
  <2>3. state \in SourceOfTruth
    BY <2>1 DEF Init, SourceOfTruth, Empty
  <2>4. publishing \in BOOLEAN
    BY StorageAssumption DEF Init
  <2> QED BY <2>1, <2>2, <2>3, <2>4 DEF Init, TypeOK
<1>2. FilesAddUp
  <2>1. snap.applied = {} /\ snap.watermark = 0
    BY DEF Init
  <2>2. Numbered({}, 0)
    BY DEF Numbered
  <2> QED BY <2>1, <2>2 DEF Init, FilesAddUp, DroppedBelow
<1>3. ~publishing => AloneAddsUp
  <2>1. CleanBelow /\ doubled = {} /\ log = {}
    BY DEF Init, CleanBelow
  <2>2. TailOfSnapshot(snap) = {} /\ idem = {}
    BY <2>1 DEF Init, TailOfSnapshot, After
  <2>3. Contiguous(TailOfSnapshot(snap), snap.watermark)
    <3>1. {m.seq : m \in {}} = (0 + 1) .. 0 /\ 0 \in 0 .. MaxSeq
      BY StorageAssumption
    <3>2. snap.watermark = 0
      BY DEF Init
    <3> QED BY <2>2, <3>1, <3>2 DEF Contiguous
  <2>4. OpsAgree((idem \union log) \union TailOfSnapshot(snap))
    BY <2>1, <2>2 DEF OpsAgree
  <2>5. ASSUME ~publishing PROVE StartsAgain
    <3>1. Loaded(from_snapshot_and_mutations(snap, idem \union log, TailOfSnapshot(snap)))
      BY <1>1, <1>2, <2>1, <2>3, <2>4, <2>5, SnapshotLoads
    <3>2. load_source_of_truth
            = from_snapshot_and_mutations(snap, idem \union log, TailOfSnapshot(snap))
      BY <2>5 DEF Init, load_source_of_truth
    <3> QED BY <3>1, <3>2, NoneAssumption DEF StartsAgain, Loaded
  <2>6. /\ stream = {} /\ offsets = 0 /\ doubled = {} /\ log = {}
        /\ pc = "down" /\ cur = None /\ PublisherIdle /\ publishing \in Publishing
    BY DEF Init, PublisherIdle
  <2>7. \A m \in log : m.seq <= snap.watermark => m \in snap.applied
    BY <2>6
  <2> QED BY <2>5, <2>6, <2>7 DEF AloneAddsUp
<1>4. pc = "down" /\ cur = None /\ PublisherIdle /\ publishing \in Publishing
  BY DEF Init, PublisherIdle
<1> QED BY <1>1, <1>2, <1>3, <1>4 DEF StorageInv

\* A write that fails after the commit was applied, or a compaction that is broken off.
LEMMA RefusedKeeps ==
  ASSUME BundlesAlone, StorageInv, BundleFails \/ SnapshotFails \/ CompactionFails
  PROVE  StorageInv'
<1>1. CASE BundleFails
  <2>1. publishing \/ "bundle" \in Faults
    BY <1>1 DEF BundleFails, MayFail
  <2>2. publishing
    BY <2>1 DEF BundlesAlone, StorageInv, TypeOK
  <2>3. pc # "down" /\ GiveUp /\ snap' = snap
        /\ UNCHANGED << log, doubled, torn, idem, offsets, state >>
    BY <1>1 DEF BundleFails, disk
  <2> QED BY <2>2, <2>3, GivesUpKeeps
<1>2. CASE SnapshotFails
  <2>1. pc = "applied" /\ GiveUp /\ snap' \in {snap, SnapshotOf(state)}
        /\ UNCHANGED << log, doubled, torn, idem, offsets, state >>
    BY <1>2 DEF SnapshotFails
  <2> QED BY <2>1, GivesUpKeeps
<1>3. CASE CompactionFails
  <2>1. pc \in {"compact", "idem", "logs"} /\ GiveUp /\ snap' = snap
        /\ UNCHANGED << log, doubled, torn, idem, offsets, state >>
    BY <1>3 DEF CompactionFails, disk
  <2> QED BY <2>1, GivesUpKeeps
<1> QED BY <1>1, <1>2, <1>3

\* A step that changes nothing.
LEMMA StutterKeeps ==
  ASSUME StorageInv, UNCHANGED vars
  PROVE  StorageInv'
<1>1. UNCHANGED << log, doubled, torn, snap, idem, offsets, pc, cur, state, cut, stream, acked,
                   crashes >> /\ UNCHANGED << publishing, published, batch, next >>
  BY DEF vars, disk, publisher
<1>2. (pc = "down") \/ (pc # "down")
  OBVIOUS
<1>3. FilesAddUp' /\ TypeOK' /\ (publishing \in Publishing)'
  BY <1>1 DEF StorageInv, FilesAddUp, DroppedBelow, Recoverable, TypeOK
<1>4. (pc # "down" => StateAddsUp /\ CommitUnderWay /\ PublisherInStep)'
  BY <1>1 DEF StorageInv, StateAddsUp, DroppedBelow, Recoverable, CommitUnderWay, KnownOp,
              PublisherInStep
<1>5. StartsAgain' <=> StartsAgain
  BY <1>1 DEF StartsAgain, load_source_of_truth, from_mutations, TailOfSnapshot,
              from_snapshot_and_mutations, from_snapshot_and_retained_history, Contiguous
<1>6. (~publishing => AloneAddsUp)'
  BY <1>1, <1>5 DEF StorageInv, AloneAddsUp
<1>7. (pc = "down" => cur = None /\ PublisherIdle)'
  BY <1>1 DEF StorageInv, PublisherIdle
<1> QED BY <1>3, <1>4, <1>6, <1>7 DEF StorageInv

\* Every step keeps what the files and the memory hold in line.
LEMMA NextStorageInv ==
  ASSUME BundlesAlone, StorageInv, [Next]_vars
  PROVE  StorageInv'
<1>1. CASE Load
  BY <1>1, LoadKeeps
<1>2. CASE WriteStartupSnapshot
  BY <1>2, WriteStartupSnapshotKeeps
<1>3. CASE \E op \in Op : CommitDuplicate(op) \/ CommitTears(op)
  BY <1>3, CommitDuplicateKeeps, CommitTearsKeeps
<1>4. CASE \E op \in Op, at \in 0 .. MaxAt : Commit(op, at)
  BY <1>4, CommitKeeps
<1>5. CASE ApplyLogged
  BY <1>5, ApplyLoggedKeeps
<1>6. CASE PersistSnapshot
  BY <1>6, PersistSnapshotKeeps
<1>7. CASE BundleFails \/ SnapshotFails \/ CompactionFails
  BY <1>7, RefusedKeeps
<1>8. CASE CompactSnapshot
  BY <1>8, CompactSnapshotKeeps
<1>9. CASE CompactIdempotency
  BY <1>9, CompactIdempotencyKeeps
<1>10. CASE CompactLogs
  BY <1>10, CompactLogsKeeps
<1>11. CASE PublishRead
  BY <1>11, PublishReadKeeps
<1>12. CASE PublishOne
  BY <1>12, PublishOneKeeps
<1>13. CASE PublishPersist
  BY <1>13, PublishPersistKeeps
<1>14. CASE PublishFails
  BY <1>14, PublishFailsKeeps
<1>15. CASE Crash
  BY <1>15, CrashKeeps
<1>16. CASE UNCHANGED vars
  BY <1>16, StutterKeeps
<1> QED BY <1>1, <1>2, <1>3, <1>4, <1>5, <1>6, <1>7, <1>8, <1>9, <1>10, <1>11, <1>12, <1>13,
           <1>14, <1>15, <1>16 DEF Next

\* Whatever writes fail and wherever the process stops, files, memory and stream add
\* up: the log and the snapshot give back all that was acknowledged or published, and
\* a restart starts from that (commit.rs:84, storage.rs:43, propagation.rs:13).
THEOREM StorageInvariant ==
  ASSUME BundlesAlone
  PROVE  Spec => []StorageInv
<1>1. Init => StorageInv
  BY InitStorageInv
<1>2. StorageInv /\ [Next]_vars => StorageInv'
  BY NextStorageInv
<1> QED BY <1>1, <1>2, PTL DEF Spec

\* What the invariant says of a load: nothing acknowledged or published is lost by it.
LEMMA LoadKeepsAll ==
  ASSUME StorageInv, load_source_of_truth # None
  PROVE  acked \union stream \subseteq load_source_of_truth.applied
<1>1. TypeOK /\ FilesAddUp /\ (~publishing => CleanBelow)
  BY DEF StorageInv, AloneAddsUp, CleanBelow
<1>2. Loaded(load_source_of_truth)
  BY <1>1, LoadIsGood
<1> QED BY <1>1, <1>2 DEF Loaded, FilesAddUp

\* The files, the process and the stream hold what they are made for.
THEOREM StorageTypeOK ==
  ASSUME BundlesAlone
  PROVE  Spec => []TypeOK
<1>1. StorageInv => TypeOK
  BY DEF StorageInv
<1> QED BY <1>1, StorageInvariant, PTL

\* A mutation that a client was told is committed (commit.rs:225) is in memory, and in
\* the state that any restart from here gives.
THEOREM AcknowledgedSurvives ==
  ASSUME BundlesAlone
  PROVE  Spec => []AckedKept
<1>1. StorageInv => AckedKept
  BY LoadKeepsAll DEF StorageInv, StateAddsUp, AckedKept
<1> QED BY <1>1, StorageInvariant, PTL

\* A running node answers "duplicate" for exactly what it has applied, each operation
\* once (source.rs:138, source.rs:205).
THEOREM DuplicatesAreExact ==
  ASSUME BundlesAlone
  PROVE  Spec => []OpIndexExact
<1>1. StorageInv => OpIndexExact
  BY DEF StorageInv, StateAddsUp, OpIndexExact
<1> QED BY <1>1, StorageInvariant, PTL

\* What JetStream has handed to relays is never taken back (propagation.rs:13).
THEOREM PublishedSurvives ==
  ASSUME BundlesAlone
  PROVE  Spec => []StreamKept
<1>1. StorageInv => StreamKept
  BY LoadKeepsAll DEF StorageInv, FilesAddUp, StreamKept
<1> QED BY <1>1, StorageInvariant, PTL

\* Compaction never outruns the publisher (storage.rs:43).
THEOREM CompactionWaitsForPublisher ==
  ASSUME BundlesAlone
  PROVE  Spec => []UnpublishedRetained
<1>1. ASSUME StorageInv, publishing, pc # "down", NEW m \in state.applied, m \notin stream
      PROVE  m \in state.mutations /\ m.seq > published
  <2>1. TypeOK /\ FilesAddUp /\ StateAddsUp /\ PublisherInStep /\ state.compacted <= published
    BY <1>1, WhenRunning
  <2>2. m \in Mutation /\ m.seq \in Nat /\ m.seq \in 1 .. state.watermark
    BY <1>1, <2>1, StateTypes, SeqIsNumber, NumberedMeans DEF StateAddsUp
  <2>3. \A n \in stream : n.seq = m.seq => n = m
    <3>1. stream \subseteq state.applied
      BY <2>1 DEF StateAddsUp
    <3> QED BY <1>1, <2>1, <3>1, StateTypes, NumberedMeans DEF StateAddsUp
  <2>4. m.seq \notin {n.seq : n \in stream}
    BY <1>1, <2>3
  <2>5. m.seq > published
    BY <2>1, <2>2, <2>4, StateTypes DEF FilesAddUp, PublisherInStep
  <2> QED BY <1>1, <2>1, <2>2, <2>5, StateTypes DEF StateAddsUp, After
<1>2. StorageInv => UnpublishedRetained
  BY <1>1 DEF UnpublishedRetained
<1> QED BY <1>2, StorageInvariant, PTL

\* An append that can tear is only looked at with a publisher: a record that was cut
\* short makes the log of a node without one unreadable for good.
TearsNotAlone == FALSE \in Publishing => "torn" \notin Faults

\* A node whose appends are whole never has half a record.
WholeAlone == ~publishing => ~torn

\* Only a failing append tears a record.
LEMMA NextWholeAlone ==
  ASSUME TearsNotAlone, TypeOK, publishing \in Publishing, WholeAlone, [Next]_vars
  PROVE  WholeAlone'
<1>1. UNCHANGED << publishing, torn >> \/ \E op \in Op : CommitTears(op)
  BY DEF Next, Load, WriteStartupSnapshot, CommitDuplicate, Commit, BundleFails, ApplyLogged,
         PersistSnapshot, SnapshotFails, CompactSnapshot, CompactIdempotency, CompactLogs,
         CompactionFails, PublishRead, PublishOne, PublishPersist, PublishFails, Crash,
         GiveUp, vars, disk, publisher
<1>2. CASE UNCHANGED << publishing, torn >>
  BY <1>2 DEF WholeAlone
<1>3. CASE \E op \in Op : CommitTears(op)
  <2>1. publishing' = publishing /\ (publishing \/ "torn" \in Faults)
    BY <1>3 DEF CommitTears, MayFail, publisher
  <2>2. publishing
    BY <2>1 DEF TearsNotAlone, TypeOK
  <2> QED BY <2>1, <2>2 DEF WholeAlone
<1> QED BY <1>1, <1>2, <1>3

\* A node without a publisher starts again wherever it stops, also between the writes
\* of a commit and between those of a compaction (commit.rs:84, commit.rs:141).
THEOREM AloneStartsAgain ==
  ASSUME BundlesAlone, TearsNotAlone
  PROVE  Spec => []StartsAgainAlone
<1>1. Init => WholeAlone
  BY DEF Init, WholeAlone
<1>2. StorageInv /\ WholeAlone /\ [Next]_vars => WholeAlone'
  BY NextWholeAlone DEF StorageInv
<1>3. StorageInv /\ WholeAlone => StartsAgainAlone
  BY DEF StorageInv, WholeAlone, AloneAddsUp, StartsAgainAlone
<1> QED BY <1>1, <1>2, <1>3, StorageInvariant, PTL DEF Spec

(***************************************************************************)
(* The files implement a journal.                                          *)
(***************************************************************************)

\* The journal of a running node is what it has applied.
LEMMA HeldRunning ==
  pc # "down" => Held.readable = TRUE /\ Held.journal = state.applied
  BY DEF Held

\* That of a node that is down is what it will load, if it can.
LEMMA HeldDown ==
  /\ pc = "down" /\ load_source_of_truth # None =>
        Held.readable = TRUE /\ Held.journal = load_source_of_truth.applied
  /\ pc = "down" /\ load_source_of_truth = None =>
        Held.readable = FALSE /\ Held.journal = {}
<1> DEFINE loaded == load_source_of_truth
<1> HIDE DEF loaded
<1>1. ASSUME pc = "down", loaded # None
      PROVE  Held = [readable |-> TRUE, journal |-> loaded.applied]
  BY <1>1 DEF Held, loaded
<1>2. ASSUME pc = "down", loaded = None
      PROVE  Held = [readable |-> FALSE, journal |-> {}]
  BY <1>2 DEF Held, loaded
<1> QED BY <1>1, <1>2 DEF loaded

\* A step of a running node that applies nothing only tells.
LEMMA RunningTells ==
  ASSUME StorageInv', pc # "down", pc' # "down", state'.applied = state.applied,
         acked \subseteq acked', stream \subseteq stream'
  PROVE  J!Tell
<1>1. Held.readable = TRUE /\ Held.journal = state.applied
  BY HeldRunning
<1>2. Held'.readable = TRUE /\ Held'.journal = state'.applied
  BY DEF Held
<1>3. (acked \union stream)' \subseteq state'.applied
  BY DEF StorageInv, StateAddsUp
<1> QED BY <1>1, <1>2, <1>3 DEF J!Tell

\* The steps of which this holds: all but a load, an application and a crash.
LEMMA MostStepsTell ==
  ASSUME StorageInv, StorageInv', Next, ~Load, ~ApplyLogged, ~Crash
  PROVE  J!Tell
<1>1. CASE \/ WriteStartupSnapshot \/ PersistSnapshot \/ SnapshotFails \/ BundleFails
           \/ CompactSnapshot \/ CompactIdempotency \/ CompactionFails
  <2>1. state' = state /\ stream' = stream /\ pc # "down" /\ pc' # "down"
    BY <1>1 DEF WriteStartupSnapshot, PersistSnapshot, SnapshotFails, BundleFails, GiveUp,
                Answer, CompactSnapshot, CompactIdempotency, CompactionFails, publisher, disk
  <2>2. acked \subseteq acked'
    BY <1>1 DEF WriteStartupSnapshot, PersistSnapshot, SnapshotFails, BundleFails, GiveUp,
                Answer, CompactSnapshot, CompactIdempotency, CompactionFails, publisher, disk
  <2> QED BY <2>1, <2>2, RunningTells
<1>2. CASE CompactLogs
  <2>1. /\ state' = [state EXCEPT !.mutations = After(@, cut), !.compacted = Greatest(@, cut)]
        /\ pc = "logs" /\ pc' = "idle" /\ stream' = stream /\ acked \subseteq acked'
    BY <1>2 DEF CompactLogs, Answer
  <2>2. state \in SourceOfTruth
    BY DEF StorageInv, TypeOK
  <2>3. state'.applied = state.applied
    BY <2>1, <2>2 DEF SourceOfTruth
  <2> QED BY <2>1, <2>3, RunningTells
<1>3. CASE \E op \in Op : CommitDuplicate(op) \/ CommitTears(op)
  <2>1. state' = state /\ stream' = stream /\ acked \subseteq acked' /\ pc = "idle" /\ pc' = pc
    BY <1>3 DEF CommitDuplicate, CommitTears, CanPrepare
  <2> QED BY <2>1, RunningTells
<1>4. CASE \E op \in Op, at \in 0 .. MaxAt : Commit(op, at)
  <2>1. state' = state /\ stream' = stream /\ acked' = acked /\ pc = "idle" /\ pc' = "logged"
    BY <1>4 DEF Commit, CanPrepare
  <2> QED BY <2>1, RunningTells
<1>5. CASE PublishRead \/ PublishOne \/ PublishPersist \/ PublishFails
  <2>1. state' = state /\ stream \subseteq stream' /\ acked' = acked /\ pc' = pc
    BY <1>5 DEF PublishRead, PublishOne, PublishPersist, PublishFails
  <2>2. pc # "down"
    <3>1. CASE PublishRead
      BY <3>1 DEF PublishRead
    <3>2. CASE PublishOne \/ PublishPersist \/ PublishFails
      <4>1. ~PublisherIdle
        BY <3>2 DEF PublishOne, PublishPersist, PublishFails, PublisherIdle
      <4> QED BY <4>1, PublishesOnly
    <3> QED BY <1>5, <3>1, <3>2
  <2> QED BY <2>1, <2>2, RunningTells
<1> QED BY <1>1, <1>2, <1>3, <1>4, <1>5 DEF Next

\* apply_replicated_mutation appends to the journal.
LEMMA ApplyAppends ==
  ASSUME StorageInv, ApplyLogged
  PROVE  \E m \in Held'.journal : J!Append(m)
<1>1. /\ pc = "logged" /\ pc' = "applied" /\ state' = Applied(state, cur)
      /\ stream' = stream /\ acked' = acked
  BY DEF ApplyLogged
<1>2. /\ cur \in Mutation /\ cur.seq = state.watermark + 1 /\ KnownOp(cur.op) = {}
      /\ state \in SourceOfTruth /\ state.watermark \in Nat
      /\ Numbered(state.applied, state.watermark) /\ state.op_index = state.applied
  BY <1>1, StorageAssumption
     DEF StorageInv, TypeOK, CommitUnderWay, StateAddsUp, SourceOfTruth
<1>3. Held.readable = TRUE /\ Held.journal = state.applied
  BY <1>1, HeldRunning
<1>4. Held'.readable = TRUE /\ Held'.journal = state'.applied
  BY <1>1 DEF Held
<1>5. state'.applied = state.applied \union {cur}
  BY <1>1, <1>2 DEF Applied, SourceOfTruth
<1>6. cur.seq \in Nat \ {0} /\ cur.seq - 1 = state.watermark
  BY <1>2
<1>7. {n.seq : n \in state.applied} = 1 .. (cur.seq - 1)
  BY <1>2, <1>6 DEF Numbered
<1>8. \A n \in state.applied : n.op # cur.op
  BY <1>2 DEF KnownOp
<1>9. J!Append(cur)
  BY <1>1, <1>3, <1>4, <1>5, <1>6, <1>7, <1>8 DEF J!Append
<1> QED BY <1>4, <1>5, <1>9

\* A load gives the journal that there was.
LEMMA LoadStutters ==
  ASSUME Load
  PROVE  UNCHANGED J!vars
<1>1. /\ pc = "down" /\ pc' = "loaded" /\ load_source_of_truth # None
      /\ state' = load_source_of_truth /\ stream' = stream /\ acked' = acked
  BY DEF Load
<1>2. Held.readable = TRUE /\ Held.journal = load_source_of_truth.applied
  BY <1>1, HeldDown
<1>3. Held'.readable = TRUE /\ Held'.journal = state'.applied
  BY <1>1 DEF Held
<1> QED BY <1>1, <1>2, <1>3 DEF J!vars

\* What the files amount to depends on nothing else.
LEMMA SameFilesSameLoad ==
  ASSUME UNCHANGED << log, doubled, torn, snap, idem, offsets, publishing >>
  PROVE  load_source_of_truth' = load_source_of_truth
  BY DEF load_source_of_truth, from_mutations, from_snapshot_and_mutations,
         from_snapshot_and_retained_history, TailOfSnapshot, Contiguous

\* A load has all that the state has, and at most one mutation more, which is the next:
\* nothing in the log is further ahead of the state.
LEMMA LoadGoesOneFurther ==
  ASSUME StorageInv, pc # "down", NEW s, Loaded(s), NEW m \in s.applied, m \notin state.applied
  PROVE  /\ s.applied = state.applied \union {m}
         /\ m.seq = state.watermark + 1
         /\ \A n \in state.applied : n.op # m.op
<1>1. /\ TypeOK /\ StateAddsUp /\ state.watermark \in Nat
      /\ Numbered(state.applied, state.watermark)
      /\ \A x \in log : x.seq \in Nat /\ x.seq <= state.watermark + 1
  BY WhenRunning, StateTypes, FileTypes, SeqIsNumber DEF StateAddsUp
<1>2. /\ s.watermark \in Nat /\ Numbered(s.applied, s.watermark) /\ OpsAgree(s.applied)
      /\ s.applied = Recoverable
  BY StorageAssumption DEF Loaded, SourceOfTruth
<1>3. state.applied \subseteq s.applied
  BY <1>1, <1>2 DEF StateAddsUp
<1>4. ASSUME NEW x \in s.applied, x \notin state.applied
      PROVE  x.seq = state.watermark + 1
  <2>1. x \in log
    BY <1>1, <1>2, <1>4 DEF Recoverable, After, StateAddsUp
  <2>2. x.seq \in 1 .. s.watermark
    BY <1>2, NumberedMeans
  <2>3. x.seq \notin 1 .. state.watermark
    <3> SUFFICES ASSUME x.seq \in 1 .. state.watermark PROVE FALSE
      OBVIOUS
    <3>1. PICK n \in state.applied : n.seq = x.seq
      BY <1>1, NumberedMeans
    <3>2. n = x
      BY <1>2, <1>3, <3>1, NumberedMeans
    <3> QED BY <1>4, <3>1, <3>2
  <2> QED BY <1>1, <2>1, <2>2, <2>3
<1>5. ASSUME NEW x \in s.applied, x \notin state.applied
      PROVE  x = m
  <2>1. x.seq = m.seq
    BY <1>4, <1>5
  <2> QED BY <1>2, <2>1, NumberedMeans
<1>6. \A n \in state.applied : n.op # m.op
  BY <1>2, <1>3 DEF OpsAgree
<1> QED BY <1>3, <1>4, <1>5, <1>6

\* A crash leaves the journal as it is, adds to it the mutation that was in the log
\* only, or loses it.
LEMMA CrashKeepsOrLoses ==
  ASSUME StorageInv, Crash
  PROVE  J!Lose \/ UNCHANGED J!vars \/ \E m \in Held'.journal : J!Append(m)
<1>1. /\ pc # "down" /\ pc' = "down" /\ stream' = stream /\ acked' = acked
      /\ UNCHANGED << log, doubled, torn, snap, idem, offsets, publishing >>
  BY DEF Crash, disk
<1>2. PICK s : s = load_source_of_truth
  OBVIOUS
<1>3. load_source_of_truth' = s
  BY <1>1, <1>2, SameFilesSameLoad
<1>4. Held.readable = TRUE /\ Held.journal = state.applied
  BY <1>1, HeldRunning
<1>5. /\ pc' = "down" /\ load_source_of_truth' # None =>
            Held'.readable = TRUE /\ Held'.journal = load_source_of_truth'.applied
      /\ pc' = "down" /\ load_source_of_truth' = None =>
            Held'.readable = FALSE /\ Held'.journal = {}
  <2>1. (/\ pc = "down" /\ load_source_of_truth # None =>
              Held.readable = TRUE /\ Held.journal = load_source_of_truth.applied
         /\ pc = "down" /\ load_source_of_truth = None =>
              Held.readable = FALSE /\ Held.journal = {})'
    BY HeldDown, PTL
  <2> QED BY <2>1
<1>6. CASE s = None
  <2>1. Held'.readable = FALSE /\ Held'.journal = {}
    BY <1>1, <1>3, <1>5, <1>6
  <2> QED BY <1>1, <2>1 DEF J!Lose
<1>7. CASE s # None
  <2>1. Held'.readable = TRUE /\ Held'.journal = s.applied
    BY <1>1, <1>3, <1>5, <1>7
  <2>2. TypeOK /\ FilesAddUp /\ (~publishing => CleanBelow)
    BY DEF StorageInv, AloneAddsUp, CleanBelow
  <2>3. Loaded(s)
    BY <1>2, <1>7, <2>2, LoadIsGood
  <2>4. CASE s.applied \subseteq state.applied
    <3>1. state.applied \subseteq s.applied
      BY <1>1, <2>3 DEF Loaded, StorageInv, StateAddsUp
    <3>2. s.applied = state.applied
      BY <2>4, <3>1
    <3>3. Held'.journal = Held.journal /\ Held'.readable = Held.readable
      BY <1>4, <2>1, <3>2
    <3> QED BY <1>1, <3>3 DEF J!vars
  <2>5. CASE ~(s.applied \subseteq state.applied)
    <3>1. PICK m \in s.applied : m \notin state.applied
      BY <2>5
    <3>2. /\ s.applied = state.applied \union {m}
          /\ m.seq = state.watermark + 1
          /\ \A n \in state.applied : n.op # m.op
      BY <1>1, <2>3, <3>1, LoadGoesOneFurther
    <3>3. state.watermark \in Nat /\ Numbered(state.applied, state.watermark)
      BY <1>1, WhenRunning, StateTypes DEF StateAddsUp
    <3>4. m.seq \in Nat \ {0} /\ m.seq - 1 = state.watermark
      BY <3>2, <3>3
    <3>5. {n.seq : n \in state.applied} = 1 .. (m.seq - 1)
      BY <3>3, <3>4 DEF Numbered
    <3>6. J!Append(m)
      BY <1>1, <1>4, <2>1, <3>2, <3>4, <3>5 DEF J!Append
    <3> QED BY <2>1, <3>1, <3>6
  <2> QED BY <2>4, <2>5
<1> QED BY <1>6, <1>7

\* Nothing on disk is an empty journal.
LEMMA InitJournal == Init => J!Init
<1> SUFFICES ASSUME Init PROVE J!Init
  OBVIOUS
<1>1. StorageInv
  BY InitStorageInv
<1>2. /\ log = {} /\ idem = {} /\ ~torn /\ snap.watermark = 0 /\ snap.applied = {}
      /\ offsets = 0 /\ doubled = {}
      /\ pc = "down" /\ acked \union stream = {} /\ publishing \in BOOLEAN
  BY <1>1 DEF Init, StorageInv, TypeOK
<1>3. {m.seq : m \in {}} = (0 + 1) .. 0 /\ 0 \in 0 .. MaxSeq
  BY StorageAssumption
<1>4. Contiguous({}, 0) /\ OpsAgree({})
  BY <1>3 DEF Contiguous, OpsAgree
<1>5. load_source_of_truth # None
  <2>1. CASE ~publishing
    BY <1>1, <1>2, <2>1 DEF StorageInv, AloneAddsUp, StartsAgain
  <2>2. CASE publishing
    <3>1. load_source_of_truth = from_snapshot_and_retained_history(snap, {}, {}, 0)
      BY <1>2, <2>2 DEF load_source_of_truth, Least
    <3>2. LastSeq({}, 0) \in Nat
      <4>1. LastSeq({}, 0) \in 0 .. MaxSeq
        BY <1>3 DEF LastSeq
      <4> QED BY <4>1
    <3>3. LastSeq({}, 0) >= snap.watermark /\ {} \union {} = {}
      BY <1>2, <3>2
    <3>4. from_snapshot_and_retained_history(snap, {}, {}, 0) =
            [watermark |-> LastSeq({}, 0), applied |-> snap.applied \union After({}, snap.watermark),
             compacted |-> 0, mutations |-> {}, op_index |-> {} \union {}]
      BY <1>4, <3>3 DEF from_snapshot_and_retained_history
    <3>5. /\ LastSeq({}, 0) \in 0 .. MaxSeq /\ 0 \in 0 .. MaxSeq
          /\ snap.applied \union After({}, snap.watermark) = {}
      BY <1>2, <1>3 DEF LastSeq, After
    <3>6. from_snapshot_and_retained_history(snap, {}, {}, 0) \in SourceOfTruth
      BY <3>4, <3>5 DEF SourceOfTruth
    <3> QED BY <3>1, <3>6, NoneAssumption
  <2> QED BY <1>2, <2>1, <2>2
<1>6. load_source_of_truth.applied = {}
  <2>1. TypeOK /\ FilesAddUp /\ (~publishing => CleanBelow)
    BY <1>1 DEF StorageInv, AloneAddsUp, CleanBelow
  <2>2. Loaded(load_source_of_truth)
    BY <1>5, <2>1, LoadIsGood
  <2>3. Recoverable = {}
    BY <1>2 DEF Recoverable, After
  <2> QED BY <2>2, <2>3 DEF Loaded
<1>7. Held.readable = TRUE /\ Held.journal = {}
  BY <1>2, <1>5, <1>6, HeldDown
<1> QED BY <1>2, <1>7 DEF J!Init

\* A step of the node is a step of the journal or leaves it alone.
LEMMA NextJournal ==
  ASSUME StorageInv, StorageInv', [Next]_vars
  PROVE  [J!Next]_(J!vars)
<1>1. CASE Load
  BY <1>1, LoadStutters
<1>2. CASE ApplyLogged
  BY <1>2, ApplyAppends DEF J!Next
<1>3. CASE Crash
  BY <1>3, CrashKeepsOrLoses DEF J!Next
<1>4. CASE Next /\ ~Load /\ ~ApplyLogged /\ ~Crash
  BY <1>4, MostStepsTell DEF J!Next
<1>5. CASE UNCHANGED vars
  <2>1. /\ UNCHANGED << log, doubled, torn, snap, idem, offsets, publishing >>
        /\ UNCHANGED << pc, state, stream, acked >>
    BY <1>5 DEF vars, disk, publisher
  <2>2. load_source_of_truth' = load_source_of_truth
    BY <2>1, SameFilesSameLoad
  <2>3. Held' = Held
    BY <2>1, <2>2 DEF Held
  <2> QED BY <2>1, <2>3 DEF J!vars
<1> QED BY <1>1, <1>2, <1>3, <1>4, <1>5 DEF Next

\* The files of a node are a journal (commit.rs:84, commit.rs:225): a restart gives back
\* everything applied, with at most the one mutation that had reached only the log, or
\* fails as a whole; an application adds the next sequence number with an operation that
\* is not there yet; and what clients and relays are told of is in it.
THEOREM FilesAreJournal ==
  ASSUME BundlesAlone
  PROVE  Spec => ImplementsJournal
<1>1. Init => J!Init
  BY InitJournal
<1>2. StorageInv /\ StorageInv' /\ [Next]_vars => [J!Next]_(J!vars)
  BY NextJournal
<1>3. Spec => []StorageInv
  BY StorageInvariant
<1> QED BY <1>1, <1>2, <1>3, PTL DEF Spec, ImplementsJournal, J!Spec
=============================================================================
