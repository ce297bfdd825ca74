-------------------------- MODULE PublicationProofs --------------------------
(***************************************************************************)
(* Proofs about Publication, for any uploads, numbers of mutations and of  *)
(* faults: what the two writers of a node leave on its disk and in the     *)
(* object store between any two writes, after any crash, failed write or   *)
(* loss of the disk.                                                       *)
(***************************************************************************)
EXTENDS Publication, TLAPS

(***************************************************************************)
(* Snapshots as sequences.                                                 *)
(***************************************************************************)

\* A prefix has the first mutations of the whole.
LEMMA PrefixMeans ==
  ASSUME NEW s \in Snapshots, NEW t \in Snapshots
  PROVE  IsPrefix(s, t) <=> Len(s) <= Len(t) /\ \A i \in 1 .. Len(s) : s[i] = t[i]
<1>1. ASSUME Len(s) <= Len(t)
      PROVE  /\ SubSeq(t, 1, Len(s)) \in Seq(Nat) /\ Len(SubSeq(t, 1, Len(s))) = Len(s)
             /\ \A i \in 1 .. Len(s) : SubSeq(t, 1, Len(s))[i] = t[i]
  BY <1>1 DEF Snapshots
<1>2. ASSUME Len(s) <= Len(t), \A i \in 1 .. Len(s) : s[i] = t[i]
      PROVE  s = SubSeq(t, 1, Len(s))
  BY <1>1, <1>2 DEF Snapshots
<1> QED BY <1>1, <1>2 DEF IsPrefix

\* What goes on from a prefix goes on from what the prefix goes on from.
LEMMA PrefixOfPrefix ==
  ASSUME NEW s \in Snapshots, NEW t \in Snapshots, NEW u \in Snapshots,
         IsPrefix(s, t), IsPrefix(t, u)
  PROVE  IsPrefix(s, u)
<1>1. Len(s) \in Nat /\ Len(t) \in Nat /\ Len(u) \in Nat
  BY DEF Snapshots
<1> QED BY <1>1, PrefixMeans

\* A snapshot is a prefix of itself, and the empty one of all.
LEMMA PrefixOfItself ==
  ASSUME NEW s \in Snapshots
  PROVE  IsPrefix(s, s) /\ IsPrefix(<<>>, s)
<1>1. Len(s) \in Nat /\ <<>> \in Snapshots /\ Len(<<>>) = 0
  BY DEF Snapshots
<1> QED BY <1>1, PrefixMeans

\* A mutation more, at the end.
LEMMA AppendGoesOn ==
  ASSUME NEW s \in Snapshots, NEW i \in Nat
  PROVE  /\ Append(s, i) \in Snapshots /\ Append(s, i) # <<>>
         /\ IsPrefix(s, Append(s, i))
<1>1. /\ Append(s, i) \in Seq(Nat) /\ Len(Append(s, i)) = Len(s) + 1 /\ Len(s) \in Nat
      /\ \A k \in 1 .. Len(s) : Append(s, i)[k] = s[k]
  BY DEF Snapshots
<1>2. Append(s, i) \in Snapshots
  BY <1>1 DEF Snapshots
<1>3. IsPrefix(s, Append(s, i))
  <2>1. PICK t \in Snapshots : t = Append(s, i)
    BY <1>2
  <2>2. Len(s) <= Len(t) /\ \A k \in 1 .. Len(s) : s[k] = t[k]
    BY <1>1, <2>1
  <2>3. IsPrefix(s, t)
    BY <2>2, PrefixMeans
  <2> QED BY <2>1, <2>3
<1> QED BY <1>1, <1>2, <1>3

\* The first mutations of a snapshot.
LEMMA HeadIsPrefix ==
  ASSUME NEW s \in Snapshots, NEW k \in 1 .. Len(s)
  PROVE  SubSeq(s, 1, k) \in Snapshots /\ IsPrefix(SubSeq(s, 1, k), s)
<1>1. /\ SubSeq(s, 1, k) \in Seq(Nat) /\ Len(SubSeq(s, 1, k)) = k /\ k <= Len(s)
      /\ \A i \in 1 .. k : SubSeq(s, 1, k)[i] = s[i]
  BY DEF Snapshots
<1>2. PICK t \in Snapshots : t = SubSeq(s, 1, k)
  BY <1>1 DEF Snapshots
<1>3. Len(t) <= Len(s) /\ \A i \in 1 .. Len(t) : t[i] = s[i]
  BY <1>1, <1>2
<1>4. IsPrefix(t, s)
  BY <1>3, PrefixMeans
<1> QED BY <1>2, <1>4

(***************************************************************************)
(* Publications under way.                                                 *)
(***************************************************************************)

\* What a publication and its manifest are.
LEMMA JobTypes ==
  ASSUME Shapes
  PROVE  /\ \A j \in Jobs : job[j] # None =>
               /\ job[j] \in Publications /\ job[j].of \in Snapshots
               /\ ManifestOf(j) \in Manifests /\ ManifestOf(j).of = job[j].of
         /\ \A x \in Snapshots \cup Manifests \cup Publications : x # None
  BY NoneAssumption DEF Shapes, Publications, Manifests, ManifestOf, Manifest

\* A publication goes on to its next write.
LEMMA NextWrite ==
  ASSUME Shapes, NEW j \in Jobs, job[j] # None, NEW pc \in Writes, Next1(j, pc)
  PROVE  /\ job' \in [Jobs -> Publications \cup {None}]
         /\ job'[j] # None /\ job'[j] \in Publications
         /\ job'[j].kind = job[j].kind /\ job'[j].of = job[j].of /\ job'[j].pc = pc
         /\ \A i \in Jobs : i # j => job'[i] = job[i]
<1>1. job[j] \in Publications /\ job \in [Jobs -> Publications \cup {None}]
  BY JobTypes DEF Shapes
<1>2. PICK r : r = [job[j] EXCEPT !.pc = pc]
  OBVIOUS
<1>3. r \in Publications /\ r.kind = job[j].kind /\ r.of = job[j].of /\ r.pc = pc
  BY <1>1, <1>2 DEF Publications
<1>4. job' = [job EXCEPT ![j] = r]
  BY <1>1, <1>2 DEF Next1
<1>5. r # None
  BY <1>3, JobTypes
<1> QED BY <1>1, <1>3, <1>4, <1>5

\* The publication of one writer ends.
LEMMA JobEnds ==
  ASSUME Shapes, NEW j \in Jobs, job' = [job EXCEPT ![j] = None]
  PROVE  /\ job' \in [Jobs -> Publications \cup {None}]
         /\ job'[j] = None
         /\ \A i \in Jobs : i # j => job'[i] = job[i]
  BY DEF Shapes

\* What the end of a publication that went through starts and acknowledges.
LEMMA DoneMeans ==
  ASSUME Shapes, JobsInStep, NEW j \in Jobs, job[j] # None, Done(j)
  PROVE  /\ job' \in [Jobs -> Publications \cup {None}]
         /\ \A i \in Jobs : i # j => job'[i] = job[i]
         /\ \/ /\ job'[j] = None
               /\ acked' = acked \/ (j = "locked" /\ acked' = job[j].of)
            \/ /\ job'[j] # None /\ j = "locked" /\ acked' = acked
               /\ job'[j].of = job[j].of
               /\ job'[j].kind \in {"recompact", "archive", "compact"}
               /\ job'[j].pc \in {"snap", "art"}
<1>1. job[j] \in Publications /\ job \in [Jobs -> Publications \cup {None}]
  BY JobTypes DEF Shapes
<1>2. ASSUME NEW next \in Follows(job[j].kind),
             job' = [job EXCEPT ![j].kind = next.kind, ![j].pc = next.pc], acked' = acked
      PROVE  /\ job' \in [Jobs -> Publications \cup {None}]
             /\ \A i \in Jobs : i # j => job'[i] = job[i]
             /\ job'[j] # None /\ j = "locked"
             /\ job'[j].of = job[j].of
             /\ job'[j].kind \in {"recompact", "archive", "compact"}
             /\ job'[j].pc \in {"snap", "art"}
  <2>1. /\ next.kind \in {"recompact", "archive", "compact"} /\ next.pc \in {"snap", "art"}
        /\ job[j].kind \in {"commit", "archive", "startup"}
    BY <1>2 DEF Follows
  <2>2. PICK r : r = [job[j] EXCEPT !.kind = next.kind, !.pc = next.pc]
    OBVIOUS
  <2>3. r \in Publications /\ r.kind = next.kind /\ r.of = job[j].of /\ r.pc = next.pc
    BY <1>1, <2>1, <2>2 DEF Publications, Kinds, Writes
  <2>4. job' = [job EXCEPT ![j] = r]
    BY <1>1, <1>2, <2>2
  <2>5. j = "locked"
    BY <2>1 DEF JobsInStep, Jobs
  <2>6. r # None
    BY <2>3, JobTypes
  <2>7. job' \in [Jobs -> Publications \cup {None}] /\ job'[j] = r
        /\ \A i \in Jobs : i # j => job'[i] = job[i]
    BY <1>1, <2>3, <2>4
  <2> QED BY <2>1, <2>3, <2>5, <2>6, <2>7
<1>3. ASSUME job' = [job EXCEPT ![j] = None],
             acked' = IF job[j].kind \in {"archive", "compact"} THEN job[j].of ELSE acked
      PROVE  /\ job' \in [Jobs -> Publications \cup {None}]
             /\ \A i \in Jobs : i # j => job'[i] = job[i]
             /\ job'[j] = None /\ (acked' = acked \/ (j = "locked" /\ acked' = job[j].of))
  <2>1. job[j].kind \in {"archive", "compact"} => j = "locked"
    BY DEF JobsInStep, Jobs
  <2> QED BY <1>3, <2>1, JobEnds
<1> QED BY <1>2, <1>3 DEF Done

\* What the failure of a publication leaves.
LEMMA FailedJobMeans ==
  ASSUME Shapes, JobsInStep, NEW j \in Jobs, job[j] # None, FailedJob(j)
  PROVE  /\ job' \in [Jobs -> Publications \cup {None}]
         /\ \A i \in Jobs : job'[i] = job[i] \/ job'[i] = None
         /\ job'[j] = None
         /\ \/ state' = state /\ \A i \in Jobs : i # j => job'[i] = job[i]
            \/ state' = None /\ job' = [i \in Jobs |-> None]
         /\ refused' = (refused \/ j = "locked")
  BY JobEnds DEF FailedJob

(***************************************************************************)
(* The writes of a publication.                                            *)
(***************************************************************************)

\* The snapshot file and its signature are those of the state, under the mutex.
LEMMA WriteSnapshotKeeps ==
  ASSUME PublicationInv, NEW j \in Jobs, WriteSnapshot(j)
  PROVE  PublicationInv'
<1>1. Shapes /\ TypeOK /\ JobsInStep /\ SnapInStep /\ ManifestInStep /\ RemoteInStep
  BY DEF PublicationInv
<1>2. /\ job[j] # None /\ job[j].pc \in {"snap", "snapsig"}
      /\ Next1(j, IF job[j].pc = "snap" THEN "snapsig" ELSE "art")
      /\ job[j].pc = "snap" => snap' = [snap EXCEPT !.body = job[j].of]
      /\ job[j].pc = "snapsig" => snap' = [snap EXCEPT !.sig = job[j].of]
      /\ UNCHANGED << state, source, agent, ops, uploads, manifest, tmp, artifacts, remote,
                      remoteArtifacts, requireUpload, acked, published, failed, overlapped,
                      foreign, refused, retold, faults >>
  BY DEF WriteSnapshot, At, OthersStay, store, history
<1>3. j = "locked" /\ job[j].of = state /\ state # None /\ state = source /\ state \in Snapshots
  BY <1>1, <1>2, JobTypes DEF JobsInStep, Jobs, TypeOK, Quiet
<1>4. /\ job' \in [Jobs -> Publications \cup {None}] /\ job'[j] # None
      /\ job'[j].kind = job[j].kind /\ job'[j].of = state
      /\ job'[j].pc = (IF job[j].pc = "snap" THEN "snapsig" ELSE "art")
      /\ job'["free"] = job["free"]
  BY <1>1, <1>2, <1>3, NextWrite DEF Writes, Jobs
<1>5. /\ snap' \in FilesOf(Snapshots)
      /\ job[j].pc = "snap" => snap'.body = state
      /\ job[j].pc = "snapsig" => snap'.body = snap.body /\ snap'.sig = state
  BY <1>1, <1>2, <1>3 DEF Shapes, FilesOf
<1>6. Shapes'
  BY <1>1, <1>2, <1>4, <1>5 DEF Shapes
<1>7. TypeOK'
  BY <1>1, <1>2, <1>3, <1>5, PrefixOfItself DEF TypeOK
<1>8. JobsInStep'
  BY <1>1, <1>2, <1>3, <1>4 DEF JobsInStep, Jobs
<1>9. SnapInStep'
  <2>1. ASSUME job[j].pc = "snapsig", ~failed PROVE snap' = [body |-> state, sig |-> state]
    <3>1. snap.body = state
      BY <1>1, <1>2, <1>3, <2>1 DEF SnapInStep, At
    <3> QED BY <1>5, <2>1, <3>1 DEF FilesOf
  <2> QED BY <1>1, <1>2, <1>3, <1>4, <1>5, <2>1 DEF SnapInStep, At, Signed
<1>10. ManifestInStep'
  BY <1>1, <1>2, <1>3, <1>4 DEF ManifestInStep, At, Verifies, ManifestOf, Jobs
<1>11. RemoteInStep'
  BY <1>1, <1>2, <1>3, <1>4 DEF RemoteInStep, At
<1> QED BY <1>6, <1>7, <1>8, <1>9, <1>10, <1>11 DEF PublicationInv

\* The artifact is there before a manifest names it.
LEMMA WriteArtifactKeeps ==
  ASSUME PublicationInv, NEW j \in Jobs, WriteArtifact(j)
  PROVE  PublicationInv'
<1>1. Shapes /\ TypeOK /\ JobsInStep /\ SnapInStep /\ ManifestInStep /\ RemoteInStep
  BY DEF PublicationInv
<1>2. /\ job[j] # None /\ job[j].pc = "art" /\ Next1(j, "man")
      /\ artifacts' = artifacts \cup {job[j].of}
      /\ UNCHANGED << state, source, agent, ops, uploads, snap, manifest, tmp, remote,
                      remoteArtifacts, requireUpload, acked, published, failed, overlapped,
                      foreign, refused, retold, faults >>
  BY DEF WriteArtifact, At, OthersStay, store, history
<1>3. /\ job' \in [Jobs -> Publications \cup {None}] /\ job'[j] # None
      /\ job'[j].kind = job[j].kind /\ job'[j].of = job[j].of /\ job'[j].pc = "man"
      /\ \A i \in Jobs : i # j => job'[i] = job[i]
  BY <1>1, <1>2, NextWrite DEF Writes
<1>4. Shapes'
  BY <1>1, <1>2, <1>3, JobTypes DEF Shapes
<1>5. TypeOK'
  BY <1>1, <1>2 DEF TypeOK
<1>6. JobsInStep'
  BY <1>1, <1>2, <1>3 DEF JobsInStep, Jobs, Quiet
<1>7. SnapInStep'
  BY <1>1, <1>2, <1>3 DEF SnapInStep, At, Jobs
<1>8. ManifestInStep'
  BY <1>1, <1>2, <1>3 DEF ManifestInStep, At, Verifies, ManifestOf, Jobs
<1>9. RemoteInStep'
  BY <1>1, <1>2, <1>3 DEF RemoteInStep, At, Jobs
<1> QED BY <1>4, <1>5, <1>6, <1>7, <1>8, <1>9 DEF PublicationInv

\* Of publications that follow one another at most one is under way.
LEMMA OneAtATime ==
  ASSUME Shapes, JobsInStep, ManifestInStep, NEW j \in Jobs, job[j] # None, ~failed, ~overlapped
  PROVE  state # None /\ \A i \in Jobs : i # j => job[i] = None
<1>1. state # None
  BY DEF JobsInStep, Quiet
<1> QED BY <1>1 DEF ManifestInStep, Jobs

\* The temporary file holds the manifest that is to be renamed, or its signature.
LEMMA WriteTmpKeeps ==
  ASSUME PublicationInv, NEW j \in Jobs, WriteTmp(j)
  PROVE  PublicationInv'
<1>1. Shapes /\ TypeOK /\ JobsInStep /\ SnapInStep /\ ManifestInStep /\ RemoteInStep
  BY DEF PublicationInv
<1>2. /\ job[j] # None
      /\ \/ job[j].pc = "man" /\ Next1(j, "manmv") /\ tmp' = [tmp EXCEPT !.body = ManifestOf(j)]
         \/ job[j].pc = "sig" /\ Next1(j, "sigmv") /\ tmp' = [tmp EXCEPT !.sig = ManifestOf(j)]
      /\ UNCHANGED << state, source, agent, ops, uploads, snap, manifest, artifacts, remote,
                      remoteArtifacts, requireUpload, acked, published, failed, overlapped,
                      foreign, refused, retold, faults >>
  BY DEF WriteTmp, At, OthersStay, store, history
<1>3. ManifestOf(j) \in Manifests /\ ManifestOf(j).of = job[j].of
  BY <1>1, <1>2, JobTypes
<1>4. /\ job' \in [Jobs -> Publications \cup {None}] /\ job'[j] # None
      /\ job'[j].kind = job[j].kind /\ job'[j].of = job[j].of
      /\ job[j].pc = "man" => job'[j].pc = "manmv"
      /\ job[j].pc = "sig" => job'[j].pc = "sigmv"
      /\ \A i \in Jobs : i # j => job'[i] = job[i]
  BY <1>1, <1>2, NextWrite DEF Writes
<1>5. /\ tmp' \in FilesOf(Manifests)
      /\ job[j].pc = "man" => tmp'.body = ManifestOf(j)
      /\ job[j].pc = "sig" => tmp'.sig = ManifestOf(j) /\ tmp'.body = tmp.body
  BY <1>1, <1>2, <1>3 DEF Shapes, FilesOf
<1>6. Shapes'
  BY <1>1, <1>2, <1>4, <1>5 DEF Shapes
<1>7. TypeOK'
  <2>1. job[j].of \in artifacts
    BY <1>1, <1>2 DEF JobsInStep
  <2> QED BY <1>1, <1>2, <1>3, <1>5, <2>1 DEF TypeOK
<1>8. JobsInStep'
  BY <1>1, <1>2, <1>4 DEF JobsInStep, Jobs, Quiet
<1>9. SnapInStep'
  BY <1>1, <1>2, <1>4 DEF SnapInStep, At, Jobs
<1>10. ManifestInStep'
  <2>1. SUFFICES ASSUME ~failed, ~overlapped PROVE ManifestInStep'
    BY <1>2 DEF ManifestInStep
  <2>2. \A i \in Jobs : i # j => job[i] = None
    BY <1>1, <1>2, <2>1, OneAtATime
  <2> QED BY <1>1, <1>2, <1>3, <1>4, <1>5, <2>1, <2>2
          DEF ManifestInStep, At, Verifies, ManifestOf, Jobs
<1>11. RemoteInStep'
  BY <1>1, <1>2, <1>4 DEF RemoteInStep, At, Jobs
<1> QED BY <1>6, <1>7, <1>8, <1>9, <1>10, <1>11 DEF PublicationInv

\* The rename puts manifest and signature of one publication next to each other, unless
\* another publication is under way.
LEMMA RenameTmpKeeps ==
  ASSUME PublicationInv, NEW j \in Jobs, RenameTmp(j)
  PROVE  PublicationInv'
<1>1. Shapes /\ TypeOK /\ JobsInStep /\ SnapInStep /\ ManifestInStep /\ RemoteInStep
  BY DEF PublicationInv
<1>2. /\ job[j] # None
      /\ \/ /\ job[j].pc = "manmv" /\ Next1(j, "sig") /\ tmp.body # None
            /\ manifest' = [manifest EXCEPT !.body = tmp.body] /\ tmp' = [tmp EXCEPT !.body = None]
         \/ /\ job[j].pc = "sigmv" /\ Next1(j, "rart") /\ tmp.sig # None
            /\ manifest' = [manifest EXCEPT !.sig = tmp.sig] /\ tmp' = [tmp EXCEPT !.sig = None]
      /\ UNCHANGED << state, source, agent, ops, uploads, snap, artifacts, remote,
                      remoteArtifacts, requireUpload, acked, published, failed, overlapped,
                      foreign, refused, retold, faults >>
  BY DEF RenameTmp, At, OthersStay, store, history
<1>3. ManifestOf(j) \in Manifests /\ ManifestOf(j) # None
  BY <1>1, <1>2, JobTypes
<1>4. /\ job' \in [Jobs -> Publications \cup {None}] /\ job'[j] # None
      /\ job'[j].kind = job[j].kind /\ job'[j].of = job[j].of
      /\ job[j].pc = "manmv" => job'[j].pc = "sig"
      /\ job[j].pc = "sigmv" => job'[j].pc = "rart"
      /\ \A i \in Jobs : i # j => job'[i] = job[i]
  BY <1>1, <1>2, NextWrite DEF Writes
<1>5. /\ tmp' \in FilesOf(Manifests) /\ manifest' \in FilesOf(Manifests)
      /\ job[j].pc = "manmv" => manifest'.body = tmp.body /\ tmp'.body = None
      /\ job[j].pc = "sigmv" => /\ manifest'.sig = tmp.sig /\ manifest'.body = manifest.body
                                /\ tmp'.body = tmp.body
  BY <1>1, <1>2 DEF Shapes, FilesOf
<1>6. Shapes'
  BY <1>1, <1>2, <1>4, <1>5 DEF Shapes
<1>7. TypeOK'
  BY <1>1, <1>2, <1>5 DEF TypeOK
<1>8. JobsInStep'
  BY <1>1, <1>2, <1>4 DEF JobsInStep, Jobs, Quiet
<1>9. SnapInStep'
  BY <1>1, <1>2, <1>4 DEF SnapInStep, At, Jobs
<1>10. ManifestInStep'
  <2>1. SUFFICES ASSUME ~failed, ~overlapped PROVE ManifestInStep'
    BY <1>2 DEF ManifestInStep
  <2>2. state # None /\ \A i \in Jobs : i # j => job[i] = None
    BY <1>1, <1>2, <2>1, OneAtATime
  <2>3. /\ job[j].pc = "manmv" => tmp.body = ManifestOf(j)
        /\ job[j].pc = "sigmv" => manifest.body = ManifestOf(j) /\ tmp.sig = ManifestOf(j)
    BY <1>1, <1>2, <2>1, <2>2 DEF ManifestInStep, At
  <2> QED BY <1>1, <1>2, <1>3, <1>4, <1>5, <2>1, <2>2, <2>3
          DEF ManifestInStep, At, Verifies, ManifestOf, Jobs
<1>11. RemoteInStep'
  BY <1>1, <1>2, <1>4 DEF RemoteInStep, At, Jobs
<1> QED BY <1>6, <1>7, <1>8, <1>9, <1>10, <1>11 DEF PublicationInv

\* The artifact is in the object store before the manifest.
LEMMA PutArtifactKeeps ==
  ASSUME PublicationInv, NEW j \in Jobs, PutArtifact(j)
  PROVE  PublicationInv'
<1>1. Shapes /\ TypeOK /\ JobsInStep /\ SnapInStep /\ ManifestInStep /\ RemoteInStep
  BY DEF PublicationInv
<1>2. /\ job[j] # None /\ job[j].pc = "rart" /\ Next1(j, "rman")
      /\ remoteArtifacts' = remoteArtifacts \cup {job[j].of}
      /\ UNCHANGED << state, source, agent, ops, uploads, snap, manifest, tmp, artifacts, remote,
                      requireUpload, acked, published, failed, overlapped, foreign, refused, retold,
                      faults >>
  BY DEF PutArtifact, At, OthersStay, history
<1>3. /\ job' \in [Jobs -> Publications \cup {None}] /\ job'[j] # None
      /\ job'[j].kind = job[j].kind /\ job'[j].of = job[j].of /\ job'[j].pc = "rman"
      /\ \A i \in Jobs : i # j => job'[i] = job[i]
  BY <1>1, <1>2, NextWrite DEF Writes
<1>4. Shapes'
  BY <1>1, <1>2, <1>3, JobTypes DEF Shapes
<1>5. TypeOK'
  BY <1>1, <1>2 DEF TypeOK
<1>6. JobsInStep'
  BY <1>1, <1>2, <1>3 DEF JobsInStep, Jobs, Quiet
<1>7. SnapInStep'
  BY <1>1, <1>2, <1>3 DEF SnapInStep, At, Jobs
<1>8. ManifestInStep'
  BY <1>1, <1>2, <1>3 DEF ManifestInStep, At, Verifies, ManifestOf, Jobs
<1>9. RemoteInStep'
  BY <1>1, <1>2, <1>3 DEF RemoteInStep, At, Jobs
<1> QED BY <1>4, <1>5, <1>6, <1>7, <1>8, <1>9 DEF PublicationInv

\* Before a put snapshot file and manifest are written.
LEMMA WrittenBeforePut ==
  ASSUME PublicationInv, NEW j \in Jobs, job[j] # None, job[j].pc \in {"rart", "rman", "rsig"}
  PROVE  /\ state # None
         /\ j = "locked" /\ ~failed => snap = Signed(state)
         /\ ~failed /\ ~overlapped =>
               Verifies(manifest) /\ \A i \in Jobs : i # j => job[i] = None
<1>1. Shapes /\ JobsInStep /\ SnapInStep /\ ManifestInStep
  BY DEF PublicationInv
<1>2. state # None
  BY <1>1 DEF JobsInStep, Quiet
<1>3. ASSUME ~failed, ~overlapped
      PROVE  Verifies(manifest) /\ \A i \in Jobs : i # j => job[i] = None
  <2>1. \A i \in Jobs : i # j => job[i] = None
    BY <1>1, <1>3, OneAtATime
  <2> QED BY <1>1, <1>2, <1>3, <2>1 DEF ManifestInStep
<1> QED BY <1>1, <1>2, <1>3 DEF SnapInStep, At

\* A publication that went through leaves the node's files as they are.
LEMMA DoneKeeps ==
  ASSUME PublicationInv, NEW j \in Jobs, job[j] # None, job[j].pc \in {"rart", "rman", "rsig"},
         Done(j), remote.body # None => remote'.body # None,
         UNCHANGED << state, snap, manifest, tmp, artifacts, remoteArtifacts, failed, overlapped >>
  PROVE  JobsInStep' /\ SnapInStep' /\ ManifestInStep'
<1>1. Shapes /\ JobsInStep /\ SnapInStep /\ ManifestInStep
  BY DEF PublicationInv
<1>2. /\ \A i \in Jobs : i # j => job'[i] = job[i]
      /\ \/ job'[j] = None
         \/ /\ job'[j] # None /\ j = "locked"
            /\ job'[j].of = job[j].of
            /\ job'[j].kind \in {"recompact", "archive", "compact"}
            /\ job'[j].pc \in {"snap", "art"}
  BY <1>1, DoneMeans
<1>3. /\ state # None
      /\ j = "locked" /\ ~failed => snap = Signed(state)
      /\ ~failed /\ ~overlapped =>
            Verifies(manifest) /\ \A i \in Jobs : i # j => job[i] = None
  BY WrittenBeforePut
<1>4. JobsInStep'
  BY <1>1, <1>2, <1>3 DEF JobsInStep, Jobs
<1>5. SnapInStep'
  BY <1>1, <1>2, <1>3 DEF SnapInStep, At, Jobs, Signed
<1>6. ManifestInStep'
  BY <1>1, <1>2, <1>3 DEF ManifestInStep, At, Verifies, Jobs
<1> QED BY <1>4, <1>5, <1>6

\* So does one that failed; where that was the startup, the process has ended.
LEMMA FailedJobKeeps ==
  ASSUME PublicationInv, NEW j \in Jobs, job[j] # None, FailedJob(j),
         failed' \/ (failed' = failed /\ job[j].pc \in {"rart", "rman", "rsig"}),
         UNCHANGED << source, snap, manifest, tmp, artifacts, store, agent, acked, published,
                      foreign, retold, ops, uploads, overlapped >>
  PROVE  TypeOK' /\ JobsInStep' /\ SnapInStep' /\ ManifestInStep' /\ RemoteInStep'
<1>1. Shapes /\ TypeOK /\ JobsInStep /\ SnapInStep /\ ManifestInStep /\ RemoteInStep
  BY DEF PublicationInv
<1>2. /\ job'[j] = None
      /\ \/ state' = state /\ \A i \in Jobs : i # j => job'[i] = job[i]
         \/ state' = None /\ job' = [i \in Jobs |-> None]
  BY <1>1, FailedJobMeans
<1>3. UNCHANGED << remote, remoteArtifacts, requireUpload >>
  BY DEF store
<1>4. \A i \in Jobs : job'[i] = job[i] \/ job'[i] = None
  BY <1>1, FailedJobMeans
<1>5. TypeOK'
  BY <1>1, <1>2 DEF TypeOK
<1>6. JobsInStep'
  BY <1>1, <1>2, <1>3, <1>4 DEF JobsInStep, Jobs, Quiet
<1>7. RemoteInStep'
  <2>1. At("locked", "rsig")' => At("locked", "rsig") /\ state' = state
    BY <1>2, <1>4 DEF At, Jobs
  <2>2. state' # None /\ job'["locked"] = None /\ ~refused' =>
          state' = state /\ job["locked"] = None /\ ~refused
    <3>1. refused' = (refused \/ j = "locked")
      BY <1>1, FailedJobMeans
    <3> QED BY <1>2, <3>1 DEF Jobs
  <2> QED BY <1>1, <1>3, <2>1, <2>2 DEF RemoteInStep
<1>8. ASSUME state' = state, ~failed, job[j].pc \in {"rart", "rman", "rsig"},
             failed' = failed
      PROVE  SnapInStep' /\ ManifestInStep'
  <2>1. /\ j = "locked" /\ ~failed => snap = Signed(state)
        /\ ~failed /\ ~overlapped =>
              Verifies(manifest) /\ \A i \in Jobs : i # j => job[i] = None
    BY <1>8, WrittenBeforePut
  <2>2. SnapInStep'
    BY <1>1, <1>2, <1>4, <1>8, <2>1 DEF SnapInStep, At, Jobs, Signed
  <2>3. ManifestInStep'
    BY <1>1, <1>2, <1>4, <1>8, <2>1 DEF ManifestInStep, At, Verifies, Jobs
  <2> QED BY <2>2, <2>3
<1>9. SnapInStep' /\ ManifestInStep'
  <2>1. CASE state' = None \/ failed'
    BY <2>1 DEF SnapInStep, ManifestInStep
  <2>2. CASE ~(state' = None \/ failed')
    BY <1>2, <1>8, <2>2
  <2> QED BY <2>1, <2>2
<1> QED BY <1>1, <1>5, <1>6, <1>7, <1>9

\* The manifest names an artifact that is there; with its signature the publication has
\* reached the object store, and the commit it belongs to may be answered.
LEMMA PutManifestKeeps ==
  ASSUME PublicationInv, NEW j \in Jobs, PutManifest(j)
  PROVE  PublicationInv'
<1>1. Shapes /\ TypeOK /\ JobsInStep /\ SnapInStep /\ ManifestInStep /\ RemoteInStep
  BY DEF PublicationInv
<1>2. /\ job[j] # None
      /\ UNCHANGED << state, source, agent, ops, uploads, snap, manifest, tmp, artifacts,
                      remoteArtifacts, requireUpload, failed, overlapped, retold, faults >>
  BY DEF PutManifest, At, OthersStay
<1>3. /\ ManifestOf(j) \in Manifests /\ ManifestOf(j) # None /\ ManifestOf(j).of = job[j].of
      /\ job[j].of \in Snapshots /\ state # None
  BY <1>1, <1>2, JobTypes DEF JobsInStep, Quiet
<1>4. TypeOK'
  BY <1>1, <1>2 DEF TypeOK
<1>5. CASE At(j, "rman")
  <2>1. /\ job[j].pc = "rman" /\ Next1(j, "rsig") /\ remote' = [remote EXCEPT !.body = ManifestOf(j)]
        /\ foreign' = (foreign \/ j = "free") /\ UNCHANGED << published, acked, refused >>
    BY <1>5 DEF PutManifest, At
  <2>2. /\ job' \in [Jobs -> Publications \cup {None}] /\ job'[j] # None
        /\ job'[j].kind = job[j].kind /\ job'[j].of = job[j].of /\ job'[j].pc = "rsig"
        /\ \A i \in Jobs : i # j => job'[i] = job[i]
    BY <1>1, <1>2, <2>1, NextWrite DEF Writes
  <2>3. remote' \in FilesOf(Manifests) /\ remote'.body = ManifestOf(j) /\ remote'.sig = remote.sig
    BY <1>1, <1>3, <2>1 DEF Shapes, FilesOf
  <2>4. Shapes'
    BY <1>1, <1>2, <2>1, <2>2, <2>3 DEF Shapes
  <2>5. JobsInStep'
    BY <1>1, <1>2, <1>3, <2>1, <2>2, <2>3 DEF JobsInStep, Jobs, Quiet
  <2>6. SnapInStep'
    BY <1>1, <1>2, <2>1, <2>2 DEF SnapInStep, At, Jobs
  <2>7. ManifestInStep'
    BY <1>1, <1>2, <2>1, <2>2 DEF ManifestInStep, At, Verifies, ManifestOf, Jobs
  <2>8. RemoteInStep'
    <3>1. remote'.body.of \in remoteArtifacts'
      BY <1>1, <1>2, <1>3, <2>1, <2>3 DEF JobsInStep
    <3>2. published' => remote'.body # None /\ remote'.sig # None
      BY <1>1, <1>3, <2>1, <2>3 DEF RemoteInStep
    <3>3. ~foreign' => /\ ~foreign /\ remote'.body.of = state /\ state = source
                       /\ job'["locked"] # None
      BY <1>1, <1>2, <1>3, <2>1, <2>2, <2>3 DEF JobsInStep, TypeOK, Jobs
    <3> QED BY <1>1, <1>2, <1>3, <2>1, <2>3, <3>1, <3>2, <3>3 DEF RemoteInStep
  <2> QED BY <1>4, <2>4, <2>5, <2>6, <2>7, <2>8 DEF PublicationInv
<1>6. CASE At(j, "rsig")
  <2>1. /\ job[j].pc = "rsig" /\ Done(j) /\ remote' = [remote EXCEPT !.sig = ManifestOf(j)]
        /\ published' = TRUE /\ foreign' = foreign /\ refused' = (refused /\ j = "free")
    BY <1>6 DEF PutManifest, At
  <2>2. /\ job' \in [Jobs -> Publications \cup {None}]
        /\ acked' = acked \/ (j = "locked" /\ acked' = job[j].of)
        /\ At("locked", "rsig")' => j # "locked" /\ At("locked", "rsig")
        /\ j = "locked" \/ job'["locked"] = job["locked"]
    BY <1>1, <1>2, <2>1, DoneMeans DEF At, Jobs
  <2>3. remote' \in FilesOf(Manifests) /\ remote'.sig = ManifestOf(j) /\ remote'.body = remote.body
    BY <1>1, <1>3, <2>1 DEF Shapes, FilesOf
  <2>4. Shapes'
    <3>1. acked' \in Snapshots
      BY <1>1, <1>3, <2>2 DEF Shapes
    <3> QED BY <1>1, <1>2, <2>1, <2>2, <2>3, <3>1 DEF Shapes
  <2>5. JobsInStep' /\ SnapInStep' /\ ManifestInStep'
    BY <1>2, <2>1, <2>3, DoneKeeps
  <2>6. RemoteInStep'
    <3>1. remote.body # None
      BY <1>1, <1>2, <2>1 DEF JobsInStep
    <3>2. ASSUME ~foreign, acked' # acked
          PROVE  acked' = state /\ state = source /\ remote.body.of = state
      BY <1>1, <1>2, <1>3, <1>6, <2>2, <3>2 DEF JobsInStep, RemoteInStep, TypeOK
    <3>3. IsPrefix(state, state)
      BY <1>1, <1>3, PrefixOfItself DEF Shapes
    <3>4. ASSUME ~foreign, requireUpload, ~retold
          PROVE  /\ acked' # <<>> => IsPrefix(acked', remote.body.of)
                 /\ source # None => IsPrefix(acked', source)
      BY <1>1, <3>2, <3>3, <3>4 DEF RemoteInStep
    <3>5. remote.body.of \in remoteArtifacts
      BY <1>1, <3>1 DEF RemoteInStep
    <3>6. ~foreign => /\ At("locked", "rsig")' => remote.body.of = state
                      /\ remote.body.of # <<>> /\ source # None => source # <<>>
      BY <1>1, <2>2, <3>1 DEF RemoteInStep
    <3>7. ASSUME ~foreign, requireUpload, job'["locked"] = None, ~refused'
          PROVE  remote.body.of = state
      <4>1. CASE j = "locked"
        BY <1>1, <1>6, <3>7, <4>1 DEF RemoteInStep
      <4>2. CASE j # "locked"
        <5>1. ~refused /\ job["locked"] = None
          BY <2>1, <2>2, <3>7, <4>2 DEF Jobs
        <5> QED BY <1>1, <1>3, <3>7, <5>1 DEF RemoteInStep
      <4> QED BY <4>1, <4>2
    <3> QED BY <1>2, <1>3, <2>1, <2>3, <3>1, <3>4, <3>5, <3>6, <3>7 DEF RemoteInStep
  <2> QED BY <1>4, <2>4, <2>5, <2>6 DEF PublicationInv
<1> QED BY <1>5, <1>6 DEF PutManifest

\* A failed put is logged, or fails the publication where uploads are required.
LEMMA PutFailsKeeps ==
  ASSUME PublicationInv, NEW j \in Jobs, PutFails(j)
  PROVE  PublicationInv'
<1>1. Shapes /\ TypeOK /\ JobsInStep /\ SnapInStep /\ ManifestInStep /\ RemoteInStep
  BY DEF PublicationInv
<1>2. /\ job[j] # None /\ job[j].pc \in {"rart", "rman", "rsig"} /\ faults' = faults + 1
      /\ UNCHANGED << source, agent, ops, uploads, snap, manifest, tmp, artifacts, remote,
                      remoteArtifacts, requireUpload, published, failed, overlapped, foreign,
                      retold >>
      /\ UNCHANGED << source, snap, manifest, tmp, artifacts, store, agent, published, foreign,
                      retold, ops, uploads, overlapped >>
  BY DEF PutFails, At, store, disk
<1>3. CASE requireUpload
  <2>1. FailedJob(j) /\ UNCHANGED acked
    BY <1>3 DEF PutFails
  <2>2. TypeOK' /\ JobsInStep' /\ SnapInStep' /\ ManifestInStep' /\ RemoteInStep'
    BY <1>2, <2>1, FailedJobKeeps
  <2>3. /\ job' \in [Jobs -> Publications \cup {None}] /\ state' \in {state, None}
        /\ refused' = (refused \/ j = "locked")
    BY <1>1, <1>2, <2>1, FailedJobMeans
  <2>4. Shapes'
    <3>1. refused' \in BOOLEAN
      BY <1>1, <2>3 DEF Shapes
    <3> QED BY <1>1, <1>2, <2>1, <2>3, <3>1 DEF Shapes
  <2> QED BY <2>2, <2>4 DEF PublicationInv
<1>4. CASE ~requireUpload
  <2>1. Done(j) /\ UNCHANGED << state, refused >>
    BY <1>4 DEF PutFails
  <2>2. JobsInStep' /\ SnapInStep' /\ ManifestInStep'
    BY <1>2, <2>1, DoneKeeps
  <2>3. /\ job' \in [Jobs -> Publications \cup {None}]
        /\ acked' = acked \/ acked' = job[j].of
        /\ At("locked", "rsig")' => At("locked", "rsig")
    BY <1>1, <1>2, <2>1, DoneMeans DEF At, Jobs
  <2>4. Shapes'
    <3>1. acked' \in Snapshots
      BY <1>1, <1>2, <2>3, JobTypes DEF Shapes
    <3> QED BY <1>1, <1>2, <2>1, <2>3, <3>1 DEF Shapes
  <2>5. TypeOK'
    BY <1>1, <1>2, <2>1 DEF TypeOK
  <2>6. RemoteInStep'
    BY <1>1, <1>2, <1>4, <2>1, <2>3 DEF RemoteInStep
  <2> QED BY <2>2, <2>4, <2>5, <2>6 DEF PublicationInv
<1> QED BY <1>3, <1>4

\* A failed write on the disk fails the publication, and is remembered.
LEMMA WriteFailsKeeps ==
  ASSUME PublicationInv, NEW j \in Jobs, WriteFails(j)
  PROVE  PublicationInv'
<1>1. Shapes
  BY DEF PublicationInv
<1>2. /\ job[j] # None /\ FailedJob(j) /\ failed' = TRUE /\ faults' \in {faults, faults + 1}
      /\ UNCHANGED << source, snap, manifest, tmp, artifacts, store, agent, acked, published,
                      foreign, retold, ops, uploads, overlapped >>
      /\ UNCHANGED << remote, remoteArtifacts, requireUpload >>
  BY DEF WriteFails, At, store, disk
<1>3. TypeOK' /\ JobsInStep' /\ SnapInStep' /\ ManifestInStep' /\ RemoteInStep'
  BY <1>2, FailedJobKeeps
<1>4. /\ job' \in [Jobs -> Publications \cup {None}] /\ state' \in {state, None}
      /\ refused' = (refused \/ j = "locked")
  BY <1>1, <1>2, FailedJobMeans DEF PublicationInv
<1>5. Shapes'
  <2>1. refused' \in BOOLEAN
    BY <1>1, <1>4 DEF Shapes
  <2> QED BY <1>1, <1>2, <1>4, <2>1 DEF Shapes
<1> QED BY <1>3, <1>5 DEF PublicationInv

(***************************************************************************)
(* What starts publications.                                               *)
(***************************************************************************)

\* A publication that starts.
LEMMA StartMeans ==
  ASSUME Shapes, NEW j \in Jobs, NEW kind \in Kinds, NEW s \in Snapshots, NEW pc \in Writes,
         Start(j, kind, s, pc)
  PROVE  /\ job' \in [Jobs -> Publications \cup {None}]
         /\ job'[j] # None /\ job'[j].kind = kind /\ job'[j].of = s /\ job'[j].pc = pc
         /\ \A i \in Jobs : i # j => job'[i] = job[i]
<1>1. PICK r : r = [kind |-> kind, of |-> s, pc |-> pc]
  OBVIOUS
<1>2. r \in Publications /\ r.kind = kind /\ r.of = s /\ r.pc = pc
  BY <1>1 DEF Publications
<1>3. job' = [job EXCEPT ![j] = r]
  BY <1>1 DEF Start
<1>4. r # None
  BY <1>2, JobTypes
<1> QED BY <1>2, <1>3, <1>4 DEF Shapes

\* A commit goes on from the state, and publishes what it has become.
LEMMA CommitKeeps ==
  ASSUME PublicationInv, Commit
  PROVE  PublicationInv'
<1>1. Shapes /\ TypeOK /\ JobsInStep /\ SnapInStep /\ ManifestInStep /\ RemoteInStep
  BY DEF PublicationInv
<1>2. /\ state # None /\ job["locked"] = None /\ ops' = ops + 1
      /\ source' = Append(state, ops') /\ state' = source'
      /\ Start("locked", "commit", source', "snap")
      /\ overlapped' = (overlapped \/ \E i \in Jobs \ {"locked"} : job[i] # None)
      /\ UNCHANGED << snap, manifest, tmp, artifacts, remote, remoteArtifacts, requireUpload,
                      agent, acked, published, failed, foreign, refused, retold, uploads,
                      faults >>
  BY DEF Commit, Up, Overlaps, store
<1>3. PICK s : s = Append(state, ops')
  OBVIOUS
<1>4. /\ state \in Snapshots /\ s \in Snapshots /\ s # <<>> /\ IsPrefix(state, s)
      /\ state = source /\ ops' \in Nat /\ s # None
  <2>1. state \in Snapshots /\ state = source
    BY <1>1, <1>2 DEF Shapes, TypeOK
  <2>2. ops' \in Nat
    BY <1>1, <1>2 DEF Shapes
  <2>3. s \in Snapshots /\ s # <<>> /\ IsPrefix(state, s)
    BY <1>3, <2>1, <2>2, AppendGoesOn
  <2> QED BY <1>1, <2>1, <2>2, <2>3, JobTypes
<1>5. source' = s /\ state' = s /\ Start("locked", "commit", s, "snap")
  BY <1>2, <1>3
<1>6. /\ job' \in [Jobs -> Publications \cup {None}]
      /\ job'["locked"] # None /\ job'["locked"].kind = "commit" /\ job'["locked"].of = s
      /\ job'["locked"].pc = "snap"
      /\ \A i \in Jobs : i # "locked" => job'[i] = job[i]
  BY <1>1, <1>4, <1>5, StartMeans DEF Jobs, Kinds, Writes
<1>7. Shapes'
  <2>1. overlapped' \in BOOLEAN
    BY <1>1, <1>2 DEF Shapes
  <2> QED BY <1>1, <1>2, <1>4, <1>5, <1>6, <2>1 DEF Shapes
<1>8. TypeOK'
  <2>1. ASSUME snap.body # None PROVE IsPrefix(snap.body, s)
    <3>1. snap.body \in Snapshots /\ IsPrefix(snap.body, state)
      BY <1>1, <1>4, <2>1 DEF TypeOK, Shapes, FilesOf
    <3> QED BY <1>4, <3>1, PrefixOfPrefix
  <2> QED BY <1>1, <1>2, <1>4, <1>5, <2>1 DEF TypeOK
<1>9. JobsInStep'
  BY <1>1, <1>2, <1>4, <1>5, <1>6 DEF JobsInStep, Jobs
<1>10. SnapInStep'
  BY <1>6 DEF SnapInStep, At
<1>11. ManifestInStep'
  <2>1. SUFFICES ASSUME ~failed, ~overlapped' PROVE ManifestInStep'
    BY <1>2 DEF ManifestInStep
  <2>2. job["free"] = None /\ ~overlapped
    BY <1>2, <2>1 DEF Jobs
  <2>3. Verifies(manifest)
    BY <1>1, <1>2, <2>1, <2>2 DEF ManifestInStep, Jobs
  <2> QED BY <1>2, <1>6, <2>2, <2>3 DEF ManifestInStep, At, Verifies, Jobs
<1>12. RemoteInStep'
  <2>1. ~At("locked", "rsig")'
    BY <1>6 DEF At
  <2>2. ASSUME ~foreign, requireUpload, ~retold PROVE IsPrefix(acked, s)
    <3>1. IsPrefix(acked, state) /\ acked \in Snapshots
      BY <1>1, <1>2, <1>4, <2>2 DEF RemoteInStep, Shapes
    <3> QED BY <1>4, <3>1, PrefixOfPrefix
  <2> QED BY <1>1, <1>2, <1>4, <1>5, <1>6, <2>1, <2>2 DEF RemoteInStep
<1> QED BY <1>7, <1>8, <1>9, <1>10, <1>11, <1>12 DEF PublicationInv

\* A retry of a mutation that the node has, answered as a duplicate: where no publication
\* has failed since the last that went through, the object store has all of the state.
LEMMA RetryKeeps ==
  ASSUME PublicationInv, Retry
  PROVE  PublicationInv'
<1>1. Shapes /\ TypeOK /\ JobsInStep /\ SnapInStep /\ ManifestInStep /\ RemoteInStep
  BY DEF PublicationInv
<1>2. /\ state # None /\ job["locked"] = None /\ retold' = (retold \/ refused)
      /\ UNCHANGED << source, snap, manifest, tmp, artifacts, remote, remoteArtifacts,
                      requireUpload, state, job, agent, published, failed, overlapped, foreign,
                      refused, ops, uploads, faults >>
  BY DEF Retry, Up, store, disk
<1>3. PICK k \in Len(acked) + 1 .. Len(state) : acked' = SubSeq(state, 1, k)
  BY DEF Retry
<1>4. state \in Snapshots /\ state = source /\ acked \in Snapshots
  BY <1>1, <1>2 DEF Shapes, TypeOK
<1>5. k \in 1 .. Len(state)
  <2>1. Len(acked) \in Nat /\ Len(state) \in Nat
    BY <1>4 DEF Snapshots
  <2> QED BY <2>1
<1>6. acked' \in Snapshots /\ IsPrefix(acked', state)
  BY <1>3, <1>4, <1>5, HeadIsPrefix
<1>7. Shapes'
  <2>1. retold' \in BOOLEAN
    BY <1>1, <1>2 DEF Shapes
  <2> QED BY <1>1, <1>2, <1>6, <2>1 DEF Shapes
<1>8. TypeOK' /\ JobsInStep'
  BY <1>1, <1>2 DEF TypeOK, JobsInStep, Quiet
<1>9. SnapInStep'
  BY <1>1, <1>2 DEF SnapInStep, At, Signed
<1>10. ManifestInStep'
  BY <1>1, <1>2 DEF ManifestInStep, At, Verifies, ManifestOf
<1>11. RemoteInStep'
  <2>1. ASSUME ~foreign, requireUpload, ~retold'
        PROVE  remote.body # None /\ IsPrefix(acked', remote.body.of) /\ IsPrefix(acked', source)
    <3>1. ~refused
      BY <1>2, <2>1
    <3>2. remote.body # None /\ remote.body.of = state
      BY <1>1, <1>2, <2>1, <3>1 DEF RemoteInStep
    <3> QED BY <1>4, <1>6, <3>2
  <2> QED BY <1>1, <1>2, <2>1 DEF RemoteInStep, At
<1> QED BY <1>7, <1>8, <1>9, <1>10, <1>11 DEF PublicationInv

\* An upload, or the end of a rollback, begins with its artifact.
LEMMA PublishesKeeps ==
  ASSUME PublicationInv, NEW kind \in {"upload", "rollback"}, NEW s \in Snapshots,
         Publishes(kind, s)
  PROVE  PublicationInv'
<1>1. Shapes /\ TypeOK /\ JobsInStep /\ SnapInStep /\ ManifestInStep /\ RemoteInStep
  BY DEF PublicationInv
<1>2. /\ state # None /\ job["free"] = None /\ uploads' = uploads + 1
      /\ Start("free", kind, s, "art")
      /\ overlapped' = (overlapped \/ \E i \in Jobs \ {"free"} : job[i] # None)
      /\ UNCHANGED << source, snap, manifest, tmp, artifacts, remote, remoteArtifacts,
                      requireUpload, state, agent, acked, published, failed, foreign, refused,
                      retold, ops, faults >>
  BY DEF Publishes, Up, Overlaps, store, disk
<1>3. /\ job' \in [Jobs -> Publications \cup {None}]
      /\ job'["free"] # None /\ job'["free"].kind = kind /\ job'["free"].pc = "art"
      /\ \A i \in Jobs : i # "free" => job'[i] = job[i]
  <2>1. "free" \in Jobs /\ kind \in Kinds /\ "art" \in Writes
    BY DEF Jobs, Kinds, Writes
  <2> QED BY <1>1, <1>2, <2>1, StartMeans
<1>4. Shapes'
  <2>1. overlapped' \in BOOLEAN
    BY <1>1, <1>2 DEF Shapes
  <2> QED BY <1>1, <1>2, <1>3, <2>1 DEF Shapes
<1>5. TypeOK'
  BY <1>1, <1>2 DEF TypeOK
<1>6. JobsInStep'
  BY <1>1, <1>2, <1>3 DEF JobsInStep, Jobs
<1>7. SnapInStep'
  BY <1>1, <1>2, <1>3 DEF SnapInStep, At, Jobs
<1>8. ManifestInStep'
  <2>1. SUFFICES ASSUME ~failed, ~overlapped' PROVE ManifestInStep'
    BY <1>2 DEF ManifestInStep
  <2>2. job["locked"] = None /\ ~overlapped
    BY <1>2, <2>1 DEF Jobs
  <2>3. Verifies(manifest)
    BY <1>1, <1>2, <2>1, <2>2 DEF ManifestInStep, Jobs
  <2> QED BY <1>2, <1>3, <2>2, <2>3 DEF ManifestInStep, At, Verifies, Jobs
<1>9. RemoteInStep'
  BY <1>1, <1>2, <1>3 DEF RemoteInStep, At, Jobs
<1> QED BY <1>4, <1>5, <1>6, <1>7, <1>8, <1>9 DEF PublicationInv

(***************************************************************************)
(* Crashes, losses and starts.                                             *)
(***************************************************************************)

\* What is left when the process has stopped.
LEMMA StopsKeeps ==
  ASSUME PublicationInv, Crash \/ LoseDisk
  PROVE  PublicationInv'
<1>1. Shapes /\ TypeOK /\ JobsInStep /\ SnapInStep /\ ManifestInStep /\ RemoteInStep
  BY DEF PublicationInv
<1>2. /\ state' = None /\ job' = [j \in Jobs |-> None] /\ faults' = faults + 1
      /\ UNCHANGED << remote, remoteArtifacts, requireUpload, agent, acked, published, failed,
                      overlapped, foreign, refused, retold, ops, uploads >>
      /\ \/ UNCHANGED << source, snap, manifest, tmp, artifacts >>
         \/ /\ source' = None /\ artifacts' = {}
            /\ snap' = [body |-> None, sig |-> None] /\ manifest' = [body |-> None, sig |-> None]
            /\ tmp' = [body |-> None, sig |-> None]
  BY DEF Crash, LoseDisk, Stops, store, history, disk, Signed
<1>3. Shapes'
  BY <1>1, <1>2 DEF Shapes, FilesOf
<1>4. TypeOK'
  BY <1>1, <1>2 DEF TypeOK
<1>5. JobsInStep' /\ SnapInStep' /\ ManifestInStep'
  BY <1>2 DEF JobsInStep, SnapInStep, ManifestInStep, Quiet, Jobs
<1>6. RemoteInStep'
  <2>1. ~At("locked", "rsig")'
    BY <1>2 DEF At, Jobs
  <2> QED BY <1>1, <1>2, <2>1 DEF RemoteInStep
<1> QED BY <1>3, <1>4, <1>5, <1>6 DEF PublicationInv

\* A start with a state that the object store agrees with: the startup snapshot is to be
\* written and published.
LEMMA StartsKeeps ==
  ASSUME PublicationInv, NEW s \in Snapshots, Starts(s), source' = s,
         snap' \in FilesOf(Snapshots), manifest' \in FilesOf(Manifests), tmp' = tmp,
         artifacts \subseteq artifacts', artifacts' \subseteq Snapshots,
         manifest'.body # None => manifest'.body.of \in artifacts',
         snap'.body # None => IsPrefix(snap'.body, s),
         ~foreign => /\ remote.body # None /\ remote.body.of # <<>> => s # <<>>
                     /\ requireUpload /\ ~retold => IsPrefix(acked, s)
  PROVE  PublicationInv'
<1>1. Shapes /\ TypeOK /\ JobsInStep /\ SnapInStep /\ ManifestInStep /\ RemoteInStep
  BY DEF PublicationInv
<1>2. /\ state' = s /\ failed' = FALSE /\ overlapped' = FALSE /\ refused' = FALSE
      /\ UNCHANGED << remote, remoteArtifacts, requireUpload, agent, acked, published, foreign,
                      retold, ops, uploads, faults >>
  BY DEF Starts, store
<1>3. PICK r : r = [kind |-> "startup", of |-> s, pc |-> "snap"]
  OBVIOUS
<1>4. r \in Publications /\ r.kind = "startup" /\ r.of = s /\ r.pc = "snap"
  BY <1>3 DEF Publications, Kinds, Writes
<1>5. job' = [j \in Jobs |-> IF j = "locked" THEN r ELSE None]
  BY <1>3 DEF Starts
<1>6. r # None /\ s # None
  BY <1>1, <1>4, JobTypes
<1>7. /\ job' \in [Jobs -> Publications \cup {None}]
      /\ job'["locked"] = r /\ job'["free"] = None
  BY <1>4, <1>5 DEF Jobs
<1>8. Shapes'
  BY <1>1, <1>2, <1>7 DEF Shapes
<1>9. TypeOK'
  BY <1>1, <1>2, <1>6 DEF TypeOK
<1>10. JobsInStep'
  BY <1>2, <1>4, <1>6, <1>7 DEF JobsInStep, Jobs
<1>11. SnapInStep'
  BY <1>4, <1>6, <1>7 DEF SnapInStep, At
<1>12. ManifestInStep'
  BY <1>4, <1>6, <1>7 DEF ManifestInStep, At, Jobs
<1>13. RemoteInStep'
  <2>1. ~At("locked", "rsig")' /\ job'["locked"] # None
    BY <1>4, <1>6, <1>7 DEF At
  <2> QED BY <1>1, <1>2, <2>1 DEF RemoteInStep
<1> QED BY <1>8, <1>9, <1>10, <1>11, <1>12, <1>13 DEF PublicationInv

\* A restart from the disk.
LEMMA RestartKeeps ==
  ASSUME PublicationInv, Restart
  PROVE  PublicationInv'
<1>1. Shapes /\ TypeOK /\ RemoteInStep
  BY DEF PublicationInv
<1>2. /\ source # None /\ Starts(source)
      /\ UNCHANGED << source, snap, manifest, tmp, artifacts >>
  BY DEF Restart, disk
<1>3. source \in Snapshots
  BY <1>1, <1>2 DEF Shapes
<1>4. /\ snap' \in FilesOf(Snapshots) /\ manifest' \in FilesOf(Manifests)
      /\ artifacts' \subseteq Snapshots /\ artifacts \subseteq artifacts'
  BY <1>1, <1>2 DEF Shapes
<1>5. /\ manifest'.body # None => manifest'.body.of \in artifacts'
      /\ snap'.body # None => IsPrefix(snap'.body, source)
  BY <1>1, <1>2 DEF TypeOK
<1>6. ~foreign => /\ remote.body # None /\ remote.body.of # <<>> => source # <<>>
                  /\ requireUpload /\ ~retold => IsPrefix(acked, source)
  BY <1>1, <1>2 DEF RemoteInStep
<1> QED BY <1>2, <1>3, <1>4, <1>5, <1>6, StartsKeeps

\* A restore from the object store: what was acknowledged is in it.
LEMMA RestoreKeeps ==
  ASSUME PublicationInv, Restore
  PROVE  PublicationInv'
<1>1. Shapes /\ TypeOK /\ RemoteInStep
  BY DEF PublicationInv
<1>2. /\ remote.body # None /\ remote.body.of \in remoteArtifacts
      /\ Starts(remote.body.of)
      /\ artifacts' = artifacts \cup {remote.body.of}
      /\ manifest' = remote /\ source' = remote.body.of
      /\ snap' = [body |-> remote.body.of, sig |-> remote.body.of] /\ tmp' = tmp
  BY DEF Restore, Restorable, Signed
<1>3. PICK s : s = remote.body.of
  OBVIOUS
<1>4. s \in Snapshots /\ acked \in Snapshots
  BY <1>1, <1>2, <1>3 DEF Shapes
<1>5. /\ snap' \in FilesOf(Snapshots) /\ manifest' \in FilesOf(Manifests)
      /\ artifacts' \subseteq Snapshots /\ artifacts \subseteq artifacts'
  BY <1>1, <1>2, <1>3, <1>4 DEF Shapes, FilesOf
<1>6. /\ manifest'.body # None => manifest'.body.of \in artifacts'
      /\ snap'.body # None => IsPrefix(snap'.body, s)
  BY <1>2, <1>3, <1>4, PrefixOfItself
<1>7. ~foreign => /\ remote.body # None /\ remote.body.of # <<>> => s # <<>>
                  /\ requireUpload /\ ~retold => IsPrefix(acked, s)
  <2>1. IsPrefix(<<>>, s)
    BY <1>4, PrefixOfItself
  <2> QED BY <1>1, <1>3, <2>1 DEF RemoteInStep
<1>8. Starts(s) /\ source' = s /\ tmp' = tmp
  BY <1>2, <1>3
<1> QED BY <1>4, <1>5, <1>6, <1>7, <1>8, StartsKeeps

\* A restore that is cut short leaves no snapshot file.
LEMMA RestoreCrashesKeeps ==
  ASSUME PublicationInv, RestoreCrashes
  PROVE  PublicationInv'
<1>1. Shapes /\ TypeOK /\ JobsInStep /\ SnapInStep /\ ManifestInStep /\ RemoteInStep
  BY DEF PublicationInv
<1>2. /\ state = None /\ remote.body # None /\ faults' = faults + 1
      /\ artifacts' = artifacts \cup {remote.body.of}
      /\ manifest' \in {manifest, remote, [manifest EXCEPT !.body = remote.body]}
      /\ UNCHANGED << source, snap, tmp, remote, remoteArtifacts, requireUpload, state, job, agent,
                      acked, published, failed, overlapped, foreign, refused, retold, ops,
                      uploads >>
  BY DEF RestoreCrashes, Restorable, store, history
<1>3. /\ manifest' \in FilesOf(Manifests) /\ manifest'.body \in {manifest.body, remote.body}
      /\ remote.body.of \in Snapshots
  BY <1>1, <1>2 DEF Shapes, FilesOf, Manifests
<1>4. Shapes'
  BY <1>1, <1>2, <1>3 DEF Shapes
<1>5. TypeOK'
  BY <1>1, <1>2, <1>3 DEF TypeOK
<1>6. JobsInStep'
  BY <1>1, <1>2 DEF JobsInStep, Quiet
<1>7. SnapInStep' /\ ManifestInStep'
  BY <1>2 DEF SnapInStep, ManifestInStep
<1>8. RemoteInStep'
  BY <1>1, <1>2 DEF RemoteInStep, At
<1> QED BY <1>4, <1>5, <1>6, <1>7, <1>8 DEF PublicationInv

\* An empty start, with an empty object store: nothing was acknowledged.
LEMMA StartEmptyKeeps ==
  ASSUME PublicationInv, StartEmpty
  PROVE  PublicationInv'
<1>1. Shapes /\ TypeOK /\ RemoteInStep
  BY DEF PublicationInv
<1>2. /\ source = None /\ remote.body = None /\ Starts(<<>>) /\ source' = <<>>
      /\ UNCHANGED << snap, manifest, tmp, artifacts >>
  BY DEF StartEmpty
<1>3. <<>> \in Snapshots /\ IsPrefix(<<>>, <<>>)
  <2>1. <<>> \in Snapshots
    BY DEF Snapshots
  <2> QED BY <2>1, PrefixOfItself
<1>4. /\ snap' \in FilesOf(Snapshots) /\ manifest' \in FilesOf(Manifests)
      /\ artifacts' \subseteq Snapshots /\ artifacts \subseteq artifacts'
  BY <1>1, <1>2 DEF Shapes
<1>5. /\ manifest'.body # None => manifest'.body.of \in artifacts'
      /\ snap'.body = None
  BY <1>1, <1>2 DEF TypeOK
<1>6. ~foreign => /\ remote.body = None
                  /\ requireUpload /\ ~retold => IsPrefix(acked, <<>>)
  BY <1>1, <1>2, <1>3 DEF RemoteInStep
<1>7. tmp' = tmp
  BY <1>2
<1> QED BY <1>2, <1>3, <1>4, <1>5, <1>6, <1>7, StartsKeeps

(***************************************************************************)
(* The agent, and all steps together.                                      *)
(***************************************************************************)

\* What an agent takes changes nothing else.
LEMMA AgentOnly ==
  ASSUME PublicationInv, agent' \in Snapshots \cup {None},
         UNCHANGED << disk, store, state, job, acked, history, ops, uploads, faults >>
  PROVE  PublicationInv'
<1>1. Shapes /\ TypeOK /\ JobsInStep /\ SnapInStep /\ ManifestInStep /\ RemoteInStep
  BY DEF PublicationInv
<1>2. UNCHANGED << source, snap, manifest, tmp, artifacts, remote, remoteArtifacts, requireUpload,
                   state, job, acked, published, failed, overlapped, foreign, refused, retold,
                   ops, uploads, faults >>
  BY DEF disk, store, history
<1>3. Shapes'
  BY <1>1, <1>2 DEF Shapes
<1>4. TypeOK' /\ JobsInStep'
  BY <1>1, <1>2 DEF TypeOK, JobsInStep, Quiet
<1>5. SnapInStep'
  BY <1>1, <1>2 DEF SnapInStep, At, Signed
<1>6. ManifestInStep'
  BY <1>1, <1>2 DEF ManifestInStep, At, Verifies, ManifestOf
<1>7. RemoteInStep'
  BY <1>1, <1>2 DEF RemoteInStep, At
<1> QED BY <1>3, <1>4, <1>5, <1>6, <1>7 DEF PublicationInv

\* An agent bootstraps from a snapshot and goes on with mutations.
LEMMA AgentKeeps ==
  ASSUME PublicationInv, AgentBootstraps \/ AgentPolls
  PROVE  PublicationInv'
<1>1. Shapes
  BY DEF PublicationInv
<1>2. UNCHANGED << disk, store, state, job, acked, history, ops, uploads, faults >>
  BY DEF AgentBootstraps, AgentPolls
<1>3. CASE AgentBootstraps
  <2>1. agent' = Fetched
    BY <1>3 DEF AgentBootstraps
  <2>2. CASE Verifies(ServedManifest) /\ ServedManifest.body.of \in ServedArtifacts
    <3>1. agent' \in ServedArtifacts
      BY <2>1, <2>2 DEF Fetched
    <3> QED BY <1>1, <1>2, <3>1, AgentOnly DEF ServedArtifacts, Shapes
  <2>3. CASE ~(Verifies(ServedManifest) /\ ServedManifest.body.of \in ServedArtifacts)
    <3>1. agent' = ServedSnapshot.body \/ agent' = None
      BY <2>1, <2>3 DEF Fetched
    <3>2. ServedSnapshot.body = snap.body
      BY <1>1 DEF ServedSnapshot, Shapes, FilesOf
    <3>3. snap.body \in Snapshots \cup {None}
      BY <1>1 DEF Shapes, FilesOf
    <3> QED BY <1>2, <3>1, <3>2, <3>3, AgentOnly
  <2> QED BY <2>2, <2>3
<1>4. CASE AgentPolls
  <2>1. /\ state # None /\ agent # None /\ Len(state) > Len(agent)
        /\ agent' = agent \o SubSeq(state, Len(agent) + 1, Len(state))
    BY <1>4 DEF AgentPolls, Up
  <2>2. state \in Seq(Nat) /\ agent \in Seq(Nat)
    BY <1>1, <2>1 DEF Shapes, Snapshots
  <2>3. Len(agent) + 1 \in 1 .. Len(state) + 1 /\ Len(state) \in Nat
    BY <2>1, <2>2
  <2>4. SubSeq(state, Len(agent) + 1, Len(state)) \in Seq(Nat)
    BY <2>2, <2>3
  <2>5. agent' \in Snapshots
    BY <2>1, <2>2, <2>4 DEF Snapshots
  <2> QED BY <1>2, <2>5, AgentOnly
<1> QED BY <1>3, <1>4

\* Every step keeps disk, object store and what was acknowledged in line.
LEMMA NextPublicationInv ==
  ASSUME PublicationInv, [Next]_vars
  PROVE  PublicationInv'
<1>1. ASSUME NEW j \in Jobs,
             \/ WriteSnapshot(j) \/ WriteArtifact(j) \/ WriteTmp(j) \/ RenameTmp(j)
             \/ PutArtifact(j) \/ PutManifest(j) \/ PutFails(j) \/ WriteFails(j)
      PROVE  PublicationInv'
  BY <1>1, WriteSnapshotKeeps, WriteArtifactKeeps, WriteTmpKeeps, RenameTmpKeeps,
     PutArtifactKeeps, PutManifestKeeps, PutFailsKeeps, WriteFailsKeeps
<1>2. CASE Commit \/ Retry
  BY <1>2, CommitKeeps, RetryKeeps
<1>3. CASE Upload
  BY <1>3, PublishesKeeps, PublicationAssumption DEF Upload, Snapshots
<1>4. CASE RollbackArchives
  <2>1. Publishes("rollback", state) /\ state # None
    BY <1>4 DEF RollbackArchives, Publishes, Up
  <2>2. state \in Snapshots
    BY <2>1 DEF PublicationInv, Shapes
  <2> QED BY <2>1, <2>2, PublishesKeeps
<1>5. CASE Crash \/ LoseDisk
  BY <1>5, StopsKeeps
<1>6. CASE Restart
  BY <1>6, RestartKeeps
<1>7. CASE Restore
  BY <1>7, RestoreKeeps
<1>8. CASE RestoreCrashes
  BY <1>8, RestoreCrashesKeeps
<1>9. CASE StartEmpty
  BY <1>9, StartEmptyKeeps
<1>10. CASE AgentBootstraps \/ AgentPolls
  BY <1>10, AgentKeeps
<1>11. CASE UNCHANGED vars
  <2>1. agent' \in Snapshots \cup {None}
    BY <1>11 DEF PublicationInv, Shapes, vars
  <2> QED BY <1>11, <2>1, AgentOnly DEF vars
<1> QED BY <1>1, <1>2, <1>3, <1>4, <1>5, <1>6, <1>7, <1>8, <1>9, <1>10, <1>11 DEF Next, JobNext

\* Nothing is written, and nothing acknowledged.
LEMMA InitPublicationInv == Init => PublicationInv
<1> SUFFICES ASSUME Init PROVE PublicationInv
  OBVIOUS
<1>1. <<>> \in Snapshots
  BY DEF Snapshots
<1>2. Shapes
  <2>1. Signed(None) \in FilesOf(Snapshots) /\ Signed(None) \in FilesOf(Manifests)
    BY DEF Signed, FilesOf
  <2>2. job \in [Jobs -> Publications \cup {None}]
    BY DEF Init
  <2>3. {requireUpload, published, failed, overlapped, foreign, refused, retold} \subseteq BOOLEAN
    BY DEF Init
  <2>4. {source, state, agent} \subseteq {None} /\ acked = <<>> /\ {ops, uploads, faults} = {0}
    BY DEF Init
  <2>5. /\ snap = Signed(None) /\ {manifest, tmp, remote} = {Signed(None)}
        /\ artifacts \cup remoteArtifacts = {}
    BY DEF Init
  <2>6. snap \in FilesOf(Snapshots) /\ {manifest, tmp, remote} \subseteq FilesOf(Manifests)
    BY <2>1, <2>5
  <2>7. acked \in Snapshots /\ {ops, uploads, faults} \subseteq Nat
    BY <1>1, <2>4
  <2>8. /\ {source, state, agent} \subseteq Snapshots \cup {None}
        /\ artifacts \cup remoteArtifacts \subseteq Snapshots
    BY <2>4, <2>5
  <2> QED BY <2>2, <2>3, <2>6, <2>7, <2>8 DEF Shapes
<1>3. TypeOK
  BY DEF Init, TypeOK, Signed
<1>4. JobsInStep /\ SnapInStep /\ ManifestInStep
  BY DEF Init, JobsInStep, SnapInStep, ManifestInStep, Quiet, Jobs
<1>5. RemoteInStep
  BY DEF Init, RemoteInStep, At, Jobs, Signed
<1> QED BY <1>2, <1>3, <1>4, <1>5 DEF PublicationInv

(***************************************************************************)
(* The theorems.                                                           *)
(***************************************************************************)

\* Whatever two writers do to the files of a node and to its object store between two
\* of their writes, and wherever crashes, failed writes and losses of the disk fall,
\* manifests name artifacts that are there, and where uploads are required the store has
\* what clients were told, but for a retry answered after a publication had failed
\* (storage.rs, object_store.rs:302, object_store.rs:394, commit.rs:189).
THEOREM PublicationInvariant == Spec => []PublicationInv
<1>1. PublicationInv /\ [Next]_vars => PublicationInv'
  BY NextPublicationInv
<1> QED BY <1>1, InitPublicationInv, PTL DEF Spec

\* The manifest on the disk never names an artifact that is not there, and the snapshot
\* file is of something that the node's state was (storage.rs).
THEOREM ManifestsNameArtifacts == Spec => []TypeOK
<1>1. PublicationInv => TypeOK
  BY DEF PublicationInv
<1> QED BY <1>1, PublicationInvariant, PTL

\* When nothing is being written and no write has failed since the start, the node
\* serves its state, signed (routes.rs:433).
THEOREM QuietNodeServes == Spec => []QuietServes
<1>1. ASSUME PublicationInv, Quiet, state # None, ~failed
      PROVE  snap = Signed(state) /\ (~overlapped => Verifies(manifest))
  <2>1. job["locked"] = None /\ job["free"] = None
    BY <1>1 DEF Quiet, Jobs
  <2>2. snap = Signed(state)
    BY <1>1, <2>1 DEF PublicationInv, SnapInStep, At
  <2>3. ~overlapped => Verifies(manifest)
    BY <1>1, <2>1 DEF PublicationInv, ManifestInStep, Jobs
  <2> QED BY <2>2, <2>3
<1>2. PublicationInv => QuietServes
  BY <1>1 DEF QuietServes
<1> QED BY <1>2, PublicationInvariant, PTL

\* After the first publication a node that loses its disk can be restored at any
\* moment, between any two puts (object_store.rs:302).
THEOREM AlwaysRestorable == Spec => []RemoteRestorable
<1>1. PublicationInv => RemoteRestorable
  BY DEF PublicationInv, RemoteInStep, RemoteRestorable, Restorable
<1> QED BY <1>1, PublicationInvariant, PTL

\* With REQUIRE_UPLOAD what a client was told by a commit or by a retry survives the loss
\* of the disk, as long as no retry was answered between a publication that failed and
\* the next that went through (object_store.rs:394, commit.rs:189).
THEOREM AcknowledgedIsRemote == Spec => []AckedIsRemote
<1>1. PublicationInv => AckedIsRemote
  BY DEF PublicationInv, RemoteInStep, AckedIsRemote
<1> QED BY <1>1, PublicationInvariant, PTL

\* An agent that holds only what was acknowledged agrees with its node after any
\* restore, under the same condition (object_store.rs:305).
THEOREM AgentsGoOn == Spec => []AgentsFollowRestore
<1>1. ASSUME PublicationInv, requireUpload, ~foreign, ~retold, agent # None, state # None,
             IsPrefix(agent, acked)
      PROVE  IsPrefix(agent, state)
  <2>1. state = source /\ source \in Snapshots /\ agent \in Snapshots /\ acked \in Snapshots
    BY <1>1 DEF PublicationInv, TypeOK, Shapes
  <2>2. IsPrefix(acked, source)
    BY <1>1, <2>1 DEF PublicationInv, RemoteInStep
  <2> QED BY <1>1, <2>1, <2>2, PrefixOfPrefix
<1>2. PublicationInv => AgentsFollowRestore
  BY <1>1 DEF AgentsFollowRestore
<1> QED BY <1>2, PublicationInvariant, PTL

\* Only a put of a manifest changes the one in the object store.
LEMMA OnlyPutsChangeRemote ==
  ASSUME [Next]_vars
  PROVE  remote' = remote \/ \E j \in Jobs : PutManifest(j)
<1>1. ASSUME NEW j \in Jobs,
             \/ WriteSnapshot(j) \/ WriteArtifact(j) \/ WriteTmp(j) \/ RenameTmp(j)
             \/ PutArtifact(j) \/ PutFails(j) \/ WriteFails(j)
      PROVE  remote' = remote
  BY <1>1 DEF WriteSnapshot, WriteArtifact, WriteTmp, RenameTmp, PutArtifact, PutFails,
              WriteFails, store
<1>2. ASSUME \/ Commit \/ Retry \/ Upload \/ RollbackArchives \/ Crash \/ LoseDisk \/ Restart \/ Restore
             \/ RestoreCrashes \/ StartEmpty \/ AgentBootstraps \/ AgentPolls \/ UNCHANGED vars
      PROVE  remote' = remote
  BY <1>2 DEF Commit, Retry, Upload, RollbackArchives, Publishes, Crash, LoseDisk, Stops, Restart,
              Restore, Starts, RestoreCrashes, StartEmpty, AgentBootstraps, AgentPolls, store, vars
<1> QED BY <1>1, <1>2 DEF Next, JobNext

\* A populated object store is never overwritten with an empty snapshot, but by a
\* rollback that read the state while it was empty (object_store.rs:302).
THEOREM NeverPublishesEmpty == Spec => NeverEmptied
<1>1. ASSUME PublicationInv, [Next]_vars, remote.body # None, remote.body.of # <<>>, ~foreign'
      PROVE  remote'.body.of # <<>>
  <2>1. CASE remote' = remote
    BY <1>1, <2>1
  <2>2. ASSUME NEW j \in Jobs, PutManifest(j) PROVE remote'.body.of # <<>>
    <3>1. Shapes /\ TypeOK /\ JobsInStep /\ RemoteInStep
      BY <1>1 DEF PublicationInv
    <3>2. CASE At(j, "rsig")
      <4>1. remote' = [remote EXCEPT !.sig = ManifestOf(j)]
        BY <2>2, <3>2 DEF PutManifest, At
      <4>2. remote'.body = remote.body
        BY <3>1, <4>1 DEF Shapes, FilesOf
      <4> QED BY <1>1, <4>2
    <3>3. CASE At(j, "rman")
      <4>1. /\ job[j] # None /\ remote' = [remote EXCEPT !.body = ManifestOf(j)]
            /\ foreign' = (foreign \/ j = "free")
        BY <2>2, <3>3 DEF PutManifest, At
      <4>2. remote'.body = ManifestOf(j) /\ ManifestOf(j).of = job[j].of
        BY <3>1, <4>1, JobTypes DEF Shapes, FilesOf
      <4>3. j = "locked" /\ ~foreign
        BY <1>1, <4>1 DEF Jobs
      <4>4. job[j].of = source /\ source # None
        BY <3>1, <4>1, <4>3 DEF JobsInStep, TypeOK, Quiet, Jobs
      <4> QED BY <1>1, <3>1, <4>2, <4>3, <4>4 DEF RemoteInStep
    <3> QED BY <2>2, <3>2, <3>3 DEF PutManifest
  <2> QED BY <1>1, <2>1, <2>2, OnlyPutsChangeRemote
<1>2. PublicationInv /\ [Next]_vars =>
        [ remote.body # None /\ remote.body.of # <<>> =>
            remote'.body.of # <<>> \/ foreign' ]_vars
  BY <1>1
<1> QED BY <1>2, PublicationInvariant, PTL DEF Spec, NeverEmptied
=============================================================================
