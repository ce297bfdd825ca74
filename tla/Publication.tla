---------------------------- MODULE Publication ----------------------------
(***************************************************************************)
(* How a commitd node publishes its snapshots: the signed snapshot file,   *)
(* the manifest that names an immutable artifact, both on its disk and in  *)
(* the object store; what uploads and rollbacks publish meanwhile; what a  *)
(* node that lost its disk restores; and an agent that follows the node.   *)
(*                                                                         *)
(* A snapshot stands for the mutations it is made of, in order, so its     *)
(* length is its watermark.  Artifacts are named by their hash and never   *)
(* deleted.  Manifests of one snapshot written at different times differ.  *)
(* A signature is of the one payload it was made for.                      *)
(*                                                                         *)
(* A commit publishes under the state mutex, an upload and the end of a    *)
(* rollback without it, and all write a file by way of the same temporary  *)
(* name.  Two of these writers at once are modelled, one with the mutex    *)
(* and one without.  One node and one shard.                               *)
(***************************************************************************)
EXTENDS Naturals, Sequences

CONSTANTS
    None,
    AllowEmptyBootstrap,  \* GLOBACL_OBJECT_STORE_ALLOW_EMPTY_BOOTSTRAP
    Uploads,              \* snapshots that operators upload
    MaxOps,               \* bound: mutations committed
    MaxUploads,           \* bound: uploads and rollbacks
    MaxFaults             \* bound: crashes, losses of the disk and failed writes

ASSUME PublicationAssumption ==
    /\ AllowEmptyBootstrap \in BOOLEAN
    /\ Uploads \subseteq Seq(Nat)
    /\ {MaxOps, MaxUploads, MaxFaults} \subseteq Nat

\* A snapshot, a manifest and a publication under way; none of them is None.
Snapshots == Seq(Nat)
Kinds == {"startup", "recompact", "commit", "archive", "compact", "upload", "rollback"}
Manifests == [of : Snapshots, kind : Kinds]
Writes == {"snap", "snapsig", "art", "man", "manmv", "sig", "sigmv", "rart", "rman", "rsig"}
Publications == [kind : Kinds, of : Snapshots, pc : Writes]

ASSUME NoneAssumption == None \notin Snapshots \cup Manifests \cup Publications

VARIABLES
    \* The disk; source is what logs and snapshot file add up to (module Storage),
    \* forgotten how many of its mutations are without an op_id since a restore.
    source, forgotten, snap, manifest, tmp, artifacts,
    \* The object store, and GLOBACL_OBJECT_STORE_REQUIRE_UPLOAD.
    remote, remoteArtifacts, requireUpload,
    \* The process: memory, and the publication with the mutex and that without.
    state, job,
    \* The agent's state, and what clients were told is committed.
    agent, acked,
    \* History: a publication reached the object store; since the start a write
    \* failed, publications overlapped; an upload or a rollback published; the last
    \* publication under the mutex failed; a client was then told of a duplicate.
    published, failed, overlapped, foreign, refused, retold,
    ops, uploads, faults

disk == << source, forgotten, snap, manifest, tmp, artifacts >>
store == << remote, remoteArtifacts, requireUpload >>
history == << published, failed, overlapped, foreign, refused, retold >>
vars == << disk, store, state, job, agent, acked, history, ops, uploads, faults >>

Signed(p) == [body |-> p, sig |-> p]
Verifies(f) == f.body # None /\ f.sig = f.body
Manifest(s, kind) == [of |-> s, kind |-> kind]
Jobs == {"locked", "free"}
Quiet == job = [j \in Jobs |-> None]
Start(j, kind, s, pc) == job' = [job EXCEPT ![j] = [kind |-> kind, of |-> s, pc |-> pc]]
IsPrefix(s, t) == Len(s) <= Len(t) /\ s = SubSeq(t, 1, Len(s))

-----------------------------------------------------------------------------
(***************************************************************************)
(* One publication, write by write                                         *)
(***************************************************************************)

At(j, pc) == job[j] # None /\ job[j].pc = pc
Next1(j, pc) == job' = [job EXCEPT ![j].pc = pc]
OthersStay == UNCHANGED << state, source, forgotten, agent, ops, uploads >>

\* The next publication of the same request: a commit publishes its snapshot as the
\* latest and as an archived one, and once more when it compacts the logs; a start
\* publishes it, and once more when it compacts them.
Follows(kind) ==
    CASE kind = "commit"  -> { [kind |-> "archive", pc |-> "art"] }
      [] kind = "archive" -> { [kind |-> "compact", pc |-> "snap"] }
      [] kind = "startup" -> { [kind |-> "recompact", pc |-> "snap"] }
      [] OTHER            -> {}

\* A publication has ended: the next one, or the answer of the commit.
Done(j) ==
    \/ \E next \in Follows(job[j].kind) :
          /\ job' = [job EXCEPT ![j].kind = next.kind, ![j].pc = next.pc]
          /\ UNCHANGED acked
    \/ /\ job[j].kind # "commit"
       /\ job' = [job EXCEPT ![j] = None]
       /\ acked' = IF job[j].kind \in {"archive", "compact"} THEN job[j].of ELSE acked

\* Slip: a signature that is there is kept.
WriteSnapshotOnce(j) ==
    /\ \/ At(j, "snap") /\ snap' = [snap EXCEPT !.body = job[j].of] /\ Next1(j, "snapsig")
       \/ /\ At(j, "snapsig") /\ Next1(j, "art")
          /\ snap' = IF snap.sig = None THEN [snap EXCEPT !.sig = job[j].of] ELSE snap
    /\ OthersStay
    /\ UNCHANGED << manifest, tmp, artifacts, store, acked, history, faults >>

\* write_signed_snapshot_file of snapshots/latest.gacl.
WriteSnapshot(j) ==
    /\ \/ At(j, "snap") /\ snap' = [snap EXCEPT !.body = job[j].of] /\ Next1(j, "snapsig")
       \/ At(j, "snapsig") /\ snap' = [snap EXCEPT !.sig = job[j].of] /\ Next1(j, "art")
    /\ OthersStay
    /\ UNCHANGED << manifest, tmp, artifacts, store, acked, history, faults >>

\* Slip: the artifact of the mutations before is taken for this one.
WriteArtifactNot(j) ==
    /\ At(j, "art")
    /\ artifacts' = IF artifacts = {} THEN {job[j].of} ELSE artifacts
    /\ Next1(j, "man")
    /\ OthersStay /\ UNCHANGED << snap, manifest, tmp, store, acked, history, faults >>

\* The artifact and its signature.
WriteArtifact(j) ==
    /\ At(j, "art")
    /\ artifacts' = artifacts \cup {job[j].of}
    /\ Next1(j, "man")
    /\ OthersStay /\ UNCHANGED << snap, manifest, tmp, store, acked, history, faults >>

ManifestOf(j) == Manifest(job[j].of, job[j].kind)

\* write_payload_file of latest.manifest, and then of its signature: into the
\* temporary file, which is renamed.  (Of two writers that write it at once, one is
\* taken to write all of it before the other.)
WriteTmp(j) == \E f \in {"body", "sig"} :
    /\ At(j, IF f = "body" THEN "man" ELSE "sig")
    /\ tmp' = [tmp EXCEPT ![f] = ManifestOf(j)]
    /\ Next1(j, IF f = "body" THEN "manmv" ELSE "sigmv")
    /\ OthersStay /\ UNCHANGED << snap, manifest, artifacts, store, acked, history, faults >>

RenameTmp(j) == \E f \in {"body", "sig"} :
    /\ At(j, IF f = "body" THEN "manmv" ELSE "sigmv")
    /\ tmp[f] # None
    /\ manifest' = [manifest EXCEPT ![f] = tmp[f]]
    /\ tmp' = [tmp EXCEPT ![f] = None]
    /\ Next1(j, IF f = "body" THEN "sig" ELSE "rart")
    /\ OthersStay /\ UNCHANGED << snap, artifacts, store, acked, history, faults >>

\* publish_snapshot_to_object_store: the artifact with its signature, the latest
\* manifest, its signature.
PutArtifact(j) ==
    /\ At(j, "rart")
    /\ remoteArtifacts' = remoteArtifacts \cup {job[j].of}
    /\ Next1(j, "rman")
    /\ OthersStay /\ UNCHANGED << snap, manifest, tmp, artifacts, remote, requireUpload, acked,
                                history, faults >>

\* Slip: the manifest goes before the artifact it names.
PutManifestFirst(j) ==
    /\ \/ /\ At(j, "rart") /\ Next1(j, "rsig")
          /\ remote' = [remote EXCEPT !.body = ManifestOf(j)]
          /\ UNCHANGED << remoteArtifacts, acked, history >>
       \/ /\ At(j, "rsig") /\ Done(j)
          /\ remote' = [remote EXCEPT !.sig = ManifestOf(j)]
          /\ remoteArtifacts' = remoteArtifacts \cup {job[j].of}
          /\ published' = TRUE
          /\ foreign' = (foreign \/ j = "free")
          /\ refused' = (refused /\ j = "free")
          /\ UNCHANGED << failed, overlapped, retold >>
    /\ OthersStay /\ UNCHANGED << snap, manifest, tmp, artifacts, requireUpload, faults >>

PutManifest(j) ==
    /\ \/ /\ At(j, "rman") /\ Next1(j, "rsig")
          /\ remote' = [remote EXCEPT !.body = ManifestOf(j)]
          /\ foreign' = (foreign \/ j = "free")
          /\ UNCHANGED << published, acked, refused >>
       \/ /\ At(j, "rsig") /\ Done(j)
          /\ remote' = [remote EXCEPT !.sig = ManifestOf(j)]
          /\ published' = TRUE
          /\ refused' = (refused /\ j = "free")
          /\ UNCHANGED foreign
    /\ OthersStay
    /\ UNCHANGED << snap, manifest, tmp, artifacts, remoteArtifacts, requireUpload, failed,
                    overlapped, retold, faults >>

\* A failed startup ends the process, that of its compaction is only logged.  A commit
\* is answered with the error, and its mutation stays applied.
FailedJob(j) ==
    /\ IF job[j].kind = "startup"
       THEN job' = [i \in Jobs |-> None] /\ state' = None
       ELSE job' = [job EXCEPT ![j] = None] /\ UNCHANGED state
    /\ refused' = (refused \/ j = "locked")

\* Slip: a failed put is logged whatever the policy.
PutFailsLogged(j) ==
    /\ \E pc \in {"rart", "rman", "rsig"} : At(j, pc)
    /\ faults < MaxFaults /\ faults' = faults + 1
    /\ Done(j)
    /\ UNCHANGED << state, disk, store, agent, history, ops, uploads >>

\* publish_snapshot_to_object_store_best_effort: a failed put is only logged, or
\* is the failure of the publication.
PutFails(j) ==
    /\ \E pc \in {"rart", "rman", "rsig"} : At(j, pc)
    /\ faults < MaxFaults /\ faults' = faults + 1
    /\ IF requireUpload THEN FailedJob(j) /\ UNCHANGED acked
       ELSE Done(j) /\ UNCHANGED << state, refused >>
    /\ UNCHANGED << disk, store, agent, published, failed, overlapped, foreign, retold, ops,
                    uploads >>

\* A local write fails, or the rename when another writer took the file away.
WriteFails(j) ==
    /\ \/ /\ \E pc \in {"snap", "snapsig", "art", "man", "sig"} : At(j, pc)
          /\ faults < MaxFaults /\ faults' = faults + 1
       \/ At(j, "manmv") /\ tmp.body = None /\ UNCHANGED faults
       \/ At(j, "sigmv") /\ tmp.sig = None /\ UNCHANGED faults
    /\ FailedJob(j)
    /\ failed' = TRUE
    /\ UNCHANGED << disk, store, agent, acked, published, overlapped, foreign, retold, ops,
                    uploads >>

-----------------------------------------------------------------------------
(***************************************************************************)
(* Commits, uploads, rollbacks                                             *)
(***************************************************************************)

Overlaps(j) == overlapped' = (overlapped \/ \E i \in Jobs \ {j} : job[i] # None)
Up == state # None /\ ~(job["locked"] # None /\ job["locked"].kind \in {"startup", "recompact"})

\* The mutation is in the log and applied; the mutex is held until the answer.
Commit ==
    /\ Up /\ job["locked"] = None /\ ops < MaxOps
    /\ ops' = ops + 1
    /\ source' = Append(state, ops')
    /\ state' = source'
    /\ Start("locked", "commit", source', "snap")
    /\ Overlaps("locked")
    /\ UNCHANGED << forgotten, snap, manifest, tmp, artifacts, store, agent, acked, published,
                    failed, foreign, refused, retold, uploads, faults >>

\* A retry of a mutation that the node has is answered as a duplicate, also when its
\* own request was answered with an error.  Nothing is published for it.  (One that
\* tells clients no more than they know changes nothing.)
Retry ==
    /\ Up /\ job["locked"] = None
    /\ \E k \in Len(acked) + 1 .. Len(state) : k > forgotten /\ acked' = SubSeq(state, 1, k)
    /\ retold' = (retold \/ refused)
    /\ UNCHANGED << disk, store, state, job, agent, published, failed, overlapped, foreign,
                    refused, ops, uploads, faults >>

Publishes(kind, s) ==
    /\ Up /\ job["free"] = None /\ uploads < MaxUploads
    /\ uploads' = uploads + 1
    /\ Start("free", kind, s, "art")
    /\ Overlaps("free")
    /\ UNCHANGED << disk, store, state, agent, acked, published, failed, foreign, refused,
                    retold, ops, faults >>

\* POST /v1/snapshot: a snapshot from outside, published like the node's own.
Upload == \E s \in Uploads : Publishes("upload", s)

\* The end of POST /v1/rollback, its mutations committed: the state is read under
\* the mutex and published after it is released.
RollbackArchives == job["locked"] = None /\ Publishes("rollback", state)

-----------------------------------------------------------------------------
(***************************************************************************)
(* Crashes, losses and starts                                              *)
(***************************************************************************)

Stops ==
    /\ faults < MaxFaults /\ faults' = faults + 1
    /\ state' = None
    /\ job' = [j \in Jobs |-> None]
    /\ UNCHANGED << store, agent, acked, history, ops, uploads >>

Crash == state # None /\ Stops /\ UNCHANGED disk

LoseDisk ==
    /\ Stops
    /\ source' = None /\ forgotten' = 0
    /\ snap' = Signed(None) /\ manifest' = Signed(None) /\ tmp' = Signed(None)
    /\ artifacts' = {}

\* The startup snapshot is written and published before anything is served.
Starts(s) ==
    /\ state' = s
    /\ job' = [j \in Jobs |-> IF j = "locked"
                              THEN [kind |-> "startup", of |-> s, pc |-> "snap"] ELSE None]
    /\ failed' = FALSE /\ overlapped' = FALSE /\ refused' = FALSE
    /\ UNCHANGED << store, agent, acked, published, foreign, retold, ops, uploads, faults >>

\* Slip: a restart serves at once.
RestartServes ==
    /\ state = None /\ source # None
    /\ state' = source
    /\ failed' = FALSE /\ overlapped' = FALSE /\ refused' = FALSE
    /\ UNCHANGED << disk, store, job, agent, acked, published, foreign, retold, ops, uploads,
                    faults >>

Restart == state = None /\ source # None /\ Starts(source) /\ UNCHANGED disk

\* The three objects that restore_latest_snapshot_from_object_store asks for.
Restorable == remote.body # None /\ remote.body.of \in remoteArtifacts /\ remote.sig # None

\* It writes artifact, manifest and its signature, and the snapshot file last:
\* until that is there, a restart begins again.  (A crash before the signature of
\* the snapshot file is one after it: the next start writes both.)
Restore ==
    /\ state = None /\ source = None /\ Restorable
    /\ artifacts' = artifacts \cup {remote.body.of}
    /\ manifest' = remote
    /\ source' = remote.body.of /\ forgotten' = Len(remote.body.of)
    /\ snap' = Signed(remote.body.of)
    /\ UNCHANGED tmp
    /\ Starts(remote.body.of)

RestoreCrashes ==
    /\ state = None /\ source = None /\ Restorable
    /\ faults < MaxFaults /\ faults' = faults + 1
    /\ artifacts' = artifacts \cup {remote.body.of}
    /\ manifest' \in {manifest, remote, [manifest EXCEPT !.body = remote.body]}
    /\ UNCHANGED << source, forgotten, snap, tmp, store, state, job, agent, acked, history, ops,
                    uploads >>

\* Slip: where empty is allowed, nothing is restored.
StartEmptyAnyway ==
    /\ state = None /\ source = None /\ AllowEmptyBootstrap
    /\ Starts(<<>>)
    /\ source' = <<>>
    /\ UNCHANGED << forgotten, snap, manifest, tmp, artifacts >>

\* Without a remote manifest the node starts empty where that is allowed.
StartEmpty ==
    /\ state = None /\ source = None /\ remote.body = None /\ AllowEmptyBootstrap
    /\ Starts(<<>>)
    /\ source' = <<>>
    /\ UNCHANGED << forgotten, snap, manifest, tmp, artifacts >>

-----------------------------------------------------------------------------
(***************************************************************************)
(* The agent                                                               *)
(***************************************************************************)

\* What is not on disk is taken from the object store.
read_file_or_object_store(file, object) == IF file = None THEN object ELSE file

\* GET /v1/snapshot_manifest and its .sig, GET /v1/snapshot_artifact.
ServedManifest ==
    [f \in {"body", "sig"} |-> read_file_or_object_store(manifest[f], remote[f])]
ServedArtifacts == artifacts \cup remoteArtifacts

\* GET /v1/snapshot and its .sig; a snapshot file without signature is signed.
ServedSnapshot == [snap EXCEPT !.sig = IF @ = None THEN snap.body ELSE @]

\* fetch_snapshot: from the manifest and its artifact, where these verify, else
\* the snapshot file.  (A manifest, signature or artifact read at another moment
\* either is the one that belongs to the rest or fails the checks.)
Fetched ==
    IF Verifies(ServedManifest) /\ ServedManifest.body.of \in ServedArtifacts
    THEN ServedManifest.body.of
    ELSE IF Verifies(ServedSnapshot) THEN ServedSnapshot.body ELSE None

\* load_or_fetch_snapshot of an agent without a snapshot file.
AgentBootstraps ==
    /\ Up /\ agent = None /\ Fetched # None
    /\ agent' = Fetched
    /\ UNCHANGED << disk, store, state, job, acked, history, ops, uploads, faults >>

\* poll_once takes the mutations after its own watermark, when the source is ahead;
\* the mutations are read under the state mutex.
AgentPolls ==
    /\ Up /\ job["locked"] = None /\ agent # None
    /\ Len(state) > Len(agent)
    /\ agent' = agent \o SubSeq(state, Len(agent) + 1, Len(state))
    /\ UNCHANGED << disk, store, state, job, acked, history, ops, uploads, faults >>

-----------------------------------------------------------------------------
Init ==
    /\ source = None /\ forgotten = 0
    /\ snap = Signed(None) /\ manifest = Signed(None) /\ tmp = Signed(None)
    /\ artifacts = {}
    /\ remote = Signed(None) /\ remoteArtifacts = {} /\ requireUpload \in BOOLEAN
    /\ state = None /\ job = [j \in Jobs |-> None]
    /\ agent = None /\ acked = <<>>
    /\ published = FALSE /\ failed = FALSE /\ overlapped = FALSE /\ foreign = FALSE
    /\ refused = FALSE /\ retold = FALSE
    /\ ops = 0 /\ uploads = 0 /\ faults = 0

JobNext == \E j \in Jobs :
    \/ WriteSnapshot(j) \/ WriteArtifact(j) \/ WriteTmp(j) \/ RenameTmp(j)
    \/ PutArtifact(j) \/ PutManifest(j) \/ PutFails(j) \/ WriteFails(j)

Next ==
    \/ JobNext
    \/ Commit \/ Retry \/ Upload \/ RollbackArchives
    \/ Crash \/ LoseDisk \/ Restart \/ Restore \/ RestoreCrashes \/ StartEmpty
    \/ AgentBootstraps \/ AgentPolls

Spec == Init /\ [][Next]_vars

-----------------------------------------------------------------------------
(***************************************************************************)
(* Properties                                                              *)
(***************************************************************************)

\* The manifest on the node's disk never names an artifact that is not there, and the
\* snapshot file is only ever of something the node's state was.
TypeOK ==
    /\ manifest.body # None => manifest.body.of \in artifacts
    /\ tmp.body # None => tmp.body.of \in artifacts
    /\ state # None => state = source
    /\ snap.body # None => source # None /\ IsPrefix(snap.body, source)

\* When nothing is being written and no write has failed since the start, the
\* snapshot file is the node's state with its signature, whatever crash, restore,
\* upload or rollback came before, and the manifest has the signature that belongs
\* to it unless two publications overlapped.
QuietServes ==
    Quiet /\ state # None /\ ~failed =>
        /\ snap = Signed(state)
        /\ ~overlapped => Verifies(manifest)

\* Once a publication has reached the object store, a node that loses its disk
\* can be restored at any moment, between any two puts of any publication.
RemoteRestorable == published => Restorable

\* With REQUIRE_UPLOAD what a client was told is committed survives the loss of the
\* disk, whether its commit or a retry was answered, and whatever crash or restart
\* came between these, unless an upload or a rollback has published over it, or the
\* retry was answered after a publication had failed and before one went through.
AckedIsRemote ==
    requireUpload /\ ~foreign /\ ~retold /\ acked # <<>> =>
        remote.body # None /\ IsPrefix(acked, remote.body.of)

\* A node that starts never overwrites a populated object store with an empty
\* snapshot, whatever it lost and wherever a restore was cut short; only a rollback
\* can that read the state while it was still empty.
NeverEmptied ==
    [][ remote.body # None /\ remote.body.of # <<>> =>
            remote'.body.of # <<>> \/ foreign' ]_vars

\* With REQUIRE_UPLOAD an agent that holds only what clients were told is
\* committed agrees with its node, whichever of them lost its files, with the same
\* two exceptions: it can go on from its own watermark after any restore.
AgentsFollowRestore ==
    requireUpload /\ ~foreign /\ ~retold /\ agent # None /\ state # None
        /\ IsPrefix(agent, acked) => IsPrefix(agent, state)

\* What the files, the objects, the process and the agent hold.
FilesOf(S) == [body : S \cup {None}, sig : S \cup {None}]
Shapes ==
    /\ {source, state, agent} \subseteq Snapshots \cup {None}
    /\ snap \in FilesOf(Snapshots) /\ {manifest, tmp, remote} \subseteq FilesOf(Manifests)
    /\ artifacts \cup remoteArtifacts \subseteq Snapshots
    /\ job \in [Jobs -> Publications \cup {None}]
    /\ acked \in Snapshots
    /\ {requireUpload, published, failed, overlapped, foreign, refused, retold} \subseteq BOOLEAN
    /\ {ops, uploads, faults} \subseteq Nat

\* A publication under the mutex is of the node's state, one without it writes no
\* snapshot file, and either has the artifacts that its manifest names.
JobsInStep ==
    /\ state = None => Quiet
    /\ job["locked"] # None =>
          /\ job["locked"].of = state
          /\ job["locked"].kind \in {"startup", "recompact", "commit", "archive", "compact"}
    /\ job["free"] # None =>
          /\ job["free"].kind \in {"upload", "rollback"}
          /\ job["free"].pc \notin {"snap", "snapsig"}
    /\ \A j \in Jobs : job[j] # None =>
          /\ job[j].pc \notin {"snap", "snapsig", "art"} => job[j].of \in artifacts
          /\ job[j].pc \in {"rman", "rsig"} => job[j].of \in remoteArtifacts
          /\ job[j].pc = "rsig" => remote.body # None

\* The snapshot file between two publications under the mutex, and during one.
SnapInStep ==
    state # None /\ ~failed =>
        /\ At("locked", "snapsig") => snap.body = state
        /\ ~At("locked", "snap") /\ ~At("locked", "snapsig") => snap = Signed(state)

\* The manifest, while publications follow one another: a startup replaces it.
ManifestInStep ==
    state # None /\ ~failed /\ ~overlapped =>
        /\ \E j \in Jobs : job[j] = None
        /\ \A j \in Jobs :
              /\ At(j, "manmv") => tmp.body = ManifestOf(j)
              /\ At(j, "sig") \/ At(j, "sigmv") => manifest.body = ManifestOf(j)
              /\ At(j, "sigmv") => tmp.sig = ManifestOf(j)
        /\ \/ Verifies(manifest)
           \/ \E j \in Jobs :
                 /\ job[j] # None
                 /\ \/ job[j].pc \in {"sig", "sigmv"}
                    \/ /\ job[j].kind = "startup"
                       /\ job[j].pc \in {"snap", "snapsig", "art", "man", "manmv"}

\* The object store, and what the node's source has to do with it and with what
\* was acknowledged, as long as only the node itself has published: where uploads
\* are required and none has failed, a node that answers has all of its state there.
RemoteInStep ==
    /\ remote.body # None => remote.body.of \in remoteArtifacts
    /\ published => remote.body # None /\ remote.sig # None
    /\ ~foreign =>
          /\ At("locked", "rsig") => remote.body.of = state
          /\ remote.body # None /\ remote.body.of # <<>> /\ source # None => source # <<>>
          /\ requireUpload /\ state # None /\ job["locked"] = None /\ ~refused =>
                remote.body # None /\ remote.body.of = state
          /\ requireUpload /\ ~retold =>
                /\ acked # <<>> => remote.body # None /\ IsPrefix(acked, remote.body.of)
                /\ source # None => IsPrefix(acked, source)

\* The inductive invariant behind the properties of this module.
PublicationInv ==
    /\ Shapes /\ TypeOK
    /\ JobsInStep
    /\ SnapInStep
    /\ ManifestInStep
    /\ RemoteInStep
=============================================================================
