------------------------------- MODULE Backup -------------------------------
(***************************************************************************)
(* Online backup and offline restore (corium-transactor backup.rs,         *)
(* backup_info in node.rs) beside the live source: leaders that commit,    *)
(* lose their lease and are replaced, storage-key rotations, index         *)
(* publications and sweeps.                                                *)
(*                                                                         *)
(* A log record is its lease version, t, transaction and storage epoch.    *)
(* The metadata root is the t whose names it holds; a key manifest is for  *)
(* each epoch the t it opened at, the last one active; an index blob is    *)
(* the basis of its publication and its epoch.  An archive is its header's *)
(* root, its checkpoints, and whether a cut-short append left a torn tail. *)
(***************************************************************************)
EXTENDS Naturals, Sequences, FiniteSets, SequencesExt, FiniteSetsExt

CONSTANTS
  None,
  Deployments     \* bounds: transactions (t), leases, epochs, publications
                  \* (pubs), backups, restores, crashes, lives of the source

VARIABLES
  deploy,
  lease,          \* the lease version in the database's root
  srv,            \* per lease version: the leader's stage and basis
  log,            \* the records of all lease versions
  truth,          \* the transactions acknowledged, in order
  meta, manifest, \* the metadata root and the key manifest
  root, blobs,    \* the published index (its blob, or None), and the blob store
  archive,        \* the archive file, or None
  job,            \* the backup under way
  target,         \* the restore's target: log, keys, root, meta, blobs, and
                  \* whether an undo failed to remove its catalog entry (stuck)
  rjob,           \* the restore under way
  ids, lives, pubs, backups, restores, crashes

live == <<lease, srv, log, truth, meta, manifest, root, blobs, ids, lives, pubs>>
vars == <<deploy, live, archive, job, target, rjob, backups, restores, crashes>>

Idle == [pc |-> None]
NoLeader == [stage |-> "none", basis |-> 0]
Empty == [log |-> None, keys |-> None, root |-> None, meta |-> None, blobs |-> {},
          stuck |-> FALSE]
Bare == [basis |-> 0, blob |-> None]

\* The merged log: a record counts unless a higher version wrote at or below it.
Visible == {r \in log : \A s \in log : s.v > r.v => r.t < s.t}
ByT(R) == SetToSortSeq(R, LAMBDA a, b : a.t < b.t)

-----------------------------------------------------------------------------
(* The source *)

Init ==
  /\ deploy \in Deployments
  /\ lease = 1
  /\ srv = [v \in 1..deploy.leases |-> IF v = 1 THEN [stage |-> "serving", basis |-> 0]
                                                ELSE NoLeader]
  /\ log = {} /\ truth = <<>> /\ meta = 0 /\ manifest = <<0>>
  /\ root = Bare /\ blobs = {}
  /\ archive = None /\ job = Idle /\ target = Empty /\ rjob = Idle
  /\ ids = 0 /\ lives = 1 /\ pubs = 0 /\ backups = 0 /\ restores = 0 /\ crashes = 0

\* Under the commit lock: names durable, then the record, then the installed
\* value; the acknowledgement waits for the fence.
CommitAppend(v) ==
  /\ srv[v].stage = "serving" /\ ids < deploy.t
  /\ ids' = ids + 1
  /\ meta' = IF meta > srv[v].basis THEN meta ELSE srv[v].basis + 1
  /\ log' = log \cup {[v |-> v, t |-> srv[v].basis + 1, id |-> ids', epoch |-> Len(manifest)]}
  /\ srv' = [srv EXCEPT ![v] = [stage |-> "fencing", basis |-> @.basis + 1]]
  /\ UNCHANGED <<deploy, lease, truth, manifest, root, blobs, lives, pubs, archive, job, target,
                 rjob, backups, restores, crashes>>

Fence(v) ==
  /\ srv[v].stage = "fencing"
  /\ IF v = lease
     THEN /\ srv' = [srv EXCEPT ![v].stage = "serving"]
          /\ truth' = Append(truth, (CHOOSE r \in log : r.v = v /\ r.t = srv[v].basis).id)
     ELSE /\ srv' = [srv EXCEPT ![v].stage = "gone"]
          /\ UNCHANGED truth
  /\ UNCHANGED <<deploy, lease, log, meta, manifest, root, blobs, ids, lives, pubs, archive, job,
                 target, rjob, backups, restores, crashes>>

\* The next version takes the lease and replays what is visible.  What the
\* last leader appended before that and had yet to fence is replayed, so it
\* counts as committed.
TakeOver ==
  /\ lease < deploy.leases
  /\ lease' = lease + 1
  /\ LET replayed == ByT(Visible)
     IN  /\ srv' = [srv EXCEPT ![lease'] = [stage |-> "serving", basis |-> Len(replayed)]]
         /\ truth' = [i \in DOMAIN replayed |-> replayed[i].id]
  /\ UNCHANGED <<deploy, log, meta, manifest, root, blobs, ids, lives, pubs, archive, job, target,
                 rjob, backups, restores, crashes>>

\* A rotation opens the next epoch at the leader's basis.
Rotate ==
  /\ srv[lease].stage = "serving" /\ Len(manifest) < deploy.epochs
  /\ manifest' = Append(manifest, srv[lease].basis)
  /\ UNCHANGED <<deploy, lease, srv, log, truth, meta, root, blobs, ids, lives, pubs, archive, job,
                 target, rjob, backups, restores, crashes>>

\* An index publication, and the sweep that leaves only what the root names.
Publish ==
  /\ pubs < deploy.pubs /\ srv[lease].stage = "serving" /\ srv[lease].basis > root.basis
  /\ pubs' = pubs + 1
  /\ root' = [basis |-> srv[lease].basis, blob |-> <<srv[lease].basis, Len(manifest)>>]
  /\ blobs' = blobs \cup {root'.blob}
  /\ UNCHANGED <<deploy, lease, srv, log, truth, meta, manifest, ids, lives, archive, job, target,
                 rjob, backups, restores, crashes>>

Sweep ==
  /\ blobs \ {root.blob} # {}
  /\ blobs' = blobs \cap {root.blob}
  /\ UNCHANGED <<deploy, lease, srv, log, truth, meta, manifest, root, ids, lives, pubs, archive,
                 job, target, rjob, backups, restores, crashes>>

\* The database is deleted and another created under its name.
Recreate ==
  /\ lives < deploy.lives
  /\ lives' = lives + 1
  /\ lease' = 1
  /\ srv' = [v \in 1..deploy.leases |-> IF v = 1 THEN [stage |-> "serving", basis |-> 0]
                                                 ELSE NoLeader]
  /\ log' = {} /\ truth' = <<>> /\ meta' = 0 /\ manifest' = <<0>> /\ root' = Bare
  /\ UNCHANGED <<deploy, blobs, ids, pubs, archive, job, target, rjob, backups, restores, crashes>>

-----------------------------------------------------------------------------
(* The archive *)

\* Mutant: one run covers every frame.
encode_one_run(frames) ==
  IF frames = <<>> THEN <<>> ELSE <<[v |-> frames[1].v, n |-> Len(frames)]>>

\* The (version, count) runs covering the frames in order, and the versions
\* they give back.
encode_log_versions(frames) ==
  FoldLeft(LAMBDA runs, f :
             IF runs # <<>> /\ runs[Len(runs)].v = f.v
             THEN [runs EXCEPT ![Len(runs)].n = @ + 1]
             ELSE Append(runs, [v |-> f.v, n |-> 1]), <<>>, frames)

decode_log_versions(runs) ==
  FlattenSeq([i \in DOMAIN runs |-> [k \in 1..runs[i].n |-> runs[i].v]])

\* The frames are the sealed bytes: t, transaction and epoch, and the version
\* authenticated into them, which only the run table tells a reader.
encode_checkpoint(basis, frames, m, man) ==
  [basis |-> basis, meta |-> m, manifest |-> man, runs |-> encode_log_versions(frames),
   frames |-> frames]

restore_frames(c) ==
  LET versions == decode_log_versions(c.runs)
  IN  [i \in DOMAIN c.frames |-> [log_version |-> versions[i], frame |-> c.frames[i]]]

\* What a reader makes of the file: complete checkpoints only, the newest
\* one's basis, metadata and manifest, the frames of all.
Newest(a) == a.ckpts[Len(a.ckpts)]
Frames(a) == FlattenSeq([i \in DOMAIN a.ckpts |-> restore_frames(a.ckpts[i])])

\* The range is contiguous from start to end.
validate_frames(frames, start, end) ==
  /\ Len(frames) = end + 1 - start
  /\ \A i \in DOMAIN frames : frames[i].t = start + i - 1

-----------------------------------------------------------------------------
(* Backup *)

Serving(v) == srv[v].stage = "serving"

\* Mutant: the basis is read outside the commit lock and without the lease.
FixUnfenced(v) ==
  /\ job.pc = None /\ backups < deploy.backups /\ srv[v].stage \in {"serving", "fencing"}
  /\ backups' = backups + 1
  /\ job' = [pc |-> "manifest", basis |-> srv[v].basis]
  /\ UNCHANGED <<deploy, live, archive, target, rjob, restores, crashes>>

\* The one call to a transactor: under its commit lock, holding the lease.
backup_info(v) ==
  /\ job.pc = None /\ backups < deploy.backups
  /\ Serving(v) /\ v = lease
  /\ backups' = backups + 1
  /\ job' = [pc |-> "manifest", basis |-> srv[v].basis]
  /\ UNCHANGED <<deploy, live, archive, target, rjob, restores, crashes>>

\* The manifest, whose keys are unwrapped.
ReadManifest ==
  /\ job.pc = "manifest"
  /\ job' = [pc |-> "roots", basis |-> job.basis, manifest |-> manifest]
  /\ UNCHANGED <<deploy, live, archive, target, rjob, backups, restores, crashes>>

\* The database and metadata roots.  A snapshot ahead of the basis is left out.
ReadRoots ==
  /\ job.pc = "roots"
  /\ job' = [pc |-> "log", basis |-> job.basis, manifest |-> job.manifest, meta |-> meta,
             root |-> IF root.basis <= job.basis THEN root ELSE Bare]
  /\ UNCHANGED <<deploy, live, archive, target, rjob, backups, restores, crashes>>

\* The destination is read and checked, then the frames it lacks; a log that
\* does not hold them contiguously is an error.
ReadLog ==
  /\ job.pc = "log"
  /\ LET from == IF archive = None THEN 0 ELSE Newest(archive).basis
         frames == ByT({r \in Visible : r.t > from /\ r.t <= job.basis})
     IN  job' = IF from > job.basis \/ ~validate_frames(frames, from + 1, job.basis) THEN Idle
                ELSE [pc |-> IF archive = None THEN "create" ELSE "append",
                      basis |-> job.basis, manifest |-> job.manifest, meta |-> job.meta,
                      root |-> job.root, frames |-> frames]
  /\ UNCHANGED <<deploy, live, archive, target, rjob, backups, restores, crashes>>

\* A first archive is written beside its place and renamed into it.  A blob
\* that is gone, or sealed under an epoch later than the manifest read, ends
\* the run.
create_archive ==
  /\ job.pc = "create"
  /\ LET whole == job.root.blob # None =>
                    job.root.blob \in blobs /\ job.root.blob[2] <= Len(job.manifest)
     IN  archive' = IF whole
                    THEN [root |-> job.root, torn |-> FALSE,
                          ckpts |-> <<encode_checkpoint(job.basis, job.frames, job.meta,
                                                        job.manifest)>>]
                    ELSE archive
  /\ job' = Idle
  /\ UNCHANGED <<deploy, live, target, rjob, backups, restores, crashes>>

\* Mutant: the file is cut back to before its last checkpoint.
TruncateMore ==
  /\ job.pc = "append" /\ job.frames # <<>>
  /\ archive' = [archive EXCEPT !.torn = TRUE,
                                !.ckpts = IF Len(@) > 1 THEN Front(@) ELSE @]
  /\ job' = [job EXCEPT !.pc = "sync"]
  /\ UNCHANGED <<deploy, live, target, rjob, backups, restores, crashes>>

\* An incremental run with frames cuts the file back to its last complete
\* frame and begins to write after it.
append_archive_checkpoint ==
  /\ job.pc = "append" /\ job.frames # <<>>
  /\ archive' = [archive EXCEPT !.torn = TRUE]
  /\ job' = [job EXCEPT !.pc = "sync"]
  /\ UNCHANGED <<deploy, live, target, rjob, backups, restores, crashes>>

\* One without frames leaves the file alone.
AppendNothing ==
  /\ job.pc = "append" /\ job.frames = <<>>
  /\ job' = Idle
  /\ UNCHANGED <<deploy, live, archive, target, rjob, backups, restores, crashes>>

Sync ==
  /\ job.pc = "sync"
  /\ archive' = [archive EXCEPT !.torn = FALSE,
                   !.ckpts = Append(@, encode_checkpoint(job.basis, job.frames, job.meta,
                                                         job.manifest))]
  /\ job' = Idle
  /\ UNCHANGED <<deploy, live, target, rjob, backups, restores, crashes>>

-----------------------------------------------------------------------------
(* Restore *)

\* A frame opens against the version the run table names and the keys of the
\* newest manifest.
Opens(f, man) == f.log_version = f.frame.v /\ f.frame.epoch \in DOMAIN man

Absent == target.log = None /\ target.keys = None /\ target.root = None /\ target.meta = None

\* Every epoch's nonce budget reopens at t 0: the restored log is sealed under
\* the active epoch alone.
restored_manifest(man) == [e \in DOMAIN man |-> 0]

\* The archive is read and its records decoded; an existing target, a missing
\* key or a frame that does not open ends the run.  Otherwise what each part of
\* the target is to be is known.
restore ==
  /\ rjob.pc = None /\ archive # None /\ restores < deploy.restores
  /\ restores' = restores + 1
  /\ LET c == Newest(archive)
         frames == Frames(archive)
     IN  rjob' = IF Absent /\ \A i \in DOMAIN frames : Opens(frames[i], c.manifest)
                 THEN [pc |-> "blobs",
                       new |-> [log |-> [i \in DOMAIN frames |->
                                          [id |-> frames[i].frame.id, epoch |-> Len(c.manifest)]],
                                keys |-> restored_manifest(c.manifest),
                                root |-> archive.root, meta |-> c.meta]]
                 ELSE Idle
  /\ UNCHANGED <<deploy, live, archive, job, target, backups, crashes>>

copy_blobs ==
  /\ rjob.pc = "blobs"
  /\ target' = [target EXCEPT !.blobs = @ \cup ({rjob.new.root.blob} \ {None})]
  /\ rjob' = [rjob EXCEPT !.pc = "log"]
  /\ UNCHANGED <<deploy, live, archive, job, backups, restores, crashes>>

\* The log, the keys, the root, and last the catalog entry.
After(part) == CASE part = "log" -> "keys" [] part = "keys" -> "root"
                 [] part = "root" -> "meta" [] part = "meta" -> None

PublishPart ==
  /\ rjob.pc \in {"log", "keys", "root", "meta"}
  /\ target' = [target EXCEPT ![rjob.pc] = rjob.new[rjob.pc]]
  /\ rjob' = IF After(rjob.pc) = None THEN Idle ELSE [rjob EXCEPT !.pc = After(@)]
  /\ UNCHANGED <<deploy, live, archive, job, backups, restores, crashes>>

\* A publication fails, with or without its effect, and the parts are undone.
PublishFails ==
  /\ rjob.pc \in {"keys", "root", "meta"} /\ crashes < deploy.crashes
  /\ crashes' = crashes + 1
  /\ \/ UNCHANGED target
     \/ target' = [target EXCEPT ![rjob.pc] = rjob.new[rjob.pc]]
  /\ rjob' = [pc |-> "undo", left |-> <<"meta", "root", "keys", "log">>]
  /\ UNCHANGED <<deploy, live, archive, job, backups, restores>>

\* Mutant: the catalog entry is undone last.
UndoFromLog ==
  /\ rjob.pc = "undo"
  /\ target' = [target EXCEPT ![rjob.left[Len(rjob.left)]] = None]
  /\ rjob' = IF Len(rjob.left) = 1 THEN Idle ELSE [rjob EXCEPT !.left = Front(@)]
  /\ UNCHANGED <<deploy, live, archive, job, backups, restores, crashes>>

\* A removal that fails is ignored; the undo goes on with the next part.
UndoPart ==
  /\ rjob.pc = "undo"
  /\ \/ /\ target' = [target EXCEPT ![Head(rjob.left)] = None]
        /\ UNCHANGED crashes
     \/ /\ crashes < deploy.crashes
        /\ crashes' = crashes + 1
        /\ target' = [target EXCEPT !.stuck = @ \/ Head(rjob.left) = "meta"]
  /\ rjob' = IF Len(rjob.left) = 1 THEN Idle ELSE [rjob EXCEPT !.left = Tail(@)]
  /\ UNCHANGED <<deploy, live, archive, job, backups, restores>>

\* The process running a backup or a restore dies.
Crash ==
  /\ crashes < deploy.crashes
  /\ crashes' = crashes + 1
  /\ \/ job # Idle /\ job' = Idle /\ UNCHANGED rjob
     \/ rjob # Idle /\ rjob' = Idle /\ UNCHANGED job
  /\ UNCHANGED <<deploy, live, archive, target, backups, restores>>

BackupStep ==
  \/ ReadManifest \/ ReadRoots \/ ReadLog
  \/ create_archive \/ append_archive_checkpoint \/ AppendNothing \/ Sync
RestoreStep == copy_blobs \/ PublishPart \/ UndoPart

Next ==
  \/ \E v \in 1..deploy.leases : CommitAppend(v) \/ Fence(v) \/ backup_info(v)
  \/ TakeOver \/ Rotate \/ Publish \/ Sweep \/ Recreate
  \/ BackupStep \/ restore \/ RestoreStep \/ PublishFails \/ Crash

Spec == Init /\ [][Next]_vars

-----------------------------------------------------------------------------
(* Properties *)

Rec == [v : Nat, t : Nat, id : Nat, epoch : Nat]

\* Every variable stays in its type.
TypeOK ==
  /\ deploy \in Deployments
  /\ lease \in 1..deploy.leases
  /\ srv \in [1..deploy.leases -> [stage : {"none", "serving", "fencing", "gone"}, basis : 0..deploy.t]]
  /\ log \subseteq Rec /\ truth \in Seq(1..deploy.t)
  /\ meta \in 0..deploy.t /\ manifest \in Seq(0..deploy.t)
  /\ root.basis \in 0..deploy.t
  /\ archive # None => archive.torn \in BOOLEAN /\ archive.ckpts # <<>>
  /\ job.pc \in {None, "manifest", "roots", "log", "create", "append", "sync"}
  /\ rjob.pc \in {None, "blobs", "log", "keys", "root", "meta", "undo"}

Ids(frames) == [i \in DOMAIN frames |-> frames[i].frame.id]

\* An archive holds exactly the acknowledged history through its basis: the
\* basis a transactor hands out (node.rs backup_info) never covers a record
\* appended and not yet fenced that a successor may supersede, and no later
\* takeover, rotation or incremental run makes the archive differ.  The states
\* are well typed.
ArchiveTrue ==
  /\ TypeOK
  /\ (archive # None /\ deploy.lives = 1) =>
       LET held == Ids(Frames(archive))
       IN  Len(held) = Newest(archive).basis /\ IsPrefix(held, truth)

\* An archive always restores: each frame opens under the log version its run
\* table gives back (backup.rs encode_log_versions) and a key of the newest
\* manifest, the index it starts from is within its basis and its keys, and its
\* metadata names everything its records use.
ArchiveOpens ==
  archive # None =>
    LET c == Newest(archive)
        frames == Frames(archive)
    IN  /\ \A i \in DOMAIN frames : Opens(frames[i], c.manifest)
        /\ deploy.lives = 1 => c.meta >= c.basis
        /\ archive.root.basis <= archive.ckpts[1].basis
        /\ archive.root.blob # None => archive.root.blob[2] \in DOMAIN c.manifest

\* Once an archive is complete through a basis no later run, finished or cut
\* short, takes any of it away (backup.rs append_archive_checkpoint).
ArchiveKept ==
  [][archive # None => archive' # None /\ IsPrefix(Frames(archive), Frames(archive'))]_vars

\* A catalogued target is whole: log, root, keys and the blob the root names
\* are there, the root is not ahead of the log, and the names cover it, wherever
\* a restore failed or died, unless the undo of one that failed could not remove
\* the catalog entry (backup.rs restore publishes the metadata last and undoes
\* it first).  Each of its epochs is credited with at least the records it
\* sealed, counted from the t it opened at (restored_manifest).
RestoreWhole ==
  target.meta # None /\ ~target.stuck =>
    /\ target.log # None /\ target.root # None /\ target.keys # None
    /\ target.root.blob # None => target.root.blob \in target.blobs
    /\ target.root.basis <= Len(target.log)
    /\ \A e \in DOMAIN target.keys :
         Cardinality({i \in DOMAIN target.log : target.log[i].epoch = e})
           <= (IF e < Len(target.keys) THEN target.keys[e + 1] ELSE Len(target.log))
              - target.keys[e]
    /\ deploy.lives = 1 =>
         /\ Len(target.log) <= target.meta
         /\ IsPrefix([i \in DOMAIN target.log |-> target.log[i].id], truth)

\* An archive belongs to one database: a run whose source is another database
\* of the same name is an error ("the destination belongs to another database").
OneDatabase ==
  archive # None =>
    LET held == ToSet(Ids(Frames(archive)))
    IN  held \subseteq ToSet(truth) \/ held \cap ToSet(truth) = {}

\* A catalogued target is never partial, whatever an undo could not remove
\* (restore: "a node can never discover a partially restored database").
NeverPartial ==
  target.meta # None => target.log # None /\ target.root # None /\ target.keys # None
=============================================================================
