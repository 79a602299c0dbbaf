-------------------------------- MODULE Keys --------------------------------
(***************************************************************************)
(* Storage-key epochs of one encrypted database: the manifest under        *)
(* keys:<db>, the generation counter in the database's root that announces *)
(* a change of it, and the transactors that seal log records under the     *)
(* epoch they hold (corium-store key_manifest.rs, corium-transactor        *)
(* keys.rs and the key operations of node.rs).                             *)
(*                                                                         *)
(* A data key is named by its epoch and the host that minted it (None for  *)
(* the creation): a host mints an epoch twice only when its first key was  *)
(* never published.  Wrapping is which KEK the manifest names, and a host  *)
(* unwraps when that KEK is in its keyring and the KMS answers for it.  A  *)
(* record is the epoch and key it is sealed under; its t is its place in   *)
(* the log.  A saga branch seals its own log with its parent's cipher; the *)
(* records of all branches are one sequence here.  The records a deposed   *)
(* host appends under its old lease version are cut off by its successor   *)
(* (module HaCommit) and are not kept here.                                *)
(***************************************************************************)
EXTENDS Naturals, Sequences, FiniteSets

CONSTANTS
  Hosts, Keks, None,
  MaxEpoch,       \* bound on the epochs of the manifest
  Deployments     \* what may run: the processes (procs), their keyrings (ring),
                  \* the KEK the database is created under (kek), whether store
                  \* and KMS may fail (faults), and bounds on the epochs, the
                  \* log (t), the branches' logs (steps), lease acquisitions
                  \* (leases), re-wraps (wraps), and crashes and KMS changes
                  \* together (flips)

ASSUME KeysAssumption ==
  /\ MaxEpoch \in Nat \ {0} /\ IsFiniteSet(Hosts)
  /\ None \notin Hosts \cup {"open", "publish", "bump", "adopt", "reload"}
  /\ Deployments \subseteq
       [procs : SUBSET Hosts, ring : [Hosts -> SUBSET Keks], kek : Keks, faults : BOOLEAN,
        epochs : 1..MaxEpoch, t : Nat, steps : Nat, leases : Nat, wraps : Nat,
        flips : Nat]

VARIABLES
  deploy,         \* the deployment of this behaviour, never changed
  manifest,       \* the keys:<db> root: KEK and storage keys, ascending
  version,        \* DbRoot::key_manifest_version
  lease,          \* owner and version of the lease in the root
  log,            \* the merged log: epoch and key of each record
  branch,         \* the logs of its saga branches, likewise
  host,           \* DbState of each host: lease, keys, alarms, and whether a
                  \* branch's batch is under way (step)
  job,            \* the operation each host has under way
  kms,            \* the KEKs the KMS answers for
  wraps, flips

vars == <<deploy, manifest, version, lease, log, branch, host, job, kms, wraps, flips>>
durable == <<manifest, version, lease, log, branch>>
bounds == <<wraps, flips>>

Key(e, k, t, s) == [epoch |-> e, key |-> k, opened |-> t, state |-> s]

\* No database hosted; no operation under way.
Closed == [up |-> FALSE, lease |-> 0, basis |-> 0, epoch |-> 0, keys |-> {},
           kmv |-> 0, unavailable |-> FALSE, fenced |-> FALSE, seen |-> 0,
           step |-> FALSE]
Idle == [op |-> None]

\* Every (epoch, data key) pair the manifest carries: unwrap_storage_keys.
Unwrapped(m) == {<<m.keys[i].epoch, m.keys[i].key>> : i \in DOMAIN m.keys}

\* The epoch new writes use.
active_storage_epoch(m) ==
  CHOOSE e \in 0..MaxEpoch :
    \E i \in DOMAIN m.keys : m.keys[i].epoch = e /\ m.keys[i].state = "active"

\* A record opens under a key snapshot that has its epoch's key; it is sealed
\* under the key of the epoch writes use.
Opens(keys, r) == r \in keys
Seal(d) == CHOOSE k \in d.keys : k[1] = d.epoch

\* A keyring resolves the KEK the manifest names, and the KMS answers.
Resolves(h, m) == m.kek \in deploy.ring[h] /\ m.kek \in kms

\* Log records sealed under the i-th epoch as of basis t: the span from its
\* opening to its successor's, or to t for the newest.
log_records_sealed(m, i, t) ==
  LET end == IF i = Len(m.keys) THEN t ELSE m.keys[i + 1].opened
  IN  IF end < m.keys[i].opened THEN 0 ELSE end - m.keys[i].opened

\* The manifest with a further epoch opened at basis t; the active one retires.
rotate_storage_key(m, k, t) ==
  [m EXCEPT !.keys =
     Append([i \in DOMAIN m.keys |->
               IF m.keys[i].state = "active" THEN [m.keys[i] EXCEPT !.state = "retiring"]
                                             ELSE m.keys[i]],
            Key(Len(m.keys) + 1, k, t, "active"))]

rewrap(m, k) == [m EXCEPT !.kek = k]

\* What validate() admits: epochs ascending and ordered in t, one of them active.
validate(m) ==
  /\ \A i \in 2..Len(m.keys) : /\ m.keys[i - 1].epoch < m.keys[i].epoch
                               /\ m.keys[i - 1].opened <= m.keys[i].opened
  /\ Cardinality({i \in DOMAIN m.keys : m.keys[i].state = "active"}) = 1

\* The host's commit lock is free: a rotation, a re-wrap and the maintenance
\* tick hold it from their first read to their last assignment.
Free(h) == job[h].op = None
Hosting(h) == host[h].up

-----------------------------------------------------------------------------
Init ==
  /\ deploy \in Deployments
  /\ manifest = [kek |-> deploy.kek, keys |-> <<Key(1, None, 0, "active")>>]
  /\ version = 0
  /\ lease = [owner |-> None, version |-> 0]
  /\ log = <<>>
  /\ branch = <<>>
  /\ host = [h \in Hosts |-> Closed]
  /\ job = [h \in Hosts |-> Idle]
  /\ kms = Keks
  /\ wraps = 0
  /\ flips = 0

\* The job of h is over; its state may have changed.
Finish(h) == job' = [job EXCEPT ![h] = Idle]

-----------------------------------------------------------------------------
(* Opening *)

\* The manifest is read and its keys unwrapped before the lease is taken; a
\* host that cannot unwrap them fails without fencing anyone.
OpenKeys(h) ==
  /\ h \in deploy.procs
  /\ ~Hosting(h) /\ Free(h)
  /\ Resolves(h, manifest)
  /\ job' = [job EXCEPT ![h] = [op |-> "open", epoch |-> active_storage_epoch(manifest),
                                keys |-> Unwrapped(manifest)]]
  /\ UNCHANGED <<deploy, durable, host, kms, bounds>>

\* The lease, once its holder's has run out, then the log, whose every record
\* must open under the keys read before; the generation is read last.
OpenLease(h) ==
  /\ job[h].op = "open"
  /\ lease.version < deploy.leases \/ lease.owner = h
  /\ lease' = [owner |-> h,
               version |-> IF lease.owner = h THEN lease.version ELSE lease.version + 1]
  /\ host' = [host EXCEPT ![h] =
       IF \A i \in DOMAIN log : Opens(job[h].keys, log[i])
       THEN [Closed EXCEPT !.up = TRUE, !.lease = lease'.version, !.basis = Len(log),
                           !.epoch = job[h].epoch, !.keys = job[h].keys, !.kmv = version,
                           !.seen = job[h].epoch]
       ELSE Closed]
  /\ Finish(h)
  /\ UNCHANGED <<deploy, manifest, version, log, branch, kms, bounds>>

-----------------------------------------------------------------------------
(* Commits *)

\* Mutant: no write path asks.
keys_fenced_errorNever(h) == FALSE

\* The fence a failed reload raised stops every write path.
keys_fenced_error(h) == host[h].fenced

\* A batch: refused while the keys are fenced, sealed under the epoch held,
\* acknowledged only while the lease is still this host's.
Commit(h) ==
  /\ Hosting(h) /\ Free(h)
  /\ Len(log) < deploy.t
  /\ ~keys_fenced_error(h)
  /\ IF lease = [owner |-> h, version |-> host[h].lease]
     THEN /\ log' = Append(log, Seal(host[h]))
          /\ host' = [host EXCEPT ![h].basis = Len(log) + 1]
     ELSE /\ host' = [host EXCEPT ![h] = Closed]
          /\ UNCHANGED log
  /\ UNCHANGED <<deploy, manifest, version, lease, branch, job, kms, bounds>>

\* A batch of a saga branch, under the branch's own commit lock: it asks its
\* parent's fence, and only then prepares and appends.
BranchBegin(h) ==
  /\ Hosting(h) /\ ~host[h].step
  /\ Len(branch) < deploy.steps
  /\ ~keys_fenced_error(h)
  /\ host' = [host EXCEPT ![h].step = TRUE]
  /\ UNCHANGED <<deploy, durable, job, kms, bounds>>

\* The record is sealed with the cipher the branch shares with its parent,
\* under whatever epoch it now writes; acknowledged under the parent's lease.
BranchAppend(h) ==
  /\ Hosting(h) /\ host[h].step
  /\ branch' = IF lease = [owner |-> h, version |-> host[h].lease]
               THEN Append(branch, Seal(host[h])) ELSE branch
  /\ host' = [host EXCEPT ![h].step = FALSE]
  /\ UNCHANGED <<deploy, manifest, version, lease, log, job, kms, bounds>>

-----------------------------------------------------------------------------
(* Rotation and re-wrapping *)

\* Mutant: the new key is in the cipher before its manifest is published.
RotateAdoptsFirst(h) ==
  /\ Hosting(h) /\ Free(h)
  /\ Len(manifest.keys) < deploy.epochs
  /\ Resolves(h, manifest)
  /\ \A i \in DOMAIN manifest.keys : manifest.keys[i].opened <= host[h].basis
  /\ LET next == rotate_storage_key(manifest, h, host[h].basis)
     IN  /\ job' = [job EXCEPT ![h] = [op |-> "publish", prev |-> manifest, next |-> next]]
         /\ host' = [host EXCEPT ![h].epoch = active_storage_epoch(next),
                                 ![h].keys = Unwrapped(next)]
  /\ UNCHANGED <<deploy, durable, kms, bounds>>

\* Under the commit lock: the manifest is read and the new epoch minted at the
\* basis held.  A basis below an epoch's opening is refused.
RotateStorageKey(h) ==
  /\ Hosting(h) /\ Free(h)
  /\ Len(manifest.keys) < deploy.epochs
  /\ Resolves(h, manifest)
  /\ \A i \in DOMAIN manifest.keys : manifest.keys[i].opened <= host[h].basis
  /\ job' = [job EXCEPT ![h] = [op |-> "publish", prev |-> manifest,
                                next |-> rotate_storage_key(manifest, h, host[h].basis)]]
  /\ UNCHANGED <<deploy, durable, host, kms, bounds>>

\* Every key unwrapped under the KEK the manifest names and wrapped under k.
RewrapKeys(h, k) ==
  /\ Hosting(h) /\ Free(h)
  /\ wraps < deploy.wraps
  /\ k # manifest.kek
  /\ Resolves(h, manifest) /\ Resolves(h, rewrap(manifest, k))
  /\ wraps' = wraps + 1
  /\ job' = [job EXCEPT ![h] = [op |-> "publish", prev |-> manifest,
                                next |-> rewrap(manifest, k)]]
  /\ UNCHANGED <<deploy, durable, host, kms, flips>>

\* A valid manifest only, by compare-and-set on the bytes the change was
\* computed from.
publish_key_manifest(h) ==
  /\ job[h].op = "publish"
  /\ IF validate(job[h].next) /\ manifest = job[h].prev
     THEN /\ manifest' = job[h].next
          /\ job' = [job EXCEPT ![h] = [op |-> "bump", next |-> job[h].next]]
     ELSE /\ Finish(h)
          /\ UNCHANGED manifest
  /\ UNCHANGED <<deploy, version, lease, log, branch, host, kms, bounds>>

\* The generation counter goes up on whatever root is current.
bump_key_manifest_version(h) ==
  /\ job[h].op = "bump"
  /\ version' = version + 1
  /\ job' = [job EXCEPT ![h] = [op |-> "adopt", next |-> job[h].next, version |-> version']]
  /\ UNCHANGED <<deploy, manifest, lease, log, branch, host, kms, bounds>>

\* Five lost compare-and-sets, or a store that fails: the operation reports an
\* error and ends, its manifest durable and unannounced.
BumpFails(h) ==
  /\ deploy.faults
  /\ job[h].op = "bump"
  /\ Finish(h)
  /\ UNCHANGED <<deploy, durable, host, kms, bounds>>

\* The keys of manifest m with generation v, alarms cleared.
Reloaded(d, m, v) ==
  [d EXCEPT !.epoch = active_storage_epoch(m), !.keys = Unwrapped(m), !.kmv = v,
            !.unavailable = FALSE, !.fenced = FALSE, !.seen = active_storage_epoch(m)]

\* Mutant: the new generation is noted, the new keys are not installed.
AdoptVersion(h) ==
  /\ job[h].op = "adopt"
  /\ host' = [host EXCEPT ![h].kmv = job[h].version]
  /\ Finish(h)
  /\ UNCHANGED <<deploy, durable, kms, bounds>>

\* The keys just published are unwrapped and adopted; a KMS that has gone
\* away leaves the host on the keys it held.
Adopt(h) ==
  /\ job[h].op = "adopt"
  /\ host' = IF Resolves(h, job[h].next)
             THEN [host EXCEPT ![h] = Reloaded(host[h], job[h].next, job[h].version)]
             ELSE host
  /\ Finish(h)
  /\ UNCHANGED <<deploy, durable, kms, bounds>>

-----------------------------------------------------------------------------
(* Maintenance *)

\* The renewal tick, under the commit lock: a lost lease deposes; a root whose
\* generation is not the one held starts a reload.
RefreshRead(h) ==
  /\ Hosting(h) /\ Free(h)
  /\ IF lease # [owner |-> h, version |-> host[h].lease]
     THEN /\ host' = [host EXCEPT ![h] = Closed]
          /\ UNCHANGED job
     ELSE /\ version # host[h].kmv
          /\ job' = [job EXCEPT ![h] = [op |-> "reload", version |-> version]]
          /\ UNCHANGED host
  /\ UNCHANGED <<deploy, durable, kms, bounds>>

\* Mutant: the alarm takes the generation as dealt with.
raise_key_alarmOnce(d, m) ==
  [d EXCEPT !.fenced = @ \/ active_storage_epoch(m) # d.epoch,
            !.unavailable = @ \/ active_storage_epoch(m) = d.epoch,
            !.kmv = version, !.seen = active_storage_epoch(m)]

\* Fenced when the manifest opened an epoch this host does not write under,
\* unavailable otherwise.  The generation held stays the old one.
raise_key_alarm(d, m) ==
  [d EXCEPT !.fenced = @ \/ active_storage_epoch(m) # d.epoch,
            !.unavailable = @ \/ active_storage_epoch(m) = d.epoch,
            !.seen = active_storage_epoch(m)]

\* The manifest is read after the generation, and the generation stored is the
\* one read before it.
RefreshLoad(h) ==
  /\ job[h].op = "reload"
  /\ host' = [host EXCEPT ![h] =
       IF Resolves(h, manifest) THEN Reloaded(host[h], manifest, job[h].version)
                                ELSE raise_key_alarm(host[h], manifest)]
  /\ Finish(h)
  /\ UNCHANGED <<deploy, durable, kms, bounds>>

\* The process dies; what it published and sealed stays.
Crash(h) ==
  /\ flips < deploy.flips
  /\ Hosting(h) \/ ~Free(h)
  /\ flips' = flips + 1
  /\ host' = [host EXCEPT ![h] = Closed]
  /\ Finish(h)
  /\ UNCHANGED <<deploy, durable, kms, wraps>>

\* The KMS stops or starts answering for a KEK.
Kms(k) ==
  /\ deploy.faults
  /\ flips < deploy.flips
  /\ flips' = flips + 1
  /\ kms' = IF k \in kms THEN kms \ {k} ELSE kms \cup {k}
  /\ UNCHANGED <<deploy, durable, host, job, wraps>>

-----------------------------------------------------------------------------
Operate(h) ==
  \/ OpenKeys(h) \/ OpenLease(h) \/ Commit(h)
  \/ BranchBegin(h) \/ BranchAppend(h)
  \/ RotateStorageKey(h) \/ \E k \in Keks : RewrapKeys(h, k)
  \/ Crash(h)

\* What a task does once begun, and what the maintenance loop does by itself.
Continue(h) ==
  \/ publish_key_manifest(h) \/ bump_key_manifest_version(h) \/ BumpFails(h) \/ Adopt(h)
  \/ RefreshLoad(h)

Next == \/ \E h \in Hosts : Operate(h) \/ Continue(h) \/ RefreshRead(h)
        \/ \E k \in Keks : Kms(k)

Spec == Init /\ [][Next]_vars

\* A task a live process has begun goes on; its renewal timer keeps firing,
\* and the lock it takes is fair, so commits do not keep it out forever.
FairSpec == /\ Spec
            /\ \A h \in Hosts : WF_vars(Continue(h)) /\ SF_vars(RefreshRead(h))

-----------------------------------------------------------------------------
(* Properties *)

\* The state has its types, the manifest is valid, and a host writes under an
\* epoch of the manifest whose key it holds (KeySnapshot::new).
TypeOK ==
  /\ deploy \in Deployments
  /\ manifest.kek \in Keks
  /\ validate(manifest)
  /\ version \in Nat
  /\ lease.owner \in Hosts \cup {None}
  /\ {log, branch} \subseteq Seq((1..MaxEpoch) \X (Hosts \cup {None}))
  /\ \A h \in Hosts :
       /\ host[h].up => host[h].epoch \in 1..Len(manifest.keys)
       /\ host[h].up => \E k \in host[h].keys : k[1] = host[h].epoch
       /\ job[h].op \in {None, "open", "publish", "bump", "adopt", "reload"}
  /\ kms \subseteq Keks

\* No step takes an epoch out of the manifest or gives it another data key:
\* two rotations that read the same manifest cannot both open its next epoch.
\* (publish_key_manifest's compare-and-set.)
EpochKeyStable == [][Unwrapped(manifest) \subseteq Unwrapped(manifest')]_vars

\* Every record of the log, and of a saga branch's log, can be opened with the
\* keys the durable manifest carries, whatever crashes, failed steps and races
\* its rotations met; a branch's batch may seal in the midst of one.
\* (install_key_manifest: the manifest goes first, the cipher last; open_branch
\* shares the cipher.)  The states are well typed.
LogOpenable ==
  /\ TypeOK
  /\ \A i \in DOMAIN log : Opens(Unwrapped(manifest), log[i])
  /\ \A i \in DOMAIN branch : Opens(Unwrapped(manifest), branch[i])

SealedUnder(l, e) == Cardinality({r \in DOMAIN l : l[r][1] = e})

\* Where one process serves the database and the store and the KMS do not
\* fail, the span of t an epoch covers is the number of records of the
\* database's own log sealed under it, after crashes too and whatever its saga
\* branches seal meanwhile.  (rotate_storage_key under the commit lock;
\* log_records_sealed.)  What the branches seal comes on top: NoncesCounted.
Counted ==
  Cardinality(deploy.procs) = 1 /\ ~deploy.faults =>
    \A i \in DOMAIN manifest.keys :
      log_records_sealed(manifest, i, Len(log)) = SealedUnder(log, i)

\* There too, the span is the number of nonces drawn under the epoch's key
\* (key_manifest.rs:269).
NoncesCounted ==
  Cardinality(deploy.procs) = 1 /\ ~deploy.faults =>
    \A i \in DOMAIN manifest.keys :
      log_records_sealed(manifest, i, Len(log)) = SealedUnder(log, i) + SealedUnder(branch, i)

\* A record joins the log only under the epoch its host last saw active, in a
\* manifest it opened with or that its maintenance read, loadable or not.
\* (raise_key_alarm and the fence every write path asks.)
FenceHolds ==
  [][log' # log => host[lease.owner].epoch = host[lease.owner].seen]_vars

\* So does a record of a saga branch.  (flush_commit_batch: the fence "has to
\* come first", node.rs:3728.)
BranchFenceHolds ==
  [][branch' # branch => host[lease.owner].epoch = host[lease.owner].seen]_vars

Alarmed(h) == host[h].fenced \/ host[h].unavailable

\* A host that is behind the announced generation, or alarmed, is on the
\* announced keys and serving in the end, unless its keyring or the KMS keeps
\* it from them or it stops hosting.  (refresh_keys_if_stale on every tick.)
CatchesUp ==
  \A h \in Hosts :
    (Hosting(h) /\ (host[h].kmv # version \/ Alarmed(h)) /\ Resolves(h, manifest))
      ~> \/ host[h].kmv = version /\ ~Alarmed(h)
         \/ ~Resolves(h, manifest) \/ ~Hosting(h)

\* A host does not go on forever sealing under an epoch the manifest has
\* closed: it takes the new keys, is fenced, or stops hosting.
LeavesClosedEpoch ==
  \A h \in Hosts :
    (Hosting(h) /\ host[h].epoch # active_storage_epoch(manifest))
      ~> \/ host[h].epoch = active_storage_epoch(manifest)
         \/ host[h].fenced \/ ~Hosting(h)
=============================================================================
