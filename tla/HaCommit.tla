------------------------------ MODULE HaCommit ------------------------------
(***************************************************************************)
(* The high-availability commit path of one corium database: the write     *)
(* lease in the database root, the per-lease-version transaction log, the  *)
(* group commit with its post-append ownership fence, index publication    *)
(* into the same root, takeover, depose, crash and restart.                *)
(*                                                                         *)
(* A writer is one incarnation of DbState: the in-memory state a           *)
(* transactor process, its owner, builds for the database when open_db     *)
(* succeeds.  A process that loses the lease drops its DbState but         *)
(* requests and background jobs that already hold it keep running, so      *)
(* several writers of one owner can be alive at once.                      *)
(*                                                                         *)
(* Every lease and root operation of the code is a read followed by a      *)
(* compare-and-set on the exact bytes read, retried when it fails; each is *)
(* one atomic step here.  Clocks of different processes are unrelated, so  *)
(* an expiry test may come out either way: the lease of another owner may  *)
(* be found expired in any state.                                          *)
(***************************************************************************)
EXTENDS Integers, FiniteSets

CONSTANTS
  Owners,       \* transactor processes: NodeConfig::owner
  Writers,      \* DbState incarnations, each used at most once
  Txs,          \* client transactions
  NoOwner,      \* the empty owner of a fresh root
  NoWriter,     \* "not hosted": no entry in TransactorNode::dbs
  Backend,      \* "fs" (VersionedLog) or "native" (NativeVersionedLog)
  MaxT,         \* bound on t
  MaxVersion,   \* bound on the lease version
  MaxBatch,     \* NodeConfig::max_commit_batch
  MaxFaults,    \* bound on crashes and I/O errors
  MaxPasses     \* bound on index publication passes

ASSUME ConstantsAssumption ==
  /\ NoOwner \notin Owners
  /\ NoWriter \notin Writers
  /\ Backend \in {"fs", "native"}
  /\ MaxT \in Nat /\ MaxVersion \in Nat /\ MaxBatch \in Nat \ {0}
  /\ MaxFaults \in Nat /\ MaxPasses \in Nat

Versions == 0 .. MaxVersion
Times == 1 .. MaxT

(***************************************************************************)
(* A log record: the lease version whose file or objects hold it, its t,   *)
(* and the client transaction it commits.                                  *)
(***************************************************************************)
Record == [v : Versions, t : Times, x : Txs]

Phases == {"free", "leased", "opened", "rooted",           \* open_db
           "idle", "batch", "appending", "installed",      \* serving
           "dead"}                                         \* crashed or failed

Serving == {"idle", "batch", "appending", "installed"}

VARIABLES
  root,      \* the stored DbRoot: owner, lease version, published index value
  log,       \* every durable log record, of every version
  keys,      \* native object keys written: <<version, last t>>
  phase,     \* where each writer is in open_db or in a flush
  owner,     \* the process a writer belongs to
  ver,       \* the lease version a writer holds: held_lease.version
  next,      \* next_t of the writer's log handle
  view,      \* frames the writer's file handle has indexed (fs)
  poisoned,  \* writers whose file handle is poisoned (fs)
  value,     \* the database value of a writer, as the records applied to it
  batch,     \* records prepared by the flush in progress
  queue,     \* requests that hold this DbState, not yet prepared
  pub,       \* the value an index pass has captured, or {}
  passing,   \* writers with an index pass in flight
  deposed,   \* writers whose deposed flag is set
  hosted,    \* TransactorNode::dbs of each process, for this database
  status,    \* what the client of each transaction was told
  acked,     \* records whose commit was acknowledged
  faults, passes

rootVars == <<root>>
logVars == <<log, keys>>
handleVars == <<next, view, poisoned>>
flushVars == <<batch, queue, value>>
pubVars == <<pub, passing, passes>>
nodeVars == <<owner, ver, deposed, hosted>>
clientVars == <<status, acked>>
vars == <<root, log, keys, phase, owner, ver, next, view, poisoned, value,
          batch, queue, pub, passing, deposed, hosted, status, acked,
          faults, passes>>

-----------------------------------------------------------------------------
(* The merged log. *)

(* Mutant: no takeover cutoff, every version is read to its end. *)
MergedNoCutoff(S) == S

(***************************************************************************)
(* merge_versions / version_cutoffs: a record dies once any later version  *)
(* begins at or below its t.                                               *)
(***************************************************************************)
Merged(S) == {r \in S : \A s \in S : s.v > r.v => r.t < s.t}

(***************************************************************************)
(* validated_version_cutoffs, validate_merged_contiguity: a merged log     *)
(* with a hole or a repeated t is LogError::Corrupt to every reader.       *)
(***************************************************************************)
Readable(S) ==
  \A r \in S :
    /\ \A s \in S : s.t = r.t => s = r
    /\ (\E s \in S : s.t < r.t) => \E s \in S : s.t = r.t - 1

(* n is the last t of S, 0 when S is empty: basis_t, merged_next_t - 1. *)
IsLast(n, S) ==
  /\ \A r \in S : r.t <= n
  /\ n = 0 \/ \E r \in S : r.t = n

(* The basis of S is above the basis of U. *)
Newer(S, U) == \E r \in S : \A u \in U : u.t < r.t

OfVersion(S, v) == {r \in S : r.v = v}

(* The unread part of a log past a snapshot: tx_range(index_basis + 1, None). *)
Tail(S, snap) == {r \in S : \A s \in snap : s.t < r.t}

-----------------------------------------------------------------------------
Init ==
  /\ root = [owner |-> NoOwner, version |-> 0, index |-> {}]
  /\ log = {} /\ keys = {}
  /\ phase = [w \in Writers |-> "free"]
  /\ owner = [w \in Writers |-> NoOwner]
  /\ ver = [w \in Writers |-> 0]
  /\ next = [w \in Writers |-> 1]
  /\ view = [w \in Writers |-> {}]
  /\ poisoned = {}
  /\ value = [w \in Writers |-> {}]
  /\ batch = [w \in Writers |-> {}]
  /\ queue = [w \in Writers |-> {}]
  /\ pub = [w \in Writers |-> {}]
  /\ passing = {}
  /\ deposed = {}
  /\ hosted = [o \in Owners |-> NoWriter]
  /\ status = [x \in Txs |-> "new"]
  /\ acked = {}
  /\ faults = 0 /\ passes = 0

-----------------------------------------------------------------------------
(* Shared pieces of the handlers. *)

(* The lease identity check of renew, verify and release. *)
Owns(w) == root.owner = owner[w] /\ root.version = ver[w]

(***************************************************************************)
(* TransactorNode::depose: raise the flag and drop the database from       *)
(* `dbs`.  The entry is removed by name, whichever DbState it holds.       *)
(***************************************************************************)
Depose(w) ==
  /\ deposed' = deposed \cup {w}
  /\ hosted' = [hosted EXCEPT ![owner[w]] = NoWriter]

(* Every request of S is answered with outcome s. *)
Answer(S, s) ==
  status' = [x \in Txs |-> IF x \in S THEN s ELSE status[x]]

InBatch(w) == {r.x : r \in batch[w]}

(* The flush ends: the batch is answered with s and `commit` is released. *)
EndFlush(w, s) ==
  /\ phase' = [phase EXCEPT ![w] = "idle"]
  /\ batch' = [batch EXCEPT ![w] = {}]
  /\ Answer(InBatch(w), s)

(* install_batch: the value moves past the durable batch. *)
Install(w) ==
  /\ value' = [value EXCEPT ![w] = @ \cup batch[w]]
  /\ phase' = [phase EXCEPT ![w] = "installed"]

OneFault == faults < MaxFaults /\ faults' = faults + 1

-----------------------------------------------------------------------------
(* open_db: acquire, open the log, read the root, replay, host. *)

(***************************************************************************)
(* lease::acquire from open_db, called by node start-up and by             *)
(* standby_scan, which open a database only when `dbs` has no entry for it *)
(* and one at a time.  The version grows only when ownership changes hands.*)
(***************************************************************************)
Acquire(w, o) ==
  /\ phase[w] = "free"
  /\ hosted[o] = NoWriter
  /\ \A u \in Writers : owner[u] = o => phase[u] \notin {"leased", "opened", "rooted"}
  /\ LET version == IF root.owner = o THEN root.version ELSE root.version + 1
     IN  /\ version <= MaxVersion
         /\ root' = [owner |-> o, version |-> version, index |-> root.index]
         /\ ver' = [ver EXCEPT ![w] = version]
  /\ owner' = [owner EXCEPT ![w] = o]
  /\ phase' = [phase EXCEPT ![w] = "leased"]
  /\ UNCHANGED <<logVars, handleVars, flushVars, pubVars, clientVars,
                 deposed, hosted, faults>>

(***************************************************************************)
(* LogBackend::open under the acquired version: next_t is fixed here, from *)
(* the merged log, and never re-read.                                      *)
(***************************************************************************)
OpenLog(w) ==
  /\ phase[w] = "leased"
  /\ Readable(Merged(log))
  /\ \E n \in 0 .. MaxT :
       /\ IsLast(n, Merged(log))
       /\ next' = [next EXCEPT ![w] = n + 1]
  /\ view' = [view EXCEPT ![w] = IF Backend = "fs" THEN log ELSE {}]
  /\ phase' = [phase EXCEPT ![w] = "opened"]
  /\ UNCHANGED <<rootVars, logVars, poisoned, flushVars, pubVars, nodeVars,
                 clientVars, faults>>

(* The post-fence read of the root: the published snapshot to start from. *)
ReadRoot(w) ==
  /\ phase[w] = "opened"
  /\ value' = [value EXCEPT ![w] = root.index]
  /\ phase' = [phase EXCEPT ![w] = "rooted"]
  /\ UNCHANGED <<rootVars, logVars, handleVars, batch, queue, pubVars,
                 nodeVars, clientVars, faults>>

(***************************************************************************)
(* open_db ends with the value rs: the file handle has indexed what has    *)
(* appeared since it was opened, next_t stays as it was, and the database  *)
(* is inserted into `dbs`.                                                 *)
(***************************************************************************)
ReplayOf(w, rs) ==
  /\ phase[w] = "rooted"
  /\ Readable(Merged(log))
  /\ value' = [value EXCEPT ![w] = rs]
  /\ view' = [view EXCEPT ![w] = IF Backend = "fs" THEN log ELSE {}]
  /\ hosted' = [hosted EXCEPT ![owner[w]] = w]
  /\ phase' = [phase EXCEPT ![w] = "idle"]
  /\ UNCHANGED <<rootVars, logVars, next, poisoned, batch, queue, pubVars,
                 owner, ver, deposed, clientVars, faults>>

(* Mutants: replay only the version's own records; replay without merging. *)
ReplayOwn(w) == ReplayOf(w, OfVersion(Merged(log), ver[w]))
ReplayRaw(w) == ReplayOf(w, log)

(***************************************************************************)
(* recover_transactor reads the log again: the tail past the snapshot, or  *)
(* all of it when the snapshot cannot be materialised.                     *)
(***************************************************************************)
Replay(w) ==
  \/ ReplayOf(w, value[w] \cup Tail(Merged(log), value[w]))
  \/ ReplayOf(w, Merged(log))

(* Either read of the log reports LogError::Corrupt: open_db fails. *)
OpenFails(w) ==
  /\ phase[w] \in {"leased", "rooted"}
  /\ ~Readable(Merged(log))
  /\ phase' = [phase EXCEPT ![w] = "dead"]
  /\ UNCHANGED <<rootVars, logVars, handleVars, flushVars, pubVars, nodeVars,
                 clientVars, faults>>

-----------------------------------------------------------------------------
(* Requests and the group-commit flush. *)

(***************************************************************************)
(* transact: the request takes the hosted DbState and will queue on it,    *)
(* even if the database is dropped from `dbs` meanwhile.  A client that    *)
(* was refused with "deposed" submits again (retry_is_safe).               *)
(***************************************************************************)
Route(x, w) ==
  /\ status[x] \in {"new", "refused"}
  /\ phase[w] \in Serving
  /\ hosted[owner[w]] = w
  /\ queue' = [queue EXCEPT ![w] = @ \cup {x}]
  /\ status' = [status EXCEPT ![x] = "sent"]
  /\ UNCHANGED <<rootVars, logVars, phase, handleVars, batch, value, pubVars,
                 nodeVars, acked, faults>>

(***************************************************************************)
(* flush_commit_batch, preparation: the leader gives each queued request   *)
(* the next t of its cursor.  There is no ownership check.                 *)
(***************************************************************************)
Prepare(w, x) ==
  /\ phase[w] \in {"idle", "batch"}
  /\ x \in queue[w]
  /\ Cardinality(batch[w]) < MaxBatch
  /\ \E n \in 0 .. MaxT - 1 :
       /\ IsLast(n, value[w] \cup batch[w])
       /\ batch' = [batch EXCEPT ![w] =
                      @ \cup {[v |-> ver[w], t |-> n + 1, x |-> x]}]
  /\ queue' = [queue EXCEPT ![w] = @ \ {x}]
  /\ phase' = [phase EXCEPT ![w] = "batch"]
  /\ UNCHANGED <<rootVars, logVars, handleVars, value, pubVars, nodeVars,
                 clientVars, faults>>

(* The record the file append writes next. *)
Upcoming(w, r) ==
  /\ r \in batch[w]
  /\ \/ phase[w] = "batch" /\ \A s \in batch[w] : r.t <= s.t
     \/ phase[w] = "appending" /\ r.t = next[w]

(***************************************************************************)
(* VersionedLog::append and IndexedFile::append accept r: it is the next t,*)
(* the handle is healthy, the file holds exactly the frames the handle     *)
(* knows, and a version with no later one extends its own tail.            *)
(***************************************************************************)
FileAccepts(w, r) ==
  LET own == OfVersion(view[w], ver[w]) IN
  /\ w \notin poisoned
  /\ r.t = next[w]
  /\ OfVersion(log, ver[w]) = own
  /\ own # {} /\ (\A s \in view[w] : s.v <= ver[w]) => IsLast(r.t - 1, own)

(* append_batch over a file: one append, and one fsync, per record. *)
FileAppend(w, r) ==
  /\ Backend = "fs"
  /\ Upcoming(w, r)
  /\ FileAccepts(w, r)
  /\ log' = log \cup {r}
  /\ next' = [next EXCEPT ![w] = @ + 1]
  /\ view' = [view EXCEPT ![w] = @ \cup {r}]
  /\ IF \A s \in batch[w] : s.t <= r.t
       THEN Install(w)
       ELSE phase' = [phase EXCEPT ![w] = "appending"] /\ UNCHANGED value
  /\ UNCHANGED <<rootVars, keys, poisoned, batch, queue, pubVars, nodeVars,
                 clientVars, faults>>

(* The append is rejected as corrupt: the whole batch is answered an error. *)
FileReject(w, r) ==
  /\ Backend = "fs"
  /\ Upcoming(w, r)
  /\ ~FileAccepts(w, r)
  /\ EndFlush(w, "failed")
  /\ UNCHANGED <<rootVars, logVars, handleVars, queue, value, pubVars,
                 nodeVars, acked, faults>>

(***************************************************************************)
(* write_all or sync_all fails: the frame may or may not be in the file,   *)
(* and the handle is poisoned.                                             *)
(***************************************************************************)
FileError(w, r) ==
  /\ Backend = "fs"
  /\ Upcoming(w, r)
  /\ FileAccepts(w, r)
  /\ OneFault
  /\ log' \in {log, log \cup {r}}
  /\ poisoned' = poisoned \cup {w}
  /\ EndFlush(w, "failed")
  /\ UNCHANGED <<rootVars, keys, next, view, queue, value, pubVars, nodeVars,
                 acked>>

(* The key of the batch object: its version and its last t. *)
IsKey(k, w) == k[1] = ver[w] /\ IsLast(k[2], batch[w])

(* The batch starts at next_t: the contiguity check of append_batch_async. *)
StartsAtNext(w) ==
  /\ \A r \in batch[w] : r.t >= next[w]
  /\ \E r \in batch[w] : r.t = next[w]

(* put_batch creates the batch object under its key. *)
Land(w, k) ==
  /\ IsKey(k, w)
  /\ k \notin keys
  /\ keys' = keys \cup {k}
  /\ log' = log \cup batch[w]

(* NativeVersionedLog::append_batch_async: the whole batch is one object. *)
PutBatch(w, k) ==
  /\ Backend = "native"
  /\ phase[w] = "batch"
  /\ StartsAtNext(w)
  /\ Land(w, k)
  /\ next' = [next EXCEPT ![w] = k[2] + 1]
  /\ Install(w)
  /\ UNCHANGED <<rootVars, view, poisoned, batch, queue, pubVars, nodeVars,
                 clientVars, faults>>

(* Not the next t, or the key exists: LogError::Corrupt. *)
PutReject(w) ==
  /\ Backend = "native"
  /\ phase[w] = "batch"
  /\ ~StartsAtNext(w) \/ \E k \in keys : IsKey(k, w)
  /\ EndFlush(w, "failed")
  /\ UNCHANGED <<rootVars, logVars, handleVars, queue, value, pubVars,
                 nodeVars, acked, faults>>

(* The put reports an error; the object may have been created all the same. *)
PutError(w, k) ==
  /\ Backend = "native"
  /\ phase[w] = "batch"
  /\ StartsAtNext(w)
  /\ OneFault
  /\ Land(w, k) \/ UNCHANGED logVars
  /\ EndFlush(w, "failed")
  /\ UNCHANGED <<rootVars, handleVars, queue, value, pubVars, nodeVars, acked>>

(* Mutant: acknowledge a durable batch without the ownership fence. *)
FenceOkUnchecked(w) ==
  /\ phase[w] = "installed"
  /\ acked' = acked \cup batch[w]
  /\ EndFlush(w, "acked")
  /\ UNCHANGED <<rootVars, logVars, handleVars, queue, value, pubVars,
                 nodeVars, faults>>

(***************************************************************************)
(* The post-append fence.  An acknowledgement is recorded at the moment    *)
(* the lease record is read, the earliest point the client may learn it.   *)
(***************************************************************************)
FenceOk(w) ==
  /\ phase[w] = "installed"
  /\ w \notin deposed /\ Owns(w)
  /\ acked' = acked \cup batch[w]
  /\ EndFlush(w, "acked")
  /\ UNCHANGED <<rootVars, logVars, handleVars, queue, value, pubVars,
                 nodeVars, faults>>

(* The lease is lost, or the writer was deposed: refuse, and depose it. *)
FenceLost(w) ==
  /\ phase[w] = "installed"
  /\ w \in deposed \/ ~Owns(w)
  /\ Depose(w)
  /\ EndFlush(w, "refused")
  /\ UNCHANGED <<rootVars, logVars, handleVars, queue, value, pubVars,
                 owner, ver, acked, faults>>

(* The lease record cannot be read: an error, with the batch installed. *)
FenceError(w) ==
  /\ phase[w] = "installed"
  /\ w \notin deposed
  /\ OneFault
  /\ EndFlush(w, "failed")
  /\ UNCHANGED <<rootVars, logVars, handleVars, queue, value, pubVars,
                 nodeVars, acked>>

-----------------------------------------------------------------------------
(* Background duties, shutdown and crash. *)

(* A renewal, under `commit`, finds the lease lost. *)
RenewLost(w) ==
  /\ phase[w] = "idle"
  /\ w \notin deposed
  /\ ~Owns(w)
  /\ Depose(w)
  /\ UNCHANGED <<rootVars, logVars, phase, handleVars, flushVars, pubVars,
                 owner, ver, clientVars, faults>>

(* Mutant: the pass captures the flush's cursor, not the installed value. *)
BeginPassPrepared(w) ==
  /\ phase[w] \in Serving
  /\ w \notin deposed /\ w \notin passing
  /\ passes < MaxPasses /\ passes' = passes + 1
  /\ root.version <= ver[w]
  /\ pub' = [pub EXCEPT ![w] = value[w] \cup batch[w]]
  /\ passing' = passing \cup {w}
  /\ UNCHANGED <<rootVars, logVars, phase, handleVars, flushVars, nodeVars,
                 clientVars, faults>>

(***************************************************************************)
(* publish_pass: check the stored lease version, capture the value.  The   *)
(* job does not take `commit`, so it may capture an unfenced batch.        *)
(***************************************************************************)
BeginPass(w) ==
  /\ phase[w] \in Serving
  /\ w \notin deposed /\ w \notin passing
  /\ passes < MaxPasses /\ passes' = passes + 1
  /\ root.version <= ver[w]
  /\ pub' = [pub EXCEPT ![w] = value[w]]
  /\ passing' = passing \cup {w}
  /\ UNCHANGED <<rootVars, logVars, phase, handleVars, flushVars, nodeVars,
                 clientVars, faults>>

(* publish_root_pinned leaves an equal or newer index in place. *)
Superseded(w) ==
  root.version = ver[w] /\ (Newer(root.index, pub[w]) \/ root.index = pub[w])

(* The root with index value S, under the stored lease. *)
Publish(S) == [owner |-> root.owner, version |-> root.version, index |-> S]

(* publish_root_pinned installs the root over the one it has just read. *)
InstallRoot(w) ==
  /\ w \in passing
  /\ root.version <= ver[w]
  /\ root' = IF Superseded(w) THEN root ELSE Publish(pub[w])
  /\ passing' = passing \ {w}
  /\ pub' = [pub EXCEPT ![w] = {}]
  /\ UNCHANGED <<logVars, phase, handleVars, flushVars, nodeVars, clientVars,
                 faults, passes>>

(* A pass finds a newer lease version, at its start or at its end. *)
PassFenced(w) ==
  /\ w \in passing \/ (phase[w] \in Serving /\ w \notin deposed)
  /\ root.version > ver[w]
  /\ Depose(w)
  /\ passing' = passing \ {w}
  /\ pub' = [pub EXCEPT ![w] = {}]
  /\ UNCHANGED <<rootVars, logVars, phase, handleVars, flushVars, owner, ver,
                 clientVars, faults, passes>>

(***************************************************************************)
(* release_leases at shutdown, once the server has finished its requests:  *)
(* stop hosting, then expire the lease.  The standby poller still runs.    *)
(***************************************************************************)
Release(w) ==
  /\ phase[w] = "idle" /\ queue[w] = {}
  /\ hosted[owner[w]] = w
  /\ Depose(w)
  /\ UNCHANGED <<rootVars, logVars, phase, handleVars, flushVars, pubVars,
                 owner, ver, clientVars, faults>>

(***************************************************************************)
(* A process dies with all its writers.  Its clients see a connection that *)
(* died mid-call and do not retry.  An object-store put already sent may   *)
(* still land: its batch is kept.                                          *)
(***************************************************************************)
Crash(o) ==
  LET mine == {w \in Writers : owner[w] = o /\ phase[w] \notin {"free", "dead"}}
      sent(w) == Backend = "native" /\ phase[w] = "batch" /\ StartsAtNext(w)
  IN  /\ mine # {}
      /\ OneFault
      /\ phase' = [w \in Writers |-> IF w \in mine THEN "dead" ELSE phase[w]]
      /\ batch' = [w \in Writers |-> IF w \in mine /\ ~sent(w) THEN {} ELSE batch[w]]
      /\ queue' = [w \in Writers |-> IF w \in mine THEN {} ELSE queue[w]]
      /\ passing' = passing \ mine
      /\ pub' = [w \in Writers |-> IF w \in mine THEN {} ELSE pub[w]]
      /\ hosted' = [hosted EXCEPT ![o] = NoWriter]
      /\ Answer(UNION {queue[w] \cup InBatch(w) : w \in mine}, "failed")
      /\ UNCHANGED <<rootVars, logVars, handleVars, value, owner, ver, deposed,
                     acked, passes>>

(* The put of a crashed process lands. *)
LatePut(w, k) ==
  /\ phase[w] = "dead"
  /\ batch[w] # {}
  /\ Land(w, k)
  /\ batch' = [batch EXCEPT ![w] = {}]
  /\ UNCHANGED <<rootVars, phase, handleVars, queue, value, pubVars, nodeVars,
                 clientVars, faults>>

-----------------------------------------------------------------------------
Next ==
  \/ \E w \in Writers :
       \/ \E o \in Owners : Acquire(w, o)
       \/ OpenLog(w) \/ ReadRoot(w) \/ Replay(w) \/ OpenFails(w)
       \/ \E x \in Txs : Route(x, w) \/ Prepare(w, x)
       \/ \E r \in batch[w] : FileAppend(w, r) \/ FileReject(w, r) \/ FileError(w, r)
       \/ \E k \in Versions \X Times : PutBatch(w, k) \/ PutError(w, k) \/ LatePut(w, k)
       \/ PutReject(w)
       \/ FenceOk(w) \/ FenceLost(w) \/ FenceError(w)
       \/ RenewLost(w) \/ Release(w)
       \/ BeginPass(w) \/ InstallRoot(w) \/ PassFenced(w)
  \/ \E o \in Owners : Crash(o)

Spec == Init /\ [][Next]_vars

-----------------------------------------------------------------------------
(* Properties. *)

(* Every variable of the model stays in its type. *)
TypeOK ==
  /\ root \in [owner : Owners \cup {NoOwner}, version : Versions,
               index : SUBSET Record]
  /\ log \subseteq Record
  /\ keys \subseteq Versions \X Times
  /\ phase \in [Writers -> Phases]
  /\ owner \in [Writers -> Owners \cup {NoOwner}]
  /\ ver \in [Writers -> Versions]
  /\ next \in [Writers -> 1 .. MaxT + 1]
  /\ view \in [Writers -> SUBSET Record]
  /\ poisoned \subseteq Writers
  /\ value \in [Writers -> SUBSET Record]
  /\ batch \in [Writers -> SUBSET Record]
  /\ queue \in [Writers -> SUBSET Txs]
  /\ pub \in [Writers -> SUBSET Record]
  /\ passing \subseteq Writers
  /\ deposed \subseteq Writers
  /\ hosted \in [Owners -> Writers \cup {NoWriter}]
  /\ status \in [Txs -> {"new", "sent", "acked", "refused", "failed"}]
  /\ acked \subseteq Record
  /\ faults \in 0 .. MaxFaults /\ passes \in 0 .. MaxPasses

(***************************************************************************)
(* No acknowledged transaction is ever lost: whatever deposed writers      *)
(* still append, the takeover cutoff never drops an acknowledged record    *)
(* ("a batch we ack is provably in the successor's replay", node.rs).      *)
(***************************************************************************)
AckedDurable == acked \subseteq Merged(log)

(* Records as DurableLog sees them. *)
Durable == INSTANCE DurableLog WITH committed <- Merged(log), told <- acked

(***************************************************************************)
(* The commit path implements the promise of DurableLog: a commit is       *)
(* acknowledged only once the record is what the next recovery reads, and  *)
(* nothing that happens afterwards takes it away (flush_commit_batch,      *)
(* version_cutoffs).                                                       *)
(***************************************************************************)
ImplementsDurableLog == Durable!Spec

(***************************************************************************)
(* Takeover is complete: the database value a successor serves contains    *)
(* every transaction acknowledged under an earlier lease version, whether  *)
(* it was recovered from the whole log or from a published index and its   *)
(* tail.                                                                   *)
(***************************************************************************)
SuccessorComplete ==
  \A w \in Writers : phase[w] \in Serving =>
    \A r \in acked : r.v < ver[w] => r \in value[w]

(***************************************************************************)
(* The published index misses no acknowledged transaction at or below its  *)
(* basis; recovery from it never reads that part of the log again.         *)
(***************************************************************************)
IndexCoversAcked ==
  \A r \in acked : (\E s \in root.index : r.t <= s.t) => r \in root.index

(***************************************************************************)
(* Acknowledged transactions are totally ordered: no two share a t.        *)
(***************************************************************************)
OneAckPerT == \A r, s \in acked : r.t = s.t => r = s

(***************************************************************************)
(* Index publication is monotone in the basis across takeovers, late       *)
(* publishers and restarts (publish_indexes: "monotone in index_basis_t"). *)
(***************************************************************************)
IndexNeverRollsBack == [][~Newer(root.index, root'.index)]_vars

(***************************************************************************)
(* What comments of the code say of stale appends, takeover and retries.   *)
(* The first two hold on the filesystem log as long as the lease changes   *)
(* hands only once; beyond that each of the four is refuted by a run.      *)
(***************************************************************************)

(***************************************************************************)
(* "A deposed writer therefore cannot corrupt ... the log" (corium-log):   *)
(* the merged log never has a hole or a repeated t, so every reader can    *)
(* open it.                                                                *)
(***************************************************************************)
LogReadable == Readable(Merged(log))

(***************************************************************************)
(* "... or fork the log": every record in the value the lease holder       *)
(* serves is in the merged log, which the next replay will read.           *)
(***************************************************************************)
HolderNeverForked ==
  \A w \in Writers :
    phase[w] \in Serving /\ w \notin deposed /\ Owns(w)
      => value[w] \subseteq Merged(log)

(***************************************************************************)
(* A client retries only what is "provably pre-commit ... without risking  *)
(* a duplicate transaction" (corium-peer): no transaction is in the merged *)
(* log twice.                                                              *)
(***************************************************************************)
RetryCommitsOnce ==
  \A r, s \in Merged(log) : r.x = s.x => r = s

(***************************************************************************)
(* "the live value stays in lock-step with the durable log" (node.rs): a   *)
(* database between flushes prepares the very t its log handle expects,    *)
(* so it can commit.                                                       *)
(***************************************************************************)
LockStep ==
  \A w \in Writers :
    phase[w] = "idle" /\ w \notin deposed => IsLast(next[w] - 1, value[w])

=============================================================================
