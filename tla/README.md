# TLA+ models of corium

Corium is a Datomic-like database. One *transactor* process at a time writes a
database: it holds a lease recorded in the database root, appends transactions
to a durable log, and streams them to *peers*, which hold the database value in
memory and answer queries from it. Several processes may stand by for the same
database. This directory models the parts where processes, crashes and stale
state meet (commit, takeover, streaming, sagas, keys, garbage collection, the
catalogue, backup, SQL sessions) and the transaction and merge algorithms they
rest on, checks them with TLC and proves the central safety results with TLAPS. Paths
below are relative to `src/crates/`.

## The system

| Part | Where | What it does |
| --- | --- | --- |
| Database root | `corium-store` `DbRoot` | One small record per database, changed by compare-and-set: lease owner, lease version, published index. |
| Lease | `corium-transactor/src/lease.rs` | Acquire (bumps the version when the owner changes), renew, verify, release. |
| Log | `corium-log/src/lib.rs`, `backend.rs` | One file (filesystem) or one set of objects (object store) per lease version. Readers merge the versions: a record is dropped if a later version begins at or below its t. |
| Node | `node.rs` | Hosts databases: open and take over, group commit, index passes, standby poller, depose, sagas, catalog, keys, garbage collection. |
| Transactor core | `corium-transactor/src/lib.rs` | Staging cursor, install, recovery, index publication. |
| Metadata root | `node.rs`, `corium-core/src/keyword.rs` | Names of keywords. Records store keyword ids, so the log is decoded against it. It is *not* fenced by the lease. |
| Subscription | `server.rs` | Handshake, log backfill, live reports from a bounded broadcast channel. |
| Peer | `corium-peer/src/lib.rs` | Applies reports, reconnects from its basis, retries `transact`. |
| Sagas | `branch.rs`, `merge.rs`, `expiry.rs`, `corium-tx` | Long transactions on a branch with its own log, merged into the parent. |
| Keys | `keys.rs`, `corium-store/src/key_manifest.rs` | Encryption epochs, rotation, a local write fence. |
| Blobs and GC | `corium-store/src/lib.rs` | Content-addressed segments, mark and sweep. |
| Backup | `corium-transactor/src/backup.rs` | Online incremental archives of a live database, offline restore. |
| SQL | `corium-pgwire/src/lib.rs`, `corium-sql/src/mutation.rs` | PostgreSQL sessions; mutations become transaction forms. |
| Transactions | `corium-tx/src/lib.rs`, `merge.rs` | From forms to datoms; squash, conflict scan, merge. |
| Pure parts | `corium-db`, `-index`, `-query`, `-sql`, `-forms`, `-authz` | Functions of an immutable database value. |
| Surfaces | `corium-cli`, `-client`, `-ffi`, `-jni`, `-python`, `-wasm` | Wiring, protocols, language bindings. |

The commit protocol in one paragraph. A request is queued; whoever gets the
database's `commit` lock drains the queue, prepares the requests one after the
other against a staging value, appends them as one batch, installs them in
memory, and *then* reads the root to see whether the lease is still its own
(the *fence*). Only then are callers answered and peers told. There is no
ownership check before the append: a deposed writer may append at any time, and
safety rests on the fence, on the successor replaying the log after it rewrote
the root, and on the cutoff rule of the merged log.

## Modules

| Module | Models | State and actions |
| --- | --- | --- |
| `HaCommit` | Lease, versioned log (both backends), commit, fence, takeover, index publication, for any number of processes | A *writer* is one `DbState`; a process may own several at once, because requests and background jobs keep an old one alive. `Acquire`, `OpenLog`, `ReadRoot`, `Replay` are the steps of `open_db`; `Route`, `Prepare`, the `File...` or `Put...` steps and `Fence...` those of a flush; `BeginPass`, `InstallRoot`, `PassFenced` those of an index pass. `RenewLost`, `Release`, `Crash`, `LatePut` come from outside. |
| `DurableLog` | What clients are promised: a set of committed records and the ones they were told of | `Change`, `Acknowledge`. `HaCommit` implements it (`committed <- Merged(log)`, `told <- acked`). |
| `HaCommitProofs`, `GroupCommitProofs`, `PeerStreamProofs`, `SagaProofs`, `BlobsProofs`, `KeysProofs`, `CatalogProofs`, `PgSessionProofs` | Theorems about the module of that name | |
| `GroupCommit` | One hosted database in detail: queue, lock, flush, dropped handlers, naming | `Submit`, `Lead`, `Collect` are the loop of `transact_inner`; the rest are the stages of `flush_commit_batch`. `ReadMeta`, `TakeOver`, `StaleWrite` are what another process and a deposed leader do to the names. |
| `PeerStream` | Subscription and peer across one takeover | `Install`, `FenceOk`, `FenceLost`, `FenceError` are a server's commits, its own lease lost or not; `Subscribe`, `Snapshot`, `Backfill`, `Live`, `Lagged` are the stream task; `Handshake`, `ApplyItem`, `StreamEnds`, `Disconnect` the peer's loop. |
| `Saga` | One saga on a pair of nodes: registry entry, branch with its own log, steps, merge, abort, expiry, sweep, liveness pass, a fork that inherits it | Parent transactions (`OpenSaga`, `ExtendSaga`, `FlipStatus`, `OtherTx`, `TxFence`), `EnsureBranchMeta`, `StepPrepare`/`StepAppend`/`StepFence`, `CommitLock`/`CommitAppend`/`OpFence`, `Abort`, `SweepExpire`, `LivenessPass`, `FinishAppend`, `DiscardBranch`; lease moves, crashes and `ForkDb`. |
| `Tx` | A database value as a set of facts, interning, and `prepare` of `corium-tx` as operators | Tempids, upsert through unique attributes, cardinality, component retraction, compare-and-set. |
| `TxMerge` | A branch beside its parent, on database values | Parent transactions, the opening with a leased block of ids, steps with their rules, `squash`, `scan`, resolutions, and the merge of what is left. |
| `Blobs` | The shared blob store: index passes against mark and sweep, on one or two processes | `Create`, `Transact`, `Delete`, `TakeOver`; `StartPass`, `Upload`, `Install`; `StartGc`, `Mark`, `StartSweep`, `Sweep`, `EndGc`; `Age` is the retention time passing, `Crash`. |
| `Keys` | Storage-key epochs of one encrypted database | `OpenKeys`/`OpenLease`, `Commit`, `BranchBegin`/`BranchAppend` (a step of a saga branch, which has its own lock and its parent's cipher), `RotateStorageKey`, `RewrapKeys`, `publish_key_manifest`, `bump_key_manifest_version`, `Adopt`, `RefreshRead`/`RefreshLoad`, `Kms`, `Crash`. |
| `Catalog` | Create, fork and delete of one name, write by write, on nodes that may host it | `create_db`, `create_key_manifest`, `CreateMeta`, `fork_db`, `ForkAppend`, `Undo...`, `Delete...` and `OpenNew` are the requests; `Start` (startup), `standby_scan` (the poll, at any moment), `RenewLost`, `Commit` and `Crash` are what else nodes do. A lease may expire while its owner lives. |
| `Backup` | Online backup and offline restore beside a live source | The source's `CommitAppend`, `Fence`, `TakeOver`, `Rotate`, `Publish`, `Sweep`, `Recreate`; the reads and writes of a backup one by one; those of a restore and its undo; `Crash`. |
| `PgSession` | SQL sessions over the PostgreSQL wire on a shared peer connection | `simple_query`, `Execute`, `Sync`, `fail_extended` take messages in; `Begin`, `Rollback`, `Read`, `Stage`, `Plan`/`Submit`, `commit_transaction` run statements; `PeerAdvance`, `OpenSaga`, `EndSaga` are the rest of the world. |
| `MC...` | Model-checking instances | Symmetry sets and concrete values only. |

They compose by abstraction. `HaCommit` opens up lease, append and fence; the
others take from it what it shows: `GroupCommit` an atomic lease and append,
`PeerStream` and `Saga` the cutoff rule reduced to "an append cuts off what an
older version wrote and its writer had not read", `Keys`, `Catalog`, `Backup`
and `Blobs` a lease version in a root. `Saga` is the control of a saga and
`TxMerge` its data; `TxMerge` and `PgSession` share `prepare` (`Tx`). A record is
the lease version, its t and a transaction name (and the epoch that sealed it,
where keys matter); codecs and sizes are left out. The byte limit of a batch is
the freedom to end it early. Every read followed by a compare-and-set of the
exact bytes, retried on conflict, is one step. Definitions whose comment begins
with *Mutant* are not part of a specification: each is a plausible bug that the
property it belongs to must catch.

Several modules have a variable `deploy`: the deployment of the behaviour (which
processes run, what may fail, the bounds), chosen in the initial state from the
constant `Deployments` and never changed. One run then covers several shapes,
each with the bounds its case needs.

## Runs

All bounds are constants or fields of a deployment. Deadlock checking is off
because the bounds stop the system: when they are used up, nothing is left to do.

| Run | Instance | Shows |
| --- | --- | --- |
| `ha_fs` | Filesystem log, 2 processes, 3 writers, lease versions 0..2, t up to 3, batches of 2, one fault, one index pass | `ImplementsDurableLog`; and, while the lease changes hands once, `LogReadable` and `HolderNeverForked`. |
| `ha_native` | Object store, 3 writers, versions 0..2, three transactions, t up to 2, ambiguous and late puts, two index passes | `AckedDurable`, `SuccessorComplete`, `IndexCoversAcked` when recovery starts from an index, also where the log has become unreadable. With `MaxVersion = 3` and one pass the same holds (3.0 million states, six minutes). |
| `group_commit` | 3 callers, two using one keyword, one conditional, one fault, one takeover | `CommitsInArrivalOrder`, `AnswersTrue`, `ConditionalExact`, `CallersReturn`. |
| `peer_stream` | 1 peer, t up to 3, broadcast capacity 1, window 2, two faults, one takeover, commits of the deposed server until it notices | `HoldsAcked`: no acknowledged record up to the basis is skipped, and one that is replaced is replaced by a record its server appended after it had lost the lease. `CatchesUp`. |
| `saga` | 2 nodes, HA and not, the lease lost once, one step, one fault | `MergeCarriesAcked`, `AckedStepsKept`, `EndsTold`, `CompensatedOnce`, `OverdueEnds`. |
| `tx_merge` | 2 entities, a keyword, a unique and a component attribute; up to 2 transactions on each side from about 16 shapes | `SchemaHolds`, `SquashExact`, `MergeExact`, `SeenBeforeOverwritten`, `NothingResurrected`. |
| `blobs` | One process with two names, deletion and re-creation, or a crash; two processes without scheduled collection | `RootIntact`, `CarriedFromLive`, `GarbageSwept`. |
| `keys` | One process and a pair, 3 epochs, with and without failing store and KMS, re-wrapping, steps of a saga branch, crashes | `LogOpenable`, `Counted` (records of the database's own log, one process, no failures), `FenceHolds`, `CatchesUp`. |
| `catalog` | One node without a poller, or an HA pair that polls and may lose a lease while alive; requests one at a time, with crashes between them or in their middle, encrypted source or not; two requests that overlap | `CatalogHolds`, `EncryptedSealed`, `ForkWhole`, `Served`, under the conditions below. |
| `backup` | A takeover around two backups; rotations and publications; three backups and two restores of which two die or cannot undo all they wrote; a re-created source | `ArchiveTrue`, `ArchiveOpens`, `ArchiveKept`, `RestoreWhole`. |
| `pg` | A long block beside an autocommit, two racing blocks, the extended protocol, lost answers, a saga | `CommitSerial`, `AbortedNeverCommits`, `RepeatableRead`. |
| `v_retry` | 2 writers, one transaction | Ends in a violation of `RetryCommitsOnce`, see below. |

Why the bounds are enough to be interesting. Three writers on two processes
give a takeover and a return of the first process; two records per batch allow a
partly written batch. A capacity of 1 makes every second undelivered report a
lag; a single peer suffices because peers share only what they read. One step is
enough in `saga` because acknowledgement, merge and loss treat steps one by one,
and the lease lost once already puts every handler on either side of a takeover.
Two transactions per side in `tx_merge` make drift that is later undone, a unique
value that moves and a retraction followed by a write. A leaf that goes and comes
back in `blobs` is the only way a chunk can be both garbage and about to be
named. Three epochs in `keys` let a host be two behind. The runs reach every
action.

What `catalog` leaves out of its claims. The four properties speak of requests
that come one at a time (`serial`); polls, expiries, renewals and commits fall
anywhere between and inside them. `CatalogHolds` and `Served` further ask that no
request was cut short, and the contents are compared when no delete is under
way. On an HA pair two kinds of host can spoil a database, and what they
append is excepted: one that took the lease between the two root removals of a
delete and is left hosting (`stray`; all four), and one that opened a clear database
while the manifest of an encrypted create that then lost the name was in place
(`misled`; `CatalogHolds` and `Served`). Both happen, see `DeletedGone` and
`ClearStays` under further results; without the exceptions TLC refutes the three
invariants. A node without a poller has neither, and there the properties
hold without exception. With overlapping requests only `OnlyCatalogued` is
claimed.

In the same way `RestoreWhole` is about a target whose undo, if there was one,
removed what it tried to remove (`NeverPartial` below); `Counted`
counts the records of a database's own log and not those of its branches
(`NoncesCounted`); `HolderNeverForked` and `LogReadable` are about one change of
hands, `MergeCarriesAcked` and `AckedStepsKept` about two lease terms,
`SchemaHolds` about transactions without `:db/cas` of a unique attribute, and
`CommitSerial` about connections without blocks leased to sagas. The rows
under further results say what lies beyond these limits.

The type invariant of a module is a conjunct of one of its properties
(`AnswersTrue`, `HoldsAcked`, `EndsTold`, `SchemaHolds`, `RootIntact`,
`LogOpenable`, `CatalogHolds`, `ArchiveTrue`, `RepeatableRead`); that of
`HaCommit` is a theorem.

Fairness. `group_commit`: a flush that was started is polled to its end
(weak fairness of its steps), and tokio's mutex is first-in first-out, so a
waiter gets the lock (strong fairness, the lock being free only now and then).
`peer_stream`: stream tasks and the peer's loop are polled, the reconnect loop
never gives up, a deposed server notices at a renewal, a standby's poller takes
over a database whose server is gone. `saga`: a handler that was started goes on,
the sweep and the standby poller run periodically (`Continue`). `blobs`: a pass
or a collection that was started goes on, the scheduled collection starts again
and again, and time passes (`Age`). `keys`: a job goes on and the lease renewal
reads the generation on every tick. `catalog`: a request goes on, a node that
stopped is started again, renewals and polls run, and the lease of an owner that no
longer renews it expires. In each case commits, requests, faults and takeovers from a live
server are never assumed to happen.

### The run that ends in a violation

`v_retry` checks a statement of the repository against the code as modelled: a
retry after "deposed" cannot duplicate (`corium-peer/src/lib.rs:776`). The
deposed writer's record was durable before the successor replayed; the retry
commits the transaction again. The entry under `findings` in `PROJECT.json`
quotes the statement. It does not touch `AckedDurable`: what was acknowledged
stays in the log.

### Further results

These statements are defined in the modules and TLC refutes each within seconds
to two minutes on the instance given. They are kept out of the runs, which are
for what holds.

| Statement | Instance | What TLC shows |
| --- | --- | --- |
| `LockStep`: the live value is in lock-step with the log (`node.rs:3966`) | `MCHaCommit`, 2 writers, `"fs"`, one transaction | A stale append falls between the successor's log open, which fixes `next_t`, and its replay. The successor then rejects its own appends until it is reopened. |
| `HolderNeverForked`: a deposed writer cannot fork the log (`corium-log/src/lib.rs:669`) | `MaxVersion = 3`, 3 processes | The first append of the deposed middle version cuts a record the holder has adopted. |
| `IndexCoversAcked` with a reopened writer (`node.rs:3977`, "a batch we ack is provably in the successor's replay") | 2 processes, 4 writers, `"fs"`, `MaxT = 1`, `MaxVersion = 3`, two transactions, two passes; in seconds when the owners of the four writers are fixed by a state constraint | A late pass of the first process's old writer is fenced and deposes the database by name, which un-hosts the writer it has meanwhile reopened. Reopened again under the *same* version, it replays the middle version's stale record, and then its own un-hosted writer, still the owner by name and version, appends and acknowledges another record with that t. The index published from the replayed value lacks it. |
| `LogReadable` on the object store (`corium-log/src/lib.rs:1025`, "tracking `next_t` in memory is all the append state required") | one writer, three transactions, one fault | A put fails although it landed; the next, longer batch starts at the same t under another key, and the log repeats a t. |
| `NamesDurable`: names are durable before records that use them (`node.rs:3909`) | `group_commit` without faults | A rejected request leaves its keyword interned; the next one that uses it mints nothing and skips the metadata write. With a second keyword and a takeover there is another way: `open_db` reads the names before it has the lease. |
| `Gapless`: no transaction falls between backfill and live stream (`server.rs:65`) | `peer_stream`, `MaxT = 2` | The lease read of the fence fails: the batch is durable and installed but never broadcast, and the peer applies the next report without noticing the missing t. |
| `NoRefusedHeld`: "Post-append fence gates only the acknowledgement and the peer stream" (`node.rs:3974`) | `peer_stream` | A peer backfills an installed record from a deposed server before its fence; the successor acknowledges another record with that t, which the peer takes for old. |
| `MergeCarriesAcked` when the lease comes back (`node.rs:2605`, the hosted and the reopened branch "are the same branch") | `saga`, `ThreeTerms` | `depose` leaves the branches map; the node that regains the lease merges its old overlay without the steps acknowledged in between. |
| `ServedMergeComplete` | `saga`, not HA, `ThreeTerms` | The holder serves a registry whose merge lacks acknowledged steps. |
| `RetryTold`: a commit that lost its acknowledgement "is a commit that happened" (`node.rs:2628`) | `saga`, HA | The repeated `saga_commit` answers from the deposed node's value without a fence; the successor's log has the saga open. |
| `ReturnsToStandby`: a deposed HA database returns to standby (`node.rs:917`) | `saga`, HA, fair | The fence of a step deposes the branch's name, which is hosted nowhere; the parent stays hosted and deposed. |
| `SchemaHolds` with `:db/cas` of a unique attribute (`manual/src/running/schema.md:162`) | `tx_merge`, steps `CasStep` | The `Cas` branch of `prepare` does not ask for another holder of the new value. |
| `NoDriftNoConflict`: an untouched parent leaves nothing to resolve (`merge.rs:148`, `:694`) | `tx_merge` | A branch that moves a unique value between two entities meets a conflict that cannot be overridden. |
| `SharedRootIntact`: collection never runs during publication (`manual/src/availability/gc.md:25`) | `blobs`, `OnlyPair` | `gc_lock` belongs to one process. A pass on the other finds an old unreferenced chunk in place and names it; the sweep deletes it. |
| `OwnIndex`: deletion removes the database at once (`manual/src/running/catalog.md:104`) | `blobs` | A pass of the deleted database installs its index as the root of the next database of the name, which starts at the same lease version. |
| `LeavesClosedEpoch`: a rotation is picked up without a restart (`node.rs:3425`) | `keys`, fair | The manifest is durable, its announcement fails, and no host ever reloads; records go on under an epoch the budget no longer counts. |
| `NoncesCounted`: an epoch's span of t "is the number of nonces drawn" (`key_manifest.rs:269`) | `keys` | One step of a saga branch: it is sealed with the parent's cipher (`node.rs:1914`) and numbered in its own log. |
| `BranchFenceHolds`: the key fence "has to come first" (`node.rs:3728`) | `keys` | A branch's flush passes the fence; its host then learns of a newer epoch it cannot load and fences itself; the flush, which does not hold the parent's lock, seals under the closed epoch. |
| `DeletedGone`: `delete_db` "unhosts it, releases its lease, and removes its roots and log" (`node.rs:3178`) | `catalog` | A poll falls between the removal of the database root and that of the metadata root: it takes version 1 and hosts, and nothing tells it that the name is gone. |
| `ClearStays`: "a database created without one stays unencrypted" (`node.rs:2990`) | `catalog` | A second, encrypted create of the name has written its manifest and not yet lost; a standby that takes over in this moment opens the clear, still empty database with those keys and seals under them; the loser then deletes them. |
| `SharedAcked`: a losing fork discards its own log copy (`node.rs:3160`) | `catalog`, `MCRacing` | `fork_lock` belongs to one node; the fork that loses the name deletes every record under it, the created database's included. |
| `OneDatabase`: "the destination belongs to another database" (`backup.rs:1096`) | `backup`, `MCReborn` | The check compares names; an incremental run extends the old database's archive with the new one's records. |
| `NeverPartial`: "a node can never discover a partially restored database" (`backup.rs:1373`) | `backup` | The publication fails after the metadata root was written, though the restore was told it had failed; the undo's deletion of that root fails too, which is ignored, and the undo removes the others. |
| `CommitAsStaged` (`manual/src/surfaces/sql.md:148`) | `pg`, `MCLeased` | Staging numbers new rows from the value's next id, the transactor past the blocks leased to sagas: `BEGIN; INSERT; DELETE` of that row`; COMMIT` leaves the row. |

### Observations

Behaviours met while modelling that no property here states.

- Commit. A late index pass of an old `DbState` deposes its database *by name*
  (`node.rs:1435`), also if the process has reopened it. With four writers TLC
  finds a process opening a second live writer under the same lease version
  and, from there, two acknowledged records with one t (`OneAckPerT`) (see
  also `IndexCoversAcked` above). `SuccessorComplete` and
  `IndexCoversAcked` are therefore claims about the instance of `ha_native`;
  that the first follows from the second is proved for all (`TakeoverComplete`).
  A chain of three versions and a batch of two can leave a hole in the merged
  log of the object store. A refused batch may be adopted by the successor, and
  the filesystem log can be cut inside a batch.
- Sagas. The sweep expires a saga that was extended between its scan and the
  lock. A step prepared before an abort may be acknowledged after it. The
  liveness pass expires an acknowledged opening if a takeover falls before
  `ensure_branch_meta`. `advance_allocation` ignores explicitly named ids at or
  above `next_user`.
- Catalogue, a crash in the middle of a request. After delete's root removal the
  lease starts again at version 1, and cutoffs can hide later records. A log
  left by a fork blocks later forks and is adopted by a create; a manifest left
  behind makes a later plain create encrypted and unopenable; a log left by a
  delete is replayed by the next database of the name.
- Keys. `open_db` reads the manifest before the lease and the generation after
  it. A failed `Adopt` seals under a closed epoch until the next tick.
- Garbage collection. Retention is measured from the write; databases are
  marked one by one. `FsStore::put` writes one temporary path per blob without
  a lock or `fsync`.
- Backup. Two concurrent incremental runs to one file can damage it. Unchanged
  frames after a re-wrap leave the archive naming the old KEK. A restore's error
  path deletes roots a racing creator made; a log left by a crashed restore
  makes the retry fail with `TargetExists`.
- SQL. A `DELETE` of a key followed by an `INSERT` of it in one block answers a
  new id, but `COMMIT` unifies the tempid with the old entity. Two `INSERT`s of
  one new key are accepted while staging and rejected at `COMMIT`. `COMMIT` in an
  aborted block is refused; only `ROLLBACK` ends it.

## Proofs

Every theorem holds for all values of the constants that satisfy the named
`ASSUME` of its module: bounds are naturals (positive where the code needs one),
null values differ from what they stand beside, `Nodes` and `Hosts` are finite,
and tables such as `Content`, `Uses`, `Expects`, `MaxTerm` and `Deployments` have
their type. The number of processes, callers, peers, sessions, names, records,
epochs, saga steps, faults and takeovers is arbitrary.

| Module | Theorem | Statement |
| --- | --- | --- |
| `HaCommitProofs` | `TypeCorrect` | `Spec => []TypeOK` |
| | `AckedNeverLost` | `Spec => []AckedDurable`: no acknowledged record is ever cut, on either backend. |
| | `Implements` | `Spec => ImplementsDurableLog`: the commit path implements `DurableLog`. |
| | `TakeoverComplete` | `Spec /\ []IndexCoversAcked => []SuccessorComplete`: as long as no published index misses an acknowledged record, no takeover does. |
| | `IndexMonotone` | `Spec => IndexNeverRollsBack`: no publisher, however late, takes the index back. |
| `GroupCommitProofs` | `BatchingInvisible` | `Spec => []CommitsInArrivalOrder` |
| | `AnswersAlwaysTrue` | `Spec => []AnswersTrue` |
| | `ConditionalAlwaysExact` | `Spec => []ConditionalExact` |
| `PeerStreamProofs` | `PeersHoldAcked` | `Spec => []HoldsAcked`: no acknowledged record is skipped, and only a record refused to a deposed server can stand in the place of one. |
| `BlobsProofs` | `RootsStayIntact` | `Spec => []RootIntact` (which speaks of a store that one process serves) |
| | `CarriesOnlyLive` | `Spec => CarriedFromLive`, with any number of processes |
| `KeysProofs` | `AlwaysOpenable` | `Spec => []LogOpenable` |
| | `FenceAlwaysHolds` | `Spec => FenceHolds` |
| | `ManifestOnlyGrows` | `Spec => EpochKeyStable`: an epoch never leaves the manifest nor changes its key. |
| | `BudgetExact` | `Spec => []Counted`: an epoch's span is the number of records of the database's own log sealed under it, whatever its branches seal (one process, neither store nor KMS fails). |
| `SagaProofs` | `EndsAreTold` | `Spec => []EndsTold`: a saga keeps the end its caller was told, through any takeovers, stale appends and crashes. |
| | `CompensationOnce` | `Spec => []CompensatedOnce` |
| | `MergeIsWhole` | `Spec /\ []OneHandover => []MergeCarriesAcked`: an answered merge carries every acknowledged step. |
| | `AckedAreKept` | `Spec /\ []OneHandover => []AckedStepsKept` |
| | `ServedIsWhole` | `Spec /\ []OneHandover => []ServedMergeComplete` |
| `CatalogProofs` | `EncryptedStaysSealed` | `Spec => []EncryptedSealed` (requests one at a time, cut short or not, polls and expiries at any moment, as long as no host left by a delete has appended) |
| | `OnlyCataloguedServed` | `Spec => []OnlyCatalogued`: with any overlap of requests, polls, expiries and crashes, what a node hosts is catalogued, or was hosted when a delete removed its metadata root; with one process and one request at a time the latter never is. |
| `PgSessionProofs` | `AbortedStaysOut` | `Spec => AbortedNeverCommits` |

`PeersHoldAcked` includes the commits of a server that was deposed and has not
noticed: it appends, installs and serves backfills until its fence or a renewal
tells it. That a peer never keeps such a record is false (`NoRefusedHeld`);
the theorem says that nothing else can come between a peer and what was
acknowledged.

`[]IndexCoversAcked` in `TakeoverComplete` is a hypothesis because it is false
for larger instances (further results); on the instance of `ha_native` TLC
finds it true.

`[]OneHandover` in the last three theorems about `Saga` says that the lease has
passed at most once (`term <= 2`), to any node, with any number of nodes, steps,
crashes and failed calls before and after. It is a hypothesis because with a
third term the statements are false (further results): a node that gets the
lease back still has the overlay of its first term.

Each proof rests on an inductive invariant, which TLC also finds true on the
instance of the component's run; the step proofs have one lemma per action.

**`HaCommit`, `IInv`.** `AckedDurable` is not inductive: it says nothing about
what a writer *could* still append. The strengthening adds four facts.
`VersionsGranted`: no version is in use that the root has not reached.
`BatchWellFormed` and `BatchProgress`: a flush has records of its own version
with distinct t, and they are durable once it is past the append.
`AppendsAboveAcked`, the heart: a writer that may still append does so above
everything acknowledged under an earlier version. It holds because a writer
opens its log after it bumped the root, and the fence acknowledges only while
the root still has the old version; so whatever an earlier version ever gets
acknowledged was in the log when `next_t` was fixed. `AckedBelowLater` turns it
into the statement about the cutoff rule. For `Implements`, a step either leaves
`acked` alone, and then `AckedDurable` in the next state is all `Change` asks
for, or it is `FenceOk`, which adds records that `BatchProgress` and
`AppendsAboveAcked` show to be in the merged log (`AckStep`). With the mutant
that acknowledges without reading the lease the refinement fails in TLC. For
`TakeoverComplete`, `SnapshotCovers` says what a successor holds between reading
the index and replaying the tail: everything acknowledged earlier at or below
its basis. Nothing can be acknowledged under an earlier version in between, as
the root already has the successor's.

**`GroupCommit`, `GInv`.** Arrival order of the log alone is not inductive,
because a request spends time in three other places. `Ordered` says that log,
prepared batch, drained work and queue, one after the other, are in arrival
order and share no request (once appended, the batch is part of the log).
`Answered` says that exactly the requests in the last three are unanswered, and
that an answer agrees with the log. `Exact` gives every prepared request the
basis it *will* have. All three are operators of constant arguments, with one
lemma for each way a flush moves a request (`OrderSubmit` to `OrderRequeue`), so
the step proofs only say which way an action is.

**`PeerStream`, `PInv`.** A peer misses nothing because of what is on the way to
it. `Holds`: its value agrees with the log where it is not a refused record, and
has every acknowledged t up to its basis. `Sent`: whatever its stream has sent beyond that basis is in flight
on the wire, in order. `Due`: every acknowledged t that the stream has yet to
send is below its snapshot or still in the broadcast from its cursor on. A lag
loses exactly what `Due` needs and ends the stream, which is why it must.
`Prefix`, `Hosting` and `Broadcast` say what the two servers' values, the log
and the reports have to do with each other across the takeover.

**`Blobs`, `BInv`.** `Pinned`: a pass carries chunks over only with the index it
read pinned, and the compare-and-set of the root then succeeds only against that
index. `Safe`, for a store with one process: what a pass names is present or
still in its `todo`, and a collection has walked every root (`Walked`) before
anything is dead; as the two exclude each other, no sweep deletes what a pass
found in place.

**`Keys`, `KInv`, and `SInv` for the budget.** `WellBuilt`: the i-th key of a manifest is
epoch i and only the last is active. `JobOK`: what an operation holds between two
of its steps was read from a manifest of which the durable one is an extension,
and what it is about to publish extends what it read. So a host seals only under
keys of the durable manifest. For the budget, `Solo` adds that with one process
a rotation is computed from the present manifest at the present basis, and
`Spans` that the records of epoch i are those after its opening, up to the next
one's. A branch's flush (`step`) asks for the fence and seals at different
moments, and between them the host's keys may change; `LogOpenable` survives because
whatever they change to is of the durable manifest too.

**`Saga`, `SInv` and `OInv`.** What a caller was told must survive appends by
nodes that do not know that they lost the lease. `Terms`: the owner holds the
newest term and nobody wrote under one that was not granted. `Written`: the
registry in the log is that of the node that wrote last, and a node waiting for
its fence has written. So a fence that finds the lease knows that the log has
what it appended, and `Ended` keeps it: once an end was told, every node whose
append would still be read has the same entry. `Entries` carries `CompensatedOnce`.
`OInv` adds the branch. `Bystanders`, `Passed`: with one handover there are two
nodes that matter and each opens the database once. `OverlayTerms`: the newest
append to the branch log is not newer than the owner's overlay. `OverlayCalls`: a
merge holds the branch's lock, which keeps steps out. `Kept`, the heart: as long
as the saga is open wherever an append counts, the branch log and every overlay
that could still be merged hold all acknowledged steps. `Carried` says the same
of the merge itself.

**`Catalog`, `CInv`.** `EncryptedSealed` is about records, but what writes them
is a host's key, the key comes from the manifest, and three other requests may
take a manifest away, with polls in between. `Hosting`: a host is marked as left
by a delete or its name is catalogued, which is `OnlyCatalogued` but for the case
of one process; that case is `Single`, by which a database that is being
deleted has no host and no poll to give it one. `OneAtATime` and `UnderWay`, for
serial requests: a request that minted a key finds it in the manifest until the
catalogue entry is made, and one that takes keys back does so of a name that no
encrypted database has. `Lives`: no record is of a life to come, so a new
catalogue entry starts without records of its own. With these, `Sealed` (the
manifest, the keys of the hosts that no delete left behind, and the records of
an encrypted database) is inductive.

**`PgSession`, `PInv`.** `Consistent`: a session is aborted, and has staged
writes, only within a block, and submits a statement of its own only outside of
one. `Told`: a block that was answered an error is aborted until it is rolled
back. What `prepare` returns stays opaque.

Only model-checked:

- everything temporal (`CallersReturn`, `CatchesUp`, `OverdueEnds`,
  `GarbageSwept`, `Served`): liveness under fairness is outside what TLAPS proves;
- `IndexCoversAcked`, `LogReadable` and `HolderNeverForked` of `HaCommit` (and
  `SuccessorComplete` without the hypothesis above): they hold for the instances of the runs and are false for larger
  ones (further results), so there is no theorem to prove;
- `CatalogHolds`, `ForkWhole`, and the invariants of `Backup`: they compare whole
  logs (the merged records sorted by t, prefixes, what an archive replays to),
  which needs induction over sequences;
- `CommitSerial` of `PgSession`, and `RepeatableRead`, whose type part includes
  the allocator: both depend on what `prepare` computes;
- `TxMerge`: what `prepare`, `squash` and `scan` compute for every input needs
  induction over forms and datoms, which the installed provers cannot do.

## Not modelled

Clocks (a lease of another owner may expire at any time) and the
legacy lease record; in `Catalog` the steps inside an opening and inside a
commit, so that a poll and a request of one node never open the name at the same
time and a flush never straddles the removal of the log; in `Saga` any other
order of the two commit locks than the code's (branch first, in `saga_commit` and
`saga_finish`); torn tails and frame checksums; the ciphers, blob
encryption and column keys; database functions and value types; schema
migration (it commits through the path `HaCommit` and `GroupCommit` model; its
planner compares two schemas); a peer's start from a stored snapshot and its
segment cache; queries, pull, SQL planning, authorization, codecs, the command
line and the language bindings, which are sequential functions or wiring. They
are most of the repository's lines and have little of what a model checker
finds. `PROJECT.json` lists every component with the reason.

## Plan

1. `Lease` at the level of single reads and compare-and-sets, with expiry,
   renewal and the legacy record, refining the atomic lease of `HaCommit`.
2. Schema migration: the planner of `corium-forms` against the reference
   "applying the plan gives the desired schema, and planning again gives nothing".
3. The peer's segment cache, with eviction and concurrent loads.
4. Query execution against the set semantics of its clauses.
