------------------------------- MODULE Blobs -------------------------------
(***************************************************************************)
(* Index publication against garbage collection: the blob store every      *)
(* process of a deployment shares, the root each database publishes, the   *)
(* pass that uploads chunks and then swings that root, and the mark and    *)
(* sweep that deletes what no root reaches.                                *)
(*                                                                         *)
(* A blob is named by its content.  An index is a set of leaf chunks and a *)
(* manifest that lists them; Content says which leaves a database has at   *)
(* each basis, so a leaf may go and come back.  A process runs one pass or *)
(* one collection at a time (its gc_lock); two processes share no lock.    *)
(* The lease is a version in the root here (module HaCommit has its        *)
(* protocol); it lapses at any moment.                                     *)
(***************************************************************************)
EXTENDS Integers, FiniteSets, Functions

CONSTANTS
  Nodes,      \* processes
  Dbs,        \* database names
  Deployments, \* the processes, names, collecting processes and the bounds
               \* on creations, transactions and crashes of each deployment considered
  Leaves,     \* leaf contents
  Content,    \* Content[l][t]: the leaves at basis t of the l-th database of a name
  None,
  MaxT,       \* the last basis of Content
  MaxLives,   \* the databases of a name Content knows
  MaxLease    \* bound on the lease version

ASSUME BlobsAssumption ==
  /\ Deployments \subseteq 
       [procs : SUBSET Nodes, names : SUBSET Dbs, gc : SUBSET Nodes,
        lives : 1..MaxLives, txs : 0..MaxT, crashes : Nat]
  /\ MaxT \in Nat /\ MaxLives \in Nat \ {0} /\ MaxLease \in Nat \ {0}
  /\ Content \in [1..MaxLives -> [0..MaxT -> SUBSET Leaves]]
  /\ IsFiniteSet(Nodes) /\ None \notin Nodes
  /\ \A L \in SUBSET Leaves : L # None /\ \A t \in 0..MaxT : <<t, L>> # None

VARIABLES
  deploy,    \* the deployment: it never changes
  store,     \* the blob store: "absent", "fresh" or "old" (past the retention)
  root,      \* the `db:` root of each name, or None
  lives,     \* how often each name was created
  live,      \* the names in the catalog
  log,       \* the basis of each name's log
  hosted,    \* the transactor each process hosts for each name, or None
  job,       \* what each process does under its gc_lock, or None
  crashes

vars == <<deploy, store, root, lives, live, log, hosted, job, crashes>>

Leaf(l) == <<"leaf", {l}>>
Manifest(L) == <<"manifest", L>>
Ids == {Leaf(l) : l \in Leaves} \cup {Manifest(L) : L \in SUBSET Leaves}

(* What index_blob_children finds from the manifest of the leaves L. *)
Reach(L) == {Leaf(l) : l \in L} \cup {Manifest(L)}

(* The blobs the live roots reach. *)
Live == UNION {Reach(root[d].leaves) :
                 d \in {e \in Dbs : root[e] # None /\ root[e].leaves # None}}

(* The blob of B that comes first: chunks before manifests. *)
First(B) ==
  LET chunks == {b \in B : b[1] = "leaf"}
  IN IF chunks = {} THEN CHOOSE b \in B : TRUE ELSE CHOOSE b \in chunks : TRUE

Present(b) == store[b] # "absent"

(***************************************************************************)
(* A DbRoot: its lease, index basis and index manifests.  life and carried *)
(* are ghosts: the database the index was built from, and the chunks its   *)
(* pass named without uploading them.                                      *)
(***************************************************************************)
Root(v, o, t, L, l, c) ==
  [lease |-> v, owner |-> o, basis |-> t, leaves |-> L, life |-> l,
   carried |-> c]

(* RootIndexState::of: what a publication pins, whatever the lease is. *)
IndexState(r) ==
  IF r = None THEN <<0, None>> ELSE <<r.basis, r.leaves>>

Init ==
  /\ deploy \in Deployments
  /\ store = [b \in Ids |-> "absent"]
  /\ root = [d \in Dbs |-> None]
  /\ lives = [d \in Dbs |-> 0] /\ live = {}
  /\ log = [d \in Dbs |-> 0]
  /\ hosted = [n \in Nodes |-> [d \in Dbs |-> None]]
  /\ job = [n \in Nodes |-> None]
  /\ crashes = 0

(* One process serves the store. *)
Alone == Cardinality(deploy.procs) = 1

Created == FoldFunction(+, 0, lives)

Idle(n) == n \in deploy.procs /\ job[n] = None

-----------------------------------------------------------------------------
(* Databases and their hosts. *)

(***************************************************************************)
(* The lease is acquired over what the root holds, keeping its index, and  *)
(* the transactor recovers from that index when it is whole, from the log  *)
(* otherwise; nothing it may carry over is remembered.  l and t are the    *)
(* database and the basis of the log.                                      *)
(***************************************************************************)
Open(n, d, l, t) ==
  LET r == root[d]
      kept == r # None /\ r.leaves # None
      whole == kept /\ \A b \in Reach(r.leaves) : Present(b)
      v == IF r = None THEN 1 ELSE IF r.owner = n THEN r.lease ELSE r.lease + 1
      from == IF whole THEN r.life ELSE l
      basis == IF whole /\ r.basis > t THEN r.basis ELSE t
  IN /\ v <= MaxLease
     /\ root' = [root EXCEPT ![d] =
          IF r = None THEN Root(v, n, 0, None, l, {})
                      ELSE Root(v, n, r.basis, r.leaves, r.life, r.carried)]
     /\ hosted' = [hosted EXCEPT ![n][d] =
          [lease |-> v, life |-> from, t |-> basis, pub |-> None]]

(* create_db and the open_db it ends with. *)
Create(n, d) ==
  /\ n \in deploy.procs /\ d \in deploy.names \ live
  /\ Created < deploy.lives /\ lives[d] < MaxLives
  /\ hosted[n][d] = None
  /\ lives' = [lives EXCEPT ![d] = @ + 1] /\ live' = live \cup {d}
  /\ log' = [log EXCEPT ![d] = 0]
  /\ Open(n, d, lives[d] + 1, 0)
  /\ UNCHANGED <<deploy, store, job, crashes>>

(* A standby's takeover of a lapsed lease, and a restart: open_db. *)
TakeOver(n, d) ==
  /\ n \in deploy.procs /\ d \in live /\ hosted[n][d] = None
  /\ Open(n, d, lives[d], log[d])
  /\ UNCHANGED <<deploy, store, lives, live, log, job, crashes>>

(* The holder commits a transaction. *)
Transact(n, d) ==
  LET h == hosted[n][d]
  IN /\ h # None /\ root[d] # None /\ root[d].lease = h.lease
     /\ h.t < MaxT /\ FoldFunction(+, 0, log) < deploy.txs
     /\ hosted' = [hosted EXCEPT ![n][d] = [h EXCEPT !.t = h.t + 1]]
     /\ log' = [log EXCEPT ![d] = h.t + 1]
     /\ UNCHANGED <<deploy, store, root, lives, live, job, crashes>>

(***************************************************************************)
(* delete_db, on a process that hosts the name: it waits for no pass, and  *)
(* a pass under way goes on with the transactor it has.                    *)
(***************************************************************************)
Delete(n, d) ==
  /\ hosted[n][d] # None /\ d \in live
  /\ hosted' = [hosted EXCEPT ![n][d] = None]
  /\ root' = [root EXCEPT ![d] = None]
  /\ live' = live \ {d}
  /\ UNCHANGED <<deploy, store, lives, log, job, crashes>>

(* A process dies and comes back with nothing hosted. *)
Crash(n) ==
  /\ n \in deploy.procs /\ crashes < deploy.crashes
  /\ crashes' = crashes + 1
  /\ hosted' = [hosted EXCEPT ![n] = [d \in Dbs |-> None]]
  /\ job' = [job EXCEPT ![n] = None]
  /\ UNCHANGED <<deploy, store, root, lives, live, log>>

-----------------------------------------------------------------------------
(* Publication. *)

(***************************************************************************)
(* PublishedIndexes::is_current: the stored root is exactly the one the    *)
(* transactor h published last.                                            *)
(***************************************************************************)
IsCurrent(pub, r, lease) ==
  /\ pub # None /\ r # None
  /\ r.lease = lease /\ IndexState(r) = <<pub.basis, pub.leaves>>

(***************************************************************************)
(* plan_indexes, plan_history_indexes and plan_chunk: a leaf the fold of   *)
(* the tail left alone keeps the chunk it was published as.                *)
(***************************************************************************)
Carried(prev, leaves) == IF prev = None THEN {} ELSE prev.leaves \cap leaves

(***************************************************************************)
(* The first half of publish_pass by the transactor h: the root is read,   *)
(* the leaves of the last publication are folded if it is current, and the *)
(* index state it was read with is pinned.  Without a usable publication   *)
(* every leaf is rebuilt.  again says that the root is what it publishes.  *)
(***************************************************************************)
Plan(d, h, prev) ==
  LET usable == IsCurrent(prev, root[d], h.lease)
      leaves == Content[h.life][h.t]
      carried == Carried(IF usable THEN prev ELSE None, leaves)
  IN [kind |-> "pass", db |-> d, host |-> [h EXCEPT !.pub = None],
      again |-> IsCurrent([basis |-> h.t, leaves |-> leaves], root[d], h.lease),
      pin |-> IF usable THEN IndexState(root[d]) ELSE None,
      leaves |-> leaves, carried |-> carried,
      todo |-> Reach(leaves) \ {Leaf(l) : l \in carried}]

(* A root of a newer lease deposes the transactor h. *)
Fenced(d, h) == root[d] # None /\ root[d].lease > h.lease

(* The transactor that h was a snapshot of, if n still hosts it. *)
SameHost(n, d, h) ==
  /\ hosted[n][d] # None
  /\ hosted[n][d].lease = h.lease /\ hosted[n][d].life = h.life

(* depose: in HA mode the name returns to standby; alone the process stops. *)
Depose(n, d, h) ==
  hosted' = IF SameHost(n, d, h) THEN [hosted EXCEPT ![n][d] = None]
                                 ELSE hosted

(* publish_db_indexes: the last publication is taken, a pass begins. *)
StartPass(n, d) ==
  LET h == hosted[n][d]
  IN /\ Idle(n) /\ h # None
     /\ IF Fenced(d, h)
          THEN Depose(n, d, h) /\ UNCHANGED job
          ELSE /\ hosted' = [hosted EXCEPT ![n][d] = [h EXCEPT !.pub = None]]
               /\ job' = [job EXCEPT ![n] = Plan(d, h, h.pub)]
     /\ UNCHANGED <<deploy, store, root, lives, live, log, crashes>>

Passing(n) == job[n] # None /\ job[n].kind = "pass"

(* put_if_absent: a blob that is there is left as it is, its age included. *)
PutIfAbsent(b) == IF Present(b) THEN store ELSE [store EXCEPT ![b] = "fresh"]

(***************************************************************************)
(* upload_planned_indexes, one blob: the rebuilt chunks, then the          *)
(* manifest.                                                               *)
(***************************************************************************)
Upload(n) ==
  /\ Passing(n) /\ job[n].todo # {}
  /\ LET b == First(job[n].todo)
     IN /\ store' = PutIfAbsent(b)
        /\ job' = [job EXCEPT ![n] = [job[n] EXCEPT !.todo = @ \ {b}]]
  /\ UNCHANGED <<deploy, root, lives, live, log, hosted, crashes>>

Uploaded(n) == Passing(n) /\ job[n].todo = {}

(* A publication of the same lease is at a newer basis, or is this one. *)
Superseded(j) ==
  LET r == root[j.db]
  IN /\ r # None /\ r.lease = j.host.lease
     /\ \/ r.basis > j.host.t
        \/ IndexState(r) = <<j.host.t, j.leaves>>

(* Mutant: the pin is not compared with the root that is replaced. *)
RacedNever(j) == FALSE

(* The index state the pass pinned is no longer the root's. *)
Raced(j) == j.pin # None /\ IndexState(root[j.db]) # j.pin

(* The pass keeps what it published for the next one to carry over. *)
Keep(n, j) ==
  hosted' = IF SameHost(n, j.db, j.host)
              THEN [hosted EXCEPT ![n][j.db] =
                      [hosted[n][j.db] EXCEPT !.pub =
                         [basis |-> j.host.t, leaves |-> j.leaves]]]
              ELSE hosted

(***************************************************************************)
(* publish_root_pinned and the rest of publish_indexes.  A pass that was   *)
(* raced starts over and carries nothing, and is deposed then if the root  *)
(* is fenced too; a superseded one remembers its leaves only if the root   *)
(* it read was already this publication.                                   *)
(***************************************************************************)
Install(n) ==
  LET j == job[n]
      h == j.host
      d == j.db
  IN /\ Uploaded(n)
     /\ \/ /\ Raced(j) /\ ~Fenced(d, h)
           /\ job' = [job EXCEPT ![n] = Plan(d, h, None)]
           /\ UNCHANGED <<root, hosted>>
        \/ /\ Fenced(d, h)
           /\ Depose(n, d, h)
           /\ job' = [job EXCEPT ![n] = None]
           /\ UNCHANGED root
        \/ /\ ~Raced(j) /\ ~Fenced(d, h) /\ Superseded(j)
           /\ IF j.again THEN Keep(n, j) ELSE UNCHANGED hosted
           /\ job' = [job EXCEPT ![n] = None]
           /\ UNCHANGED root
        \/ /\ ~Raced(j) /\ ~Fenced(d, h) /\ ~Superseded(j)
           /\ root' = [root EXCEPT ![d] =
                Root(h.lease,
                     IF root[d] # None /\ root[d].lease = h.lease
                       THEN root[d].owner ELSE None,
                     h.t, j.leaves, h.life, j.carried)]
           /\ Keep(n, j)
           /\ job' = [job EXCEPT ![n] = None]
     /\ UNCHANGED <<deploy, store, lives, live, log, crashes>>

-----------------------------------------------------------------------------
(* Garbage collection. *)

(* gc_deleted_with_retention takes the gc_lock and lists the roots. *)
StartGc(n) ==
  /\ Idle(n) /\ n \in deploy.gc
  /\ job' = [job EXCEPT ![n] =
       [kind |-> "gc", dbs |-> {d \in Dbs : root[d] # None}, marked |-> {},
        dead |-> None]]
  /\ UNCHANGED <<deploy, store, root, lives, live, log, hosted, crashes>>

Collecting(n) == job[n] # None /\ job[n].kind = "gc"

(* Mutant: only the databases this process hosts are marked. *)
MarksHosted(d) ==
  IF root[d] = None \/ root[d].leaves = None \/ \A n \in Nodes : hosted[n][d] = None
    THEN {} ELSE Reach(root[d].leaves)

(* The blobs mark_reachable walks for the name d. *)
Marks(d) ==
  IF root[d] = None \/ root[d].leaves = None THEN {} ELSE Reach(root[d].leaves)

(***************************************************************************)
(* One listed root is read and walked; a blob that is missing fails the    *)
(* collection before it deletes anything.                                  *)
(***************************************************************************)
Mark(n, d) ==
  /\ Collecting(n) /\ d \in job[n].dbs
  /\ job' = [job EXCEPT ![n] =
       IF \A b \in Marks(d) : Present(b)
         THEN [job[n] EXCEPT !.dbs = @ \ {d}, !.marked = @ \cup Marks(d)]
         ELSE None]
  /\ UNCHANGED <<deploy, store, root, lives, live, log, hosted, crashes>>

(* Mutant: a sweep looks at the chunks only and leaves manifests behind. *)
StartSweepChunks(n) ==
  /\ Collecting(n) /\ job[n].dbs = {} /\ job[n].dead = None
  /\ job' = [job EXCEPT ![n] = [job[n] EXCEPT !.dead =
       {b \in Ids \ job[n].marked : b[1] = "leaf" /\ store[b] = "old"}]]
  /\ UNCHANGED <<deploy, store, root, lives, live, log, hosted, crashes>>

(* sweep_unmarked: the clock is read; unmarked blobs of that age are dead. *)
StartSweep(n) ==
  /\ Collecting(n) /\ job[n].dbs = {} /\ job[n].dead = None
  /\ job' = [job EXCEPT ![n] = [job[n] EXCEPT !.dead =
       {b \in Ids \ job[n].marked : store[b] = "old"}]]
  /\ UNCHANGED <<deploy, store, root, lives, live, log, hosted, crashes>>

Sweeping(n) == Collecting(n) /\ job[n].dead # None

(* One blob is deleted, unless it was written again meanwhile. *)
Sweep(n) ==
  /\ Sweeping(n) /\ job[n].dead # {}
  /\ LET b == First(job[n].dead)
     IN /\ store' = IF store[b] = "old" THEN [store EXCEPT ![b] = "absent"]
                                        ELSE store
        /\ job' = [job EXCEPT ![n] = [job[n] EXCEPT !.dead = @ \ {b}]]
  /\ UNCHANGED <<deploy, root, lives, live, log, hosted, crashes>>

EndGc(n) ==
  /\ Sweeping(n) /\ job[n].dead = {}
  /\ job' = [job EXCEPT ![n] = None]
  /\ UNCHANGED <<deploy, store, root, lives, live, log, hosted, crashes>>

(***************************************************************************)
(* The retention window passes.  A pass or a collection takes a moment of  *)
(* it, so what a job finds fresh stays so until the job is over.           *)
(***************************************************************************)
Age ==
  /\ \A n \in Nodes : job[n] = None
  /\ "fresh" \in Range(store)
  /\ store' = [b \in Ids |-> IF Present(b) THEN "old" ELSE "absent"]
  /\ UNCHANGED <<deploy, root, lives, live, log, hosted, job, crashes>>

-----------------------------------------------------------------------------
Next ==
  \/ \E n \in Nodes :
       \/ \E d \in Dbs : \/ Create(n, d) \/ TakeOver(n, d) \/ Transact(n, d)
                        \/ Delete(n, d) \/ StartPass(n, d) \/ Mark(n, d)
       \/ Crash(n) \/ Upload(n) \/ Install(n)
       \/ StartGc(n) \/ StartSweep(n) \/ Sweep(n) \/ EndGc(n)
  \/ Age

(* A process carries on with the job it has. *)
Continue(n) ==
  \/ Upload(n) \/ Install(n) \/ StartSweep(n) \/ Sweep(n) \/ EndGc(n)
  \/ \E d \in Dbs : Mark(n, d)

Spec == Init /\ [][Next]_vars

(***************************************************************************)
(* A job goes on unless its process dies; the scheduled collection gets    *)
(* the fair gc_lock after every pass; time passes.                         *)
(***************************************************************************)
FairSpec ==
  /\ Spec
  /\ \A n \in Nodes : WF_vars(Continue(n)) /\ SF_vars(StartGc(n))
  /\ SF_vars(Age)

-----------------------------------------------------------------------------
(* The variables keep their types. *)
TypeOK ==
  /\ deploy \in Deployments
  /\ store \in [Ids -> {"absent", "fresh", "old"}]
  /\ lives \in [Dbs -> 0..MaxLives] /\ live \subseteq Dbs
  /\ log \in [Dbs -> 0..MaxT]
  /\ \A n \in Nodes, d \in Dbs : hosted[n][d] # None =>
       /\ hosted[n][d].lease \in 1..MaxLease /\ hosted[n][d].t \in 0..MaxT
       /\ hosted[n][d].life \in 1..MaxLives
  /\ \A n \in Nodes : job[n] = None \/ job[n].kind \in {"pass", "gc"}
  /\ crashes \in 0..deploy.crashes

(***************************************************************************)
(* Where one process serves the store, every blob a published root reaches *)
(* is in the store: publication (publish_pass) and collection              *)
(* (gc_deleted_with_retention) exclude each other, and a sweep deletes     *)
(* nothing a root names, across crashes, reuse of chunks by another        *)
(* database, deletions and re-creations.  The states are well typed.       *)
(***************************************************************************)
RootIntact == TypeOK /\ (Alone => \A b \in Live : Present(b))

(***************************************************************************)
(* The same for the catalogued databases of a store that several processes *)
(* share.                                                                  *)
(***************************************************************************)
SharedRootIntact == \A d \in live : \A b \in Marks(d) : Present(b)

(***************************************************************************)
(* A publication that names chunks it did not upload (ChunkPlan::Published *)
(* in plan_chunk) replaces a root that still names all of them: the pin of *)
(* publish_root_pinned, also when the name was deleted and created again   *)
(* while the pass ran.                                                     *)
(***************************************************************************)
CarriedFromLive ==
  [][\A d \in Dbs :
       (root'[d] # root[d] /\ root'[d] # None /\ root'[d].carried # {}) =>
         /\ root[d] # None /\ root[d].leaves # None
         /\ root'[d].carried \subseteq root[d].leaves]_vars

(***************************************************************************)
(* The index a root names was built from the database that now has the     *)
(* name, not from one deleted before (delete_db while a pass is under way).*)
(***************************************************************************)
OwnIndex ==
  \A d \in live : (root[d] # None /\ root[d].leaves # None) =>
    root[d].life = lives[d]

(***************************************************************************)
(* Garbage is not kept for ever: where one process serves the store, a     *)
(* blob left behind by a superseded index, a deleted database or a pass    *)
(* cut short is collected in the end (spawn_scheduled_gc, sweep_unmarked)  *)
(* unless a root names it again, whatever passes run in between.           *)
(***************************************************************************)
GarbageSwept ==
  \A b \in Ids :
    (Alone /\ Present(b) /\ b \notin Live) ~> (~Present(b) \/ b \in Live)

=============================================================================
