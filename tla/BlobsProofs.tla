----------------------------- MODULE BlobsProofs -----------------------------
(***************************************************************************)
(* Proofs about module Blobs, for any processes, names, leaves and bounds: *)
(* the roots of a store that one process serves reach no missing blob, and *)
(* a publication carries over only what the root it replaces names.        *)
(***************************************************************************)
EXTENDS Blobs, FiniteSetTheorems, TLAPS

(* Leaves are for Zenon unless they say otherwise. *)
USE ZenonT(60)

Publication == [basis : 0 .. MaxT, leaves : SUBSET Leaves]

Host == [lease : 1 .. MaxLease, life : 1 .. MaxLives, t : 0 .. MaxT,
         pub : Publication \cup {None}]

DbRoot == [lease : 1 .. MaxLease, owner : Nodes \cup {None}, basis : 0 .. MaxT,
           leaves : (SUBSET Leaves) \cup {None}, life : 1 .. MaxLives,
           carried : SUBSET Leaves]

Pass == [kind : {"pass"}, db : Dbs, host : Host, again : BOOLEAN,
         pin : ((0 .. MaxT) \X ((SUBSET Leaves) \cup {None})) \cup {None},
         leaves : SUBSET Leaves, carried : SUBSET Leaves, todo : SUBSET Ids]

Collection == [kind : {"gc"}, dbs : SUBSET Dbs, marked : SUBSET Ids,
               dead : (SUBSET Ids) \cup {None}]

(***************************************************************************)
(* The inductive invariant.  What a root or a pass carries over, the index *)
(* it was planned from names.                                              *)
(***************************************************************************)
Base ==
  /\ deploy \in Deployments
  /\ store \in [Ids -> {"absent", "fresh", "old"}]
  /\ lives \in [Dbs -> 0 .. MaxLives] /\ live \subseteq Dbs
  /\ \A d \in live : lives[d] >= 1
  /\ log \in [Dbs -> 0 .. MaxT]
  /\ crashes \in 0 .. deploy.crashes

Roots ==
  /\ root \in [Dbs -> DbRoot \cup {None}]
  /\ \A d \in Dbs : (root[d] # None /\ root[d].carried # {}) =>
       root[d].leaves # None /\ root[d].carried \subseteq root[d].leaves

Hosts == hosted \in [Nodes -> [Dbs -> Host \cup {None}]]

(* A pass may carry leaves over only with the index it read pinned. *)
Pinned(j) ==
  j.carried # {} =>
    /\ j.pin # None /\ j.pin[2] # None
    /\ j.carried \subseteq j.pin[2] /\ j.carried \subseteq j.leaves

Jobs ==
  /\ job \in [Nodes -> Pass \cup Collection \cup {None}]
  /\ \A n \in Nodes : n \notin deploy.procs => job[n] = None
  /\ \A n \in Nodes : Passing(n) => Pinned(job[n])

(***************************************************************************)
(* Where one process serves the store: no root reaches a missing blob, all *)
(* a pass still has to upload is in its todo, and what a collection may    *)
(* delete is outside of the roots it has walked, all of them by then.      *)
(***************************************************************************)
Walked(j) ==
  /\ \A d \in Dbs : d \in j.dbs \/ Marks(d) \subseteq j.marked
  /\ j.dead # None => j.dbs = {} /\ \A b \in j.dead : b \notin j.marked

Safe ==
  /\ \A d \in Dbs : \A b \in Marks(d) : Present(b)
  /\ \A n \in Nodes : Passing(n) =>
       \A b \in Reach(job[n].leaves) : b \in job[n].todo \/ Present(b)
  /\ \A n \in Nodes : Collecting(n) => Walked(job[n])

BInv == Base /\ Roots /\ Hosts /\ Jobs /\ (Alone => Safe)

-----------------------------------------------------------------------------
(* Data. *)

LEMMA BlobIds ==
  /\ \A l \in Leaves : Leaf(l) \in Ids
  /\ \A L \in SUBSET Leaves : Reach(L) \in SUBSET Ids
  /\ \A L : \A l \in L : Leaf(l) \in Reach(L)
BY DEF Ids, Reach

LEMMA FirstIn ==
  ASSUME NEW B, B # {}
  PROVE  First(B) \in B
BY DEF First

LEMMA RootMade ==
  ASSUME NEW v \in 1 .. MaxLease, NEW o \in Nodes \cup {None}, NEW t \in 0 .. MaxT,
         NEW L \in (SUBSET Leaves) \cup {None}, NEW l \in 1 .. MaxLives,
         NEW c \in SUBSET Leaves
  PROVE  /\ Root(v, o, t, L, l, c) \in DbRoot
         /\ Root(v, o, t, L, l, c).leaves = L
         /\ Root(v, o, t, L, l, c).carried = c
BY DEF Root, DbRoot

(* The root that a pass of a hosted database writes. *)
LEMMA PassRoot ==
  ASSUME NEW j \in Pass, NEW o \in Nodes \cup {None}
  PROVE  /\ Root(j.host.lease, o, j.host.t, j.leaves, j.host.life, j.carried) \in DbRoot
         /\ Root(j.host.lease, o, j.host.t, j.leaves, j.host.life, j.carried).leaves = j.leaves
         /\ Root(j.host.lease, o, j.host.t, j.leaves, j.host.life, j.carried).carried = j.carried
<1>1. j.host \in Host /\ j.leaves \in SUBSET Leaves /\ j.carried \in SUBSET Leaves
  BY DEF Pass
<1>2. j.host.lease \in 1 .. MaxLease /\ j.host.t \in 0 .. MaxT /\ j.host.life \in 1 .. MaxLives
  BY <1>1 DEF Host
<1>3. j.leaves \in (SUBSET Leaves) \cup {None}
  BY <1>1
<1> QED  BY <1>1, <1>2, <1>3 DEF Root, DbRoot

LEMMA RootFields ==
  ASSUME NEW r \in DbRoot
  PROVE  /\ r.lease \in 1 .. MaxLease /\ r.basis \in 0 .. MaxT
         /\ r.life \in 1 .. MaxLives /\ r.carried \in SUBSET Leaves
         /\ r.leaves \in (SUBSET Leaves) \cup {None}
         /\ r.owner \in Nodes \cup {None}
BY DEF DbRoot

LEMMA HostUpdate ==
  ASSUME NEW h \in Host, NEW x \in 0 .. MaxT, NEW q \in Publication \cup {None}
  PROVE  [h EXCEPT !.t = x] \in Host /\ [h EXCEPT !.pub = q] \in Host
BY DEF Host

LEMMA PassUpdate ==
  ASSUME NEW j \in Pass, NEW b
  PROVE  /\ [j EXCEPT !.todo = @ \ {b}] \in Pass
         /\ [j EXCEPT !.todo = @ \ {b}].todo = j.todo \ {b}
         /\ [j EXCEPT !.todo = @ \ {b}].leaves = j.leaves
         /\ [j EXCEPT !.todo = @ \ {b}].carried = j.carried
         /\ [j EXCEPT !.todo = @ \ {b}].pin = j.pin
         /\ [j EXCEPT !.todo = @ \ {b}].kind = "pass"
BY DEF Pass

LEMMA DeadUpdate ==
  ASSUME NEW j \in Collection, NEW X \in SUBSET Ids
  PROVE  /\ [j EXCEPT !.dead = X] \in Collection
         /\ [j EXCEPT !.dead = X].dbs = j.dbs
         /\ [j EXCEPT !.dead = X].marked = j.marked
         /\ [j EXCEPT !.dead = X].dead = X
         /\ [j EXCEPT !.dead = X].kind = "gc"
BY DEF Collection

LEMMA HostedUpdate ==
  ASSUME NEW H \in [Nodes -> [Dbs -> Host \cup {None}]],
         NEW n \in Nodes, NEW d \in Dbs, NEW h \in Host \cup {None}
  PROVE  [H EXCEPT ![n][d] = h] \in [Nodes -> [Dbs -> Host \cup {None}]]
OBVIOUS

(* A job is a pass or a collection, as its kind says. *)
LEMMA JobKinds ==
  ASSUME NEW n \in Nodes, Jobs
  PROVE  /\ Passing(n) => job[n] \in Pass /\ ~Collecting(n)
         /\ Collecting(n) => job[n] \in Collection
BY DEF Jobs, Passing, Collecting, Pass, Collection

(* Where one process serves the store, the others have no job. *)
LEMMA OthersIdle ==
  ASSUME Base, Jobs, Alone, NEW n \in deploy.procs
  PROVE  \A m \in Nodes : m # n => job[m] = None
<1>1. IsFiniteSet(deploy.procs)
  <2>1. deploy.procs \in SUBSET Nodes
    BY BlobsAssumption DEF Base
  <2> QED  BY <2>1, FS_Subset, BlobsAssumption
<1>2. PICK p : deploy.procs = {p}
  BY <1>1, FS_Singleton DEF Alone
<1> QED  BY <1>2 DEF Jobs

(* What the root of a name reaches are blobs. *)
LEMMA MarksIds ==
  ASSUME Roots, NEW d \in Dbs
  PROVE  Marks(d) \subseteq Ids
<1>1. CASE root[d] = None \/ root[d].leaves = None
  BY <1>1 DEF Marks
<1>2. CASE ~(root[d] = None \/ root[d].leaves = None)
  <2>1. root[d].leaves \in SUBSET Leaves
    <3>1. root[d] \in DbRoot
      BY <1>2 DEF Roots
    <3>2. root[d].leaves \in (SUBSET Leaves) \cup {None}
      BY <3>1, RootFields
    <3> QED  BY <1>2, <3>2
  <2> QED  BY <1>2, <2>1, BlobIds DEF Marks
<1> QED  BY <1>1, <1>2

(* A step that deletes no blob and publishes nothing keeps the store safe. *)
LEMMA SafeFrame ==
  ASSUME Safe, Roots, Jobs,
         \A b \in Ids : Present(b) => Present(b)',
         \A d \in Dbs : Marks(d)' \subseteq Marks(d),
         \A n \in Nodes : job'[n] \in {job[n], None}
  PROVE  Safe'
<1>1. ASSUME NEW d \in Dbs, NEW b \in Marks(d)' PROVE Present(b)'
  BY <1>1, MarksIds DEF Safe
<1>2. ASSUME NEW n \in Nodes, Passing(n)', NEW b \in Reach(job'[n].leaves)
      PROVE  b \in job'[n].todo \/ Present(b)'
  <2>1. job'[n] = job[n] /\ Passing(n)
    BY <1>2 DEF Passing
  <2>2. job[n].leaves \in SUBSET Leaves
    BY <2>1, JobKinds DEF Pass
  <2>3. b \in Ids
    BY <1>2, <2>1, <2>2, BlobIds
  <2> QED  BY <1>2, <2>1, <2>3 DEF Safe
<1>3. ASSUME NEW n \in Nodes, Collecting(n)' PROVE Walked(job[n])'
  <2>1. job'[n] = job[n] /\ Collecting(n)
    BY <1>3 DEF Collecting
  <2>2. Walked(job[n])
    BY <2>1 DEF Safe
  <2> QED  BY <2>1, <2>2 DEF Walked
<1> QED  BY <1>1, <1>2, <1>3 DEF Safe

(* A name that changes its holder, its lease or goes keeps no other index. *)
LEMMA MarksKept ==
  ASSUME Roots, Roots', NEW d \in Dbs,
         \/ root'[d] = root[d]
         \/ root'[d] = None
         \/ root'[d].leaves = None
         \/ root[d] # None /\ root'[d].leaves = root[d].leaves
  PROVE  Marks(d)' \subseteq Marks(d)
BY DEF Marks

LEMMA BInvInit == Init => BInv
<1> SUFFICES ASSUME Init PROVE BInv
  OBVIOUS
<1> USE BlobsAssumption DEF Init
<1>1. Base
  BY SMTT(60) DEF Base
<1>2. Roots /\ Hosts
  BY DEF Roots, Hosts
<1>3. Jobs
  BY DEF Jobs, Passing
<1>4. Safe
  BY DEF Safe, Marks, Passing, Collecting
<1> QED  BY <1>1, <1>2, <1>3, <1>4 DEF BInv

(***************************************************************************)
(* open_db for the database l of the name d with the log at t: the new     *)
(* root has the index of the old one, and the new host is well typed.      *)
(***************************************************************************)
LEMMA OpenStep ==
  ASSUME BInv, NEW n \in Nodes, NEW d \in Dbs, NEW l \in 1 .. MaxLives,
         NEW t \in 0 .. MaxT, Open(n, d, l, t)
  PROVE  /\ Roots' /\ Hosts'
         /\ \A e \in Dbs : Marks(e)' \subseteq Marks(e)
         /\ \A e \in Dbs :
              \/ root'[e] = root[e]
              \/ root'[e].carried = {}
              \/ root[e] # None /\ root'[e].carried = root[e].carried
<1> DEFINE r == root[d]
           whole == r # None /\ r.leaves # None /\ \A b \in Reach(r.leaves) : Present(b)
           v == IF r = None THEN 1 ELSE IF r.owner = n THEN r.lease ELSE r.lease + 1
           from == IF whole THEN r.life ELSE l
           basis == IF whole /\ r.basis > t THEN r.basis ELSE t
           new == IF r = None THEN Root(v, n, 0, None, l, {})
                              ELSE Root(v, n, r.basis, r.leaves, r.life, r.carried)
           h == [lease |-> v, life |-> from, t |-> basis, pub |-> None]
<1>1. /\ v <= MaxLease
      /\ root' = [root EXCEPT ![d] = new]
      /\ hosted' = [hosted EXCEPT ![n][d] = h]
  BY DEF Open
<1>2. r \in DbRoot \cup {None}
  BY DEF BInv, Roots
<1>3. r # None => /\ r.lease \in 1 .. MaxLease /\ r.basis \in 0 .. MaxT
                  /\ r.life \in 1 .. MaxLives /\ r.carried \in SUBSET Leaves
                  /\ r.leaves \in (SUBSET Leaves) \cup {None}
  BY <1>2 DEF DbRoot
<1>4. v \in 1 .. MaxLease
  BY <1>1, <1>3, BlobsAssumption, SMTT(60)
<1>5. from \in 1 .. MaxLives /\ basis \in 0 .. MaxT
  BY <1>3
<1>6. h \in Host
  BY <1>4, <1>5 DEF Host
<1>7. Hosts'
  <2> HIDE DEF h
  <2> QED  BY <1>1, <1>6, HostedUpdate DEF BInv, Hosts
<1>8. /\ new \in DbRoot
      /\ new.leaves = IF r = None THEN None ELSE r.leaves
      /\ new.carried = IF r = None THEN {} ELSE r.carried
  <2> HIDE DEF v
  <2>1. CASE r = None
    <3>1. 0 \in 0 .. MaxT /\ {} \in SUBSET Leaves
      BY BlobsAssumption, SMTT(60)
    <3>2. None \in (SUBSET Leaves) \cup {None} /\ n \in Nodes \cup {None}
      OBVIOUS
    <3>3. /\ Root(v, n, 0, None, l, {}) \in DbRoot
          /\ Root(v, n, 0, None, l, {}).leaves = None
          /\ Root(v, n, 0, None, l, {}).carried = {}
      BY <1>4, <3>1, <3>2, RootMade, SMTT(60)
    <3> QED  BY <2>1, <3>3
  <2>2. CASE r # None
    BY <1>3, <1>4, <2>2, RootMade, SMTT(60)
  <2> QED  BY <2>1, <2>2
<1> HIDE DEF new, h
<1>9. \A e \in Dbs : root'[e] = IF e = d THEN new ELSE root[e]
  BY <1>1 DEF BInv, Roots
<1>10. Roots'
  <2>1. root' \in [Dbs -> DbRoot \cup {None}]
    BY <1>1, <1>8 DEF BInv, Roots
  <2>2. ASSUME NEW e \in Dbs, root'[e] # None, root'[e].carried # {}
        PROVE  root'[e].leaves # None /\ root'[e].carried \subseteq root'[e].leaves
    BY <1>8, <1>9, <2>2 DEF BInv, Roots
  <2> QED  BY <2>1, <2>2 DEF Roots
<1>11. ASSUME NEW e \in Dbs PROVE Marks(e)' \subseteq Marks(e)
  BY <1>8, <1>9, <1>10, MarksKept DEF BInv
<1>12. ASSUME NEW e \in Dbs
       PROVE  \/ root'[e] = root[e]
              \/ root'[e].carried = {}
              \/ root[e] # None /\ root'[e].carried = root[e].carried
  BY <1>8, <1>9
<1> QED  BY <1>7, <1>10, <1>11, <1>12

(* A publication that carries leaves over finds them named by the root. *)
CarriedStep ==
  \A d \in Dbs :
    (root'[d] # root[d] /\ root'[d] # None /\ root'[d].carried # {}) =>
      /\ root[d] # None /\ root[d].leaves # None
      /\ root'[d].carried \subseteq root[d].leaves

-----------------------------------------------------------------------------
(* One lemma for each action. *)

LEMMA BCreate ==
  ASSUME BInv, NEW n \in Nodes, NEW d \in Dbs, Create(n, d)
  PROVE  BInv' /\ CarriedStep
<1> USE DEF BInv
<1>1. /\ lives[d] < MaxLives /\ lives' = [lives EXCEPT ![d] = lives[d] + 1]
      /\ live' = live \cup {d} /\ log' = [log EXCEPT ![d] = 0]
      /\ Open(n, d, lives[d] + 1, 0)
      /\ UNCHANGED <<deploy, store, job, crashes>>
  BY DEF Create
<1>2. lives[d] + 1 \in 1 .. MaxLives /\ 0 \in 0 .. MaxT
  BY <1>1, BlobsAssumption, SMTT(60) DEF Base
<1>3. /\ Roots' /\ Hosts'
      /\ \A e \in Dbs : Marks(e)' \subseteq Marks(e)
      /\ \A e \in Dbs :
           \/ root'[e] = root[e]
           \/ root'[e].carried = {}
           \/ root[e] # None /\ root'[e].carried = root[e].carried
  BY <1>1, <1>2, OpenStep
<1>4. Base'
  BY <1>1, BlobsAssumption, SMTT(60) DEF Base
<1>5. Jobs'
  BY <1>1 DEF Jobs, Passing, Pinned
<1>6. Alone => Safe'
  BY <1>1, <1>3, SafeFrame DEF Present
<1>7. CarriedStep
  BY <1>3 DEF CarriedStep, Roots
<1> QED  BY <1>1, <1>3, <1>4, <1>5, <1>6, <1>7 DEF Alone

LEMMA BTakeOver ==
  ASSUME BInv, NEW n \in Nodes, NEW d \in Dbs, TakeOver(n, d)
  PROVE  BInv' /\ CarriedStep
<1> USE DEF BInv
<1>1. /\ d \in live /\ Open(n, d, lives[d], log[d])
      /\ UNCHANGED <<deploy, store, lives, live, log, job, crashes>>
  BY DEF TakeOver
<1>2. lives[d] \in 1 .. MaxLives /\ log[d] \in 0 .. MaxT
  BY <1>1, BlobsAssumption, SMTT(60) DEF Base
<1>3. /\ Roots' /\ Hosts'
      /\ \A e \in Dbs : Marks(e)' \subseteq Marks(e)
      /\ \A e \in Dbs :
           \/ root'[e] = root[e]
           \/ root'[e].carried = {}
           \/ root[e] # None /\ root'[e].carried = root[e].carried
  BY <1>1, <1>2, OpenStep
<1>4. Base'
  BY <1>1 DEF Base
<1>5. Jobs'
  BY <1>1 DEF Jobs, Passing, Pinned
<1>6. Alone => Safe'
  BY <1>1, <1>3, SafeFrame DEF Present
<1>7. CarriedStep
  BY <1>3 DEF CarriedStep, Roots
<1> QED  BY <1>1, <1>3, <1>4, <1>5, <1>6, <1>7 DEF Alone

LEMMA BTransact ==
  ASSUME BInv, NEW n \in Nodes, NEW d \in Dbs, Transact(n, d)
  PROVE  BInv' /\ CarriedStep
<1> USE DEF BInv
<1> DEFINE h == hosted[n][d]
<1>1. /\ h # None /\ h.t < MaxT
      /\ hosted' = [hosted EXCEPT ![n][d] = [h EXCEPT !.t = h.t + 1]]
      /\ log' = [log EXCEPT ![d] = h.t + 1]
      /\ UNCHANGED <<deploy, store, root, lives, live, job, crashes>>
  BY DEF Transact
<1>2. h \in Host /\ h.t \in 0 .. MaxT
  <2>1. h \in Host
    BY <1>1 DEF Hosts
  <2> HIDE DEF h
  <2> QED  BY <2>1 DEF Host
<1>3. h.t + 1 \in 0 .. MaxT
  BY <1>1, <1>2, BlobsAssumption, SMTT(60)
<1>4. [h EXCEPT !.t = h.t + 1] \in Host
  <2> HIDE DEF h
  <2> QED  BY <1>2, <1>3, HostUpdate
<1> HIDE DEF h
<1>5. Hosts'
  BY <1>1, <1>4, HostedUpdate DEF Hosts
<1>6. Base'
  BY <1>1, <1>3 DEF Base
<1>7. Roots' /\ CarriedStep
  BY <1>1 DEF Roots, CarriedStep
<1>8. Jobs'
  BY <1>1 DEF Jobs, Passing, Pinned
<1>9. Alone => Safe'
  BY <1>1, SafeFrame DEF Present, Marks
<1> QED  BY <1>1, <1>5, <1>6, <1>7, <1>8, <1>9 DEF Alone

LEMMA BDelete ==
  ASSUME BInv, NEW n \in Nodes, NEW d \in Dbs, Delete(n, d)
  PROVE  BInv' /\ CarriedStep
<1> USE DEF BInv
<1>1. /\ hosted' = [hosted EXCEPT ![n][d] = None]
      /\ root' = [root EXCEPT ![d] = None]
      /\ live' = live \ {d}
      /\ UNCHANGED <<deploy, store, lives, log, job, crashes>>
  BY DEF Delete
<1>2. \A e \in Dbs : root'[e] = IF e = d THEN None ELSE root[e]
  BY <1>1 DEF Roots
<1>3. Hosts'
  BY <1>1, HostedUpdate DEF Hosts
<1>4. Base'
  BY <1>1 DEF Base
<1>5. Roots' /\ CarriedStep
  BY <1>1, <1>2 DEF Roots, CarriedStep
<1>6. Jobs'
  BY <1>1 DEF Jobs, Passing, Pinned
<1>7. \A e \in Dbs : Marks(e)' \subseteq Marks(e)
  BY <1>2 DEF Marks
<1>8. Alone => Safe'
  BY <1>1, <1>7, SafeFrame DEF Present
<1> QED  BY <1>1, <1>3, <1>4, <1>5, <1>6, <1>8 DEF Alone

(* A step that ends a job of n and leaves store and roots alone. *)
LEMMA BEndJob ==
  ASSUME BInv, NEW n \in Nodes, Hosts',
         job' \in {job, [job EXCEPT ![n] = None]},
         crashes' \in {crashes, crashes + 1} \cap 0 .. deploy.crashes,
         UNCHANGED <<deploy, store, root, lives, live, log>>
  PROVE  BInv' /\ CarriedStep
<1> USE DEF BInv
<1>1. \A m \in Nodes : job'[m] \in {job[m], None}
  BY DEF Jobs
<1>2. Base'
  BY DEF Base
<1>3. Roots' /\ CarriedStep
  BY DEF Roots, CarriedStep
<1>4. Jobs'
  <2>1. job' \in [Nodes -> Pass \cup Collection \cup {None}]
    BY DEF Jobs
  <2>2. ASSUME NEW m \in Nodes, Passing(m)' PROVE Pinned(job[m])'
    BY <1>1, <2>2 DEF Jobs, Passing, Pinned
  <2> QED  BY <1>1, <2>1, <2>2 DEF Jobs
<1>5. Alone => Safe'
  BY <1>1, SafeFrame DEF Present, Marks
<1> QED  BY <1>2, <1>3, <1>4, <1>5 DEF Alone

LEMMA BCrash ==
  ASSUME BInv, NEW n \in Nodes, Crash(n)
  PROVE  BInv' /\ CarriedStep
<1>1. /\ crashes < deploy.crashes /\ crashes' = crashes + 1
      /\ hosted' = [hosted EXCEPT ![n] = [d \in Dbs |-> None]]
      /\ job' = [job EXCEPT ![n] = None]
      /\ UNCHANGED <<deploy, store, root, lives, live, log>>
  BY DEF Crash
<1>2. deploy.crashes \in Nat
  BY BlobsAssumption DEF BInv, Base
<1>3. crashes' \in {crashes, crashes + 1} \cap 0 .. deploy.crashes
  BY <1>1, <1>2, SMTT(60) DEF BInv, Base
<1>4. Hosts'
  BY <1>1 DEF BInv, Hosts
<1> QED  BY <1>1, <1>3, <1>4, BEndJob

LEMMA BEndGc ==
  ASSUME BInv, NEW n \in Nodes, EndGc(n)
  PROVE  BInv' /\ CarriedStep
<1>1. /\ job' = [job EXCEPT ![n] = None]
      /\ UNCHANGED <<deploy, store, root, lives, live, log, hosted, crashes>>
  BY DEF EndGc
<1>2. Hosts' /\ crashes' \in {crashes, crashes + 1} \cap 0 .. deploy.crashes
  BY <1>1 DEF BInv, Hosts, Base
<1> QED  BY <1>1, <1>2, BEndJob

(***************************************************************************)
(* A step that gives the process n the job j and leaves the roots alone.   *)
(***************************************************************************)
LEMMA BSetJob ==
  ASSUME BInv, Hosts', NEW n \in Nodes, n \in deploy.procs,
         NEW j \in Pass \cup Collection, job' = [job EXCEPT ![n] = j],
         store' \in [Ids -> {"absent", "fresh", "old"}],
         UNCHANGED <<deploy, root, lives, live, log, crashes>>,
         j.kind = "pass" => Pinned(j),
         Alone => \A d \in Dbs : \A b \in Marks(d) : Present(b)',
         (Alone /\ j.kind = "pass") =>
           \A b \in Reach(j.leaves) : b \in j.todo \/ Present(b)',
         (Alone /\ j.kind = "gc") => Walked(j)
  PROVE  BInv' /\ CarriedStep
<1> USE DEF BInv
<1>1. \A m \in Nodes : job'[m] = IF m = n THEN j ELSE job[m]
  BY DEF Jobs
<1>2. Base'
  BY DEF Base
<1>3. Roots' /\ CarriedStep
  BY DEF Roots, CarriedStep
<1>4. Jobs'
  <2>1. job' \in [Nodes -> Pass \cup Collection \cup {None}]
    BY DEF Jobs
  <2>2. ASSUME NEW m \in Nodes, Passing(m)' PROVE Pinned(job[m])'
    BY <1>1, <2>2 DEF Jobs, Passing, Pinned
  <2> QED  BY <1>1, <2>1, <2>2 DEF Jobs
<1>5. ASSUME Alone PROVE Safe'
  <2>1. \A m \in Nodes : m # n => job'[m] = None
    BY <1>1, <1>5, OthersIdle
  <2>2. \A d \in Dbs : Marks(d)' = Marks(d)
    BY DEF Marks
  <2>3. \A d \in Dbs : \A b \in Marks(d)' : Present(b)'
    BY <1>5, <2>2
  <2>4. ASSUME NEW m \in Nodes, Passing(m)', NEW b \in Reach(job'[m].leaves)
        PROVE  b \in job'[m].todo \/ Present(b)'
    BY <1>1, <1>5, <2>1, <2>4 DEF Passing
  <2>5. ASSUME NEW m \in Nodes, Collecting(m)' PROVE Walked(job[m])'
    <3>1. job'[m] = j /\ j.kind = "gc"
      BY <1>1, <2>1, <2>5 DEF Collecting
    <3>2. Walked(j)
      BY <1>5, <3>1
    <3> QED  BY <2>2, <3>1, <3>2 DEF Walked
  <2> QED  BY <2>3, <2>4, <2>5 DEF Safe
<1> QED  BY <1>2, <1>3, <1>4, <1>5 DEF Alone

(***************************************************************************)
(* A pass that is planned from the current publication pins the index it   *)
(* carries leaves over from, and has the rest of its blobs to upload.      *)
(***************************************************************************)
LEMMA PlanStep ==
  ASSUME BInv, NEW d \in Dbs, NEW h \in Host, NEW prev \in Publication \cup {None}
  PROVE  /\ Plan(d, h, prev) \in Pass /\ Plan(d, h, prev).kind = "pass"
         /\ Pinned(Plan(d, h, prev))
         /\ Safe => \A b \in Reach(Plan(d, h, prev).leaves) :
                      b \in Plan(d, h, prev).todo \/ Present(b)
<1> USE DEF BInv
<1> DEFINE usable == IsCurrent(prev, root[d], h.lease)
           leaves == Content[h.life][h.t]
           from == IF usable THEN prev ELSE None
           carried == Carried(from, leaves)
           again == IsCurrent([basis |-> h.t, leaves |-> leaves], root[d], h.lease)
           pin == IF usable THEN IndexState(root[d]) ELSE None
           todo == Reach(leaves) \ {Leaf(l) : l \in carried}
           host == [h EXCEPT !.pub = None]
           j == [kind |-> "pass", db |-> d, host |-> host, again |-> again,
                 pin |-> pin, leaves |-> leaves, carried |-> carried, todo |-> todo]
<1>1. Plan(d, h, prev) = j
  BY DEF Plan
<1>2. leaves \in SUBSET Leaves
  BY BlobsAssumption, SMTT(60) DEF Host
<1>3. host \in Host
  BY HostUpdate, BlobsAssumption DEF Host
<1>4. again \in BOOLEAN
  BY DEF IsCurrent
<1>5. usable => /\ root[d] # None /\ prev # None /\ root[d] \in DbRoot
                /\ IndexState(root[d]) = <<root[d].basis, root[d].leaves>>
                /\ root[d].leaves = prev.leaves /\ prev.leaves \in SUBSET Leaves
  BY DEF IsCurrent, IndexState, Roots, Publication
<1>6. pin \in ((0 .. MaxT) \X ((SUBSET Leaves) \cup {None})) \cup {None}
  <2>1. CASE usable
    <3>1. root[d].basis \in 0 .. MaxT
      BY <1>5, <2>1, RootFields
    <3> QED  BY <1>5, <2>1, <3>1, SMTT(60)
  <2>2. CASE ~usable
    BY <2>2
  <2> QED  BY <2>1, <2>2
<1>7. /\ carried \subseteq leaves
      /\ carried # {} => usable /\ carried \subseteq root[d].leaves
  BY <1>5 DEF Carried
<1>8. todo \in SUBSET Ids
  BY <1>2, BlobIds
<1> HIDE DEF leaves, carried, again, pin, todo, host
<1>9. j \in Pass
  BY <1>2, <1>3, <1>4, <1>6, <1>7, <1>8 DEF Pass
<1>10. Pinned(j)
  <2>1. ASSUME carried # {}
        PROVE  pin # None /\ pin[2] # None /\ carried \subseteq pin[2]
    <3>1. pin = <<root[d].basis, root[d].leaves>> /\ root[d].leaves # None
      BY <1>5, <1>7, <2>1, BlobsAssumption DEF pin
    <3>2. pin[2] = root[d].leaves
      BY <3>1
    <3>3. root[d].basis \in 0 .. MaxT /\ root[d].leaves \in SUBSET Leaves
      BY <1>5, <1>7, <2>1, RootFields
    <3>4. pin # None
      BY <3>1, <3>3, BlobsAssumption
    <3> QED  BY <1>7, <2>1, <3>1, <3>2, <3>4
  <2> QED  BY <1>7, <2>1 DEF Pinned
<1>11. ASSUME Safe, NEW b \in Reach(leaves)
       PROVE  b \in todo \/ Present(b)
  <2>1. CASE b \in {Leaf(l) : l \in carried}
    <3>1. carried # {} /\ usable /\ b \in Reach(root[d].leaves)
      BY <1>7, <2>1, BlobIds
    <3>2. b \in Marks(d)
      BY <1>5, <3>1, BlobsAssumption DEF Marks
    <3> QED  BY <1>11, <3>2 DEF Safe
  <2>2. CASE b \notin {Leaf(l) : l \in carried}
    BY <1>11, <2>2 DEF todo
  <2> QED  BY <2>1, <2>2
<1> QED  BY <1>1, <1>9, <1>10, <1>11, SMTT(60)

(* depose forgets a host or none. *)
LEMMA DeposeStep ==
  ASSUME BInv, NEW n \in Nodes, NEW d \in Dbs, NEW h, Depose(n, d, h)
  PROVE  Hosts'
<1>1. hosted' \in {hosted, [hosted EXCEPT ![n][d] = None]}
  BY DEF Depose
<1> QED  BY <1>1, HostedUpdate, SMTT(60) DEF BInv, Hosts

LEMMA BStartPass ==
  ASSUME BInv, NEW n \in Nodes, NEW d \in Dbs, StartPass(n, d)
  PROVE  BInv' /\ CarriedStep
<1> USE DEF BInv
<1> DEFINE h == hosted[n][d]
<1>1. /\ n \in deploy.procs /\ h # None
      /\ UNCHANGED <<deploy, store, root, lives, live, log, crashes>>
  BY DEF StartPass, Idle
<1>2. CASE Fenced(d, h)
  <2>1. Depose(n, d, h) /\ job' = job
    BY <1>2 DEF StartPass
  <2>2. Hosts' /\ crashes' \in {crashes, crashes + 1} \cap 0 .. deploy.crashes
    BY <1>1, <2>1, DeposeStep DEF Base
  <2> QED  BY <1>1, <2>1, <2>2, BEndJob
<1>3. CASE ~Fenced(d, h)
  <2>1. /\ hosted' = [hosted EXCEPT ![n][d] = [h EXCEPT !.pub = None]]
        /\ job' = [job EXCEPT ![n] = Plan(d, h, h.pub)]
    BY <1>3 DEF StartPass
  <2>2. h \in Host
    BY <1>1 DEF Hosts
  <2> HIDE DEF h
  <2>3. h.pub \in Publication \cup {None} /\ [h EXCEPT !.pub = None] \in Host
    BY <2>2, HostUpdate, BlobsAssumption DEF Host
  <2>4. Hosts'
    BY <2>1, <2>3, HostedUpdate DEF Hosts
  <2> DEFINE j == Plan(d, h, h.pub)
  <2>5. /\ j \in Pass /\ j.kind = "pass" /\ Pinned(j)
        /\ Safe => \A b \in Reach(j.leaves) : b \in j.todo \/ Present(b)
    BY <2>2, <2>3, PlanStep
  <2> HIDE DEF j
  <2>6. job' = [job EXCEPT ![n] = j]
    BY <2>1 DEF j
  <2>7. \A b : Present(b)' <=> Present(b)
    BY <1>1 DEF Present
  <2>8. store' \in [Ids -> {"absent", "fresh", "old"}]
    BY <1>1 DEF Base
  <2>9. Alone => \A e \in Dbs : \A b \in Marks(e) : Present(b)'
    BY <2>7 DEF Safe
  <2> QED  BY <1>1, <2>4, <2>5, <2>6, <2>7, <2>8, <2>9, BSetJob
<1> QED  BY <1>2, <1>3

LEMMA BUpload ==
  ASSUME BInv, NEW n \in Nodes, Upload(n)
  PROVE  BInv' /\ CarriedStep
<1> USE DEF BInv
<1>0. PICK b : b = First(job[n].todo)
  OBVIOUS
<1> DEFINE j == [job[n] EXCEPT !.todo = @ \ {b}]
<1>1. /\ Passing(n) /\ job[n].todo # {} /\ store' = PutIfAbsent(b)
      /\ job' = [job EXCEPT ![n] = j]
      /\ UNCHANGED <<deploy, root, lives, live, log, hosted, crashes>>
  BY <1>0 DEF Upload
<1>2. job[n] \in Pass /\ n \in deploy.procs
  BY <1>1, JobKinds DEF Jobs, Passing
<1>3. b \in job[n].todo /\ b \in Ids
  <2>1. job[n].todo \subseteq Ids
    BY <1>2 DEF Pass
  <2> QED  BY <1>0, <1>1, <2>1, FirstIn
<1>4. /\ j \in Pass /\ j.kind = "pass" /\ j.todo = job[n].todo \ {b}
      /\ j.leaves = job[n].leaves /\ j.carried = job[n].carried /\ j.pin = job[n].pin
  BY <1>2, PassUpdate
<1> HIDE DEF j
<1>5. /\ store' \in [Ids -> {"absent", "fresh", "old"}]
      /\ Present(b)' /\ \A c \in Ids : Present(c) => Present(c)'
  <2>1. CASE Present(b)
    BY <1>1, <2>1 DEF PutIfAbsent, Present, Base
  <2>2. CASE ~Present(b)
    <3>1. store' = [store EXCEPT ![b] = "fresh"]
      BY <1>1, <2>2 DEF PutIfAbsent
    <3> QED  BY <1>3, <3>1 DEF Present, Base
  <2> QED  BY <2>1, <2>2
<1>6. Pinned(j)
  BY <1>1, <1>4 DEF Jobs, Pinned
<1>7. Alone => \A e \in Dbs : \A c \in Marks(e) : Present(c)'
  BY <1>5, MarksIds DEF Safe
<1>8. Alone => \A c \in Reach(j.leaves) : c \in j.todo \/ Present(c)'
  <2>1. Reach(j.leaves) \subseteq Ids
    <3>1. j.leaves \in SUBSET Leaves
      BY <1>4 DEF Pass
    <3> QED  BY <3>1, BlobIds
  <2>2. Alone => \A c \in Reach(j.leaves) : c \in job[n].todo \/ Present(c)
    BY <1>1, <1>4 DEF Safe
  <2> QED  BY <1>4, <1>5, <2>1, <2>2
<1>9. Hosts'
  BY <1>1 DEF Hosts
<1> QED  BY <1>1, <1>2, <1>4, <1>5, <1>6, <1>7, <1>8, <1>9, BSetJob

(* What the pass published is kept by its host, if that is still there. *)
LEMMA KeepStep ==
  ASSUME BInv, NEW n \in Nodes, NEW j \in Pass, Keep(n, j)
  PROVE  Hosts'
<1> DEFINE q == [basis |-> j.host.t, leaves |-> j.leaves]
           h == hosted[n][j.db]
<1>1. CASE SameHost(n, j.db, j.host)
  <2>1. hosted' = [hosted EXCEPT ![n][j.db] = [h EXCEPT !.pub = q]]
    BY <1>1 DEF Keep
  <2>2. j.db \in Dbs /\ j.host \in Host /\ j.leaves \in SUBSET Leaves
    BY DEF Pass
  <2>3. q \in Publication
    BY <2>2 DEF Host, Publication
  <2>4. h \in Host
    BY <1>1, <2>2 DEF SameHost, BInv, Hosts
  <2> HIDE DEF h, q
  <2>5. [h EXCEPT !.pub = q] \in Host
    BY <2>3, <2>4, HostUpdate, BlobsAssumption DEF Host
  <2> QED  BY <2>1, <2>2, <2>5, HostedUpdate DEF BInv, Hosts
<1>2. CASE ~SameHost(n, j.db, j.host)
  BY <1>2 DEF Keep, BInv, Hosts
<1> QED  BY <1>1, <1>2

(***************************************************************************)
(* The pass j swings the root: all its blobs are in the store by now, and  *)
(* the index it pinned is the one it replaces.                             *)
(***************************************************************************)
LEMMA BPublish ==
  ASSUME BInv, NEW n \in Nodes, NEW j \in Pass, j = job[n], Uploaded(n), ~Raced(j),
         NEW o \in Nodes \cup {None}, Keep(n, j),
         root' = [root EXCEPT ![j.db] =
           Root(j.host.lease, o, j.host.t, j.leaves, j.host.life, j.carried)],
         job' = [job EXCEPT ![n] = None],
         UNCHANGED <<deploy, store, lives, live, log, crashes>>
  PROVE  BInv' /\ CarriedStep
<1>1. PICK d \in Dbs : d = j.db
  BY DEF Pass
<1>2. PICK r : r = Root(j.host.lease, o, j.host.t, j.leaves, j.host.life, j.carried)
  OBVIOUS
<1>3. /\ j.leaves \in SUBSET Leaves /\ j.carried \in SUBSET Leaves
      /\ j.host \in Host /\ j.todo = {} /\ Passing(n)
  BY DEF Pass, Uploaded
<1>4. r \in DbRoot /\ r.leaves = j.leaves /\ r.carried = j.carried
  BY <1>2, PassRoot
<1> USE DEF BInv
<1>5. \A e \in Dbs : root'[e] = IF e = d THEN r ELSE root[e]
  BY <1>1, <1>2 DEF Roots
<1>6. Pinned(j)
  BY <1>3 DEF Jobs
<1>7. Roots'
  <2>1. root' \in [Dbs -> DbRoot \cup {None}]
    BY <1>1, <1>2, <1>4 DEF Roots
  <2>2. ASSUME NEW e \in Dbs, root'[e] # None, root'[e].carried # {}
        PROVE  root'[e].leaves # None /\ root'[e].carried \subseteq root'[e].leaves
    <3>1. CASE e = d
      <4>1. j.carried \subseteq j.leaves
        BY <1>4, <1>5, <1>6, <2>2, <3>1 DEF Pinned
      <4>2. j.leaves # None
        BY <1>3, BlobsAssumption
      <4> QED  BY <1>4, <1>5, <3>1, <4>1, <4>2
    <3>2. CASE e # d
      BY <1>5, <2>2, <3>2 DEF Roots
    <3> QED  BY <3>1, <3>2
  <2> QED  BY <2>1, <2>2 DEF Roots
<1>8. CarriedStep
  <2>1. ASSUME j.carried # {}
        PROVE  /\ root[d] # None /\ root[d].leaves # None
               /\ j.carried \subseteq root[d].leaves
    <3>1. j.pin # None /\ j.pin[2] # None /\ j.carried \subseteq j.pin[2]
      BY <1>6, <2>1 DEF Pinned
    <3>2. IndexState(root[d]) = j.pin
      BY <1>1, <3>1 DEF Raced
    <3>3. root[d] # None
      BY <3>1, <3>2, SMTT(60) DEF IndexState
    <3>4. j.pin[2] = root[d].leaves
      BY <3>2, <3>3, SMTT(60) DEF IndexState
    <3> QED  BY <3>1, <3>3, <3>4
  <2> QED  BY <1>4, <1>5, <2>1 DEF CarriedStep
<1>9. \A m \in Nodes : job'[m] = IF m = n THEN None ELSE job[m]
  BY DEF Jobs
<1>10. Base' /\ Hosts'
  BY KeepStep DEF Base
<1>11. Jobs'
  <2>1. job' \in [Nodes -> Pass \cup Collection \cup {None}]
    BY DEF Jobs
  <2>2. ASSUME NEW m \in Nodes, Passing(m)' PROVE Pinned(job[m])'
    BY <1>9, <2>2 DEF Jobs, Passing, Pinned
  <2> QED  BY <1>9, <2>1, <2>2 DEF Jobs
<1>12. ASSUME Alone PROVE Safe'
  <2>1. n \in deploy.procs
    BY <1>3 DEF Jobs, Passing
  <2>2. \A m \in Nodes : job'[m] = None
    BY <1>9, <1>12, <2>1, OthersIdle
  <2>3. \A b : Present(b)' <=> Present(b)
    BY DEF Present
  <2>4. ASSUME NEW e \in Dbs, NEW b \in Marks(e)' PROVE Present(b)
    <3>1. CASE e = d
      <4>1. b \in Reach(j.leaves)
        BY <1>4, <1>5, <2>4, <3>1 DEF Marks
      <4> QED  BY <1>3, <1>12, <4>1 DEF Safe
    <3>2. CASE e # d
      <4>1. b \in Marks(e)
        BY <1>5, <2>4, <3>2 DEF Marks
      <4> QED  BY <1>12, <4>1 DEF Safe
    <3> QED  BY <3>1, <3>2
  <2> QED  BY <2>2, <2>3, <2>4 DEF Safe, Passing, Collecting
<1> QED  BY <1>7, <1>8, <1>10, <1>11, <1>12 DEF Alone

LEMMA BInstall ==
  ASSUME BInv, NEW n \in Nodes, Install(n)
  PROVE  BInv' /\ CarriedStep
<1> USE DEF BInv
<1> DEFINE j == job[n]
           h == j.host
           d == j.db
<1>1. /\ Uploaded(n) /\ UNCHANGED <<deploy, store, lives, live, log, crashes>>
  BY DEF Install
<1>2. j \in Pass /\ n \in deploy.procs
  BY <1>1, JobKinds DEF Uploaded, Jobs, Passing
<1>3. d \in Dbs /\ h \in Host
  BY <1>2 DEF Pass
<1>4. crashes' \in {crashes, crashes + 1} \cap 0 .. deploy.crashes
  BY <1>1 DEF Base
<1>5. CASE /\ Raced(j) /\ ~Fenced(d, h)
           /\ job' = [job EXCEPT ![n] = Plan(d, h, None)]
           /\ UNCHANGED <<root, hosted>>
  <2> DEFINE k == Plan(d, h, None)
  <2>1. /\ k \in Pass /\ k.kind = "pass" /\ Pinned(k)
        /\ Safe => \A b \in Reach(k.leaves) : b \in k.todo \/ Present(b)
    BY <1>3, PlanStep
  <2>2. Hosts' /\ store' \in [Ids -> {"absent", "fresh", "old"}]
    BY <1>1, <1>5 DEF Hosts, Base
  <2>3. \A b : Present(b)' <=> Present(b)
    BY <1>1 DEF Present
  <2>4. Alone => \A e \in Dbs : \A b \in Marks(e) : Present(b)'
    BY <2>3 DEF Safe
  <2>5. job' = [job EXCEPT ![n] = k]
    BY <1>5
  <2> HIDE DEF k, j, h, d
  <2> QED  BY <1>1, <1>2, <1>5, <2>1, <2>2, <2>3, <2>4, <2>5, BSetJob
<1>6. CASE Fenced(d, h) /\ Depose(n, d, h) /\ job' = [job EXCEPT ![n] = None]
           /\ UNCHANGED root
  <2>1. Hosts'
    BY <1>3, <1>6, DeposeStep
  <2> QED  BY <1>1, <1>4, <1>6, <2>1, BEndJob
<1>7. CASE /\ IF j.again THEN Keep(n, j) ELSE UNCHANGED hosted
           /\ job' = [job EXCEPT ![n] = None]
           /\ UNCHANGED root
  <2>1. Hosts'
    BY <1>2, <1>7, KeepStep DEF Hosts
  <2> QED  BY <1>1, <1>4, <1>7, <2>1, BEndJob
<1>8. CASE /\ ~Raced(j)
           /\ root' = [root EXCEPT ![d] =
                Root(h.lease,
                     IF root[d] # None /\ root[d].lease = h.lease
                       THEN root[d].owner ELSE None,
                     h.t, j.leaves, h.life, j.carried)]
           /\ Keep(n, j)
           /\ job' = [job EXCEPT ![n] = None]
  <2> DEFINE o == IF root[d] # None /\ root[d].lease = h.lease
                    THEN root[d].owner ELSE None
  <2>1. o \in Nodes \cup {None}
    BY <1>3, RootFields DEF Roots
  <2>2. root' = [root EXCEPT ![j.db] =
          Root(j.host.lease, o, j.host.t, j.leaves, j.host.life, j.carried)]
    BY <1>8
  <2> HIDE DEF o
  <2> QED  BY <1>1, <1>2, <1>8, <2>1, <2>2, BPublish
<1> QED  BY <1>5, <1>6, <1>7, <1>8 DEF Install

LEMMA BStartGc ==
  ASSUME BInv, NEW n \in Nodes, StartGc(n)
  PROVE  BInv' /\ CarriedStep
<1> USE DEF BInv
<1>1. PICK j : j = [kind |-> "gc", dbs |-> {d \in Dbs : root[d] # None},
                    marked |-> {}, dead |-> None]
  OBVIOUS
<1>2. /\ n \in deploy.procs /\ job' = [job EXCEPT ![n] = j]
      /\ UNCHANGED <<deploy, store, root, lives, live, log, hosted, crashes>>
  BY <1>1 DEF StartGc, Idle
<1>3. /\ j \in Collection /\ j.kind = "gc" /\ j.dead = None
      /\ j.dbs = {d \in Dbs : root[d] # None}
  BY <1>1 DEF Collection
<1>4. Walked(j)
  BY <1>3 DEF Walked, Marks
<1>5. Hosts' /\ store' \in [Ids -> {"absent", "fresh", "old"}]
  BY <1>2 DEF Hosts, Base
<1>6. Alone => \A d \in Dbs : \A b \in Marks(d) : Present(b)'
  BY <1>2 DEF Safe, Present
<1> QED  BY <1>2, <1>3, <1>4, <1>5, <1>6, BSetJob

LEMMA BMark ==
  ASSUME BInv, NEW n \in Nodes, NEW d \in Dbs, Mark(n, d)
  PROVE  BInv' /\ CarriedStep
<1> USE DEF BInv
<1>0. PICK M : M = Marks(d)
  OBVIOUS
<1>1. PICK j : j = [job[n] EXCEPT !.dbs = @ \ {d}, !.marked = @ \cup M]
  OBVIOUS
<1>2. /\ Collecting(n) /\ d \in job[n].dbs
      /\ job' \in {[job EXCEPT ![n] = j], [job EXCEPT ![n] = None]}
      /\ UNCHANGED <<deploy, store, root, lives, live, log, hosted, crashes>>
  BY <1>0, <1>1 DEF Mark
<1>3. Hosts' /\ store' \in [Ids -> {"absent", "fresh", "old"}]
      /\ crashes' \in {crashes, crashes + 1} \cap 0 .. deploy.crashes
  BY <1>2 DEF Hosts, Base
<1>4. CASE job' = [job EXCEPT ![n] = None]
  BY <1>2, <1>3, <1>4, BEndJob
<1>5. CASE job' = [job EXCEPT ![n] = j]
  <2>1. job[n] \in Collection /\ n \in deploy.procs /\ M \in SUBSET Ids
    BY <1>0, <1>2, JobKinds, MarksIds DEF Jobs, Collecting
  <2>2. /\ j \in Collection /\ j.dbs = job[n].dbs \ {d}
        /\ j.marked = job[n].marked \cup M
        /\ j.dead = job[n].dead /\ j.kind = "gc"
    <3>1. PICK k : k = job[n]
      OBVIOUS
    <3>2. k \in Collection /\ j = [k EXCEPT !.dbs = @ \ {d}, !.marked = @ \cup M]
      BY <1>1, <2>1, <3>1
    <3> QED  BY <2>1, <3>1, <3>2 DEF Collection
  <2>3. Alone => Walked(j)
    <3>1. Alone => Walked(job[n])
      BY <1>2 DEF Safe
    <3>2. Walked(job[n]) => job[n].dead = None
      BY <1>2 DEF Walked
    <3> QED  BY <1>0, <2>2, <3>1, <3>2 DEF Walked
  <2>4. Alone => \A e \in Dbs : \A b \in Marks(e) : Present(b)'
    BY <1>2 DEF Safe, Present
  <2> QED  BY <1>2, <1>3, <1>5, <2>1, <2>2, <2>3, <2>4, BSetJob
<1> QED  BY <1>2, <1>4, <1>5

LEMMA BStartSweep ==
  ASSUME BInv, NEW n \in Nodes, StartSweep(n)
  PROVE  BInv' /\ CarriedStep
<1> USE DEF BInv
<1>1. PICK X : X = {b \in Ids \ job[n].marked : store[b] = "old"}
  OBVIOUS
<1>2. PICK j : j = [job[n] EXCEPT !.dead = X]
  OBVIOUS
<1>3. /\ Collecting(n) /\ job[n].dbs = {} /\ job' = [job EXCEPT ![n] = j]
      /\ UNCHANGED <<deploy, store, root, lives, live, log, hosted, crashes>>
  BY <1>1, <1>2 DEF StartSweep
<1>4. Hosts' /\ store' \in [Ids -> {"absent", "fresh", "old"}]
  BY <1>3 DEF Hosts, Base
<1>5. job[n] \in Collection /\ n \in deploy.procs
  BY <1>3, JobKinds DEF Jobs, Collecting
<1>6. /\ j \in Collection /\ j.dbs = {} /\ j.marked = job[n].marked
      /\ j.dead = X /\ j.kind = "gc"
  BY <1>1, <1>2, <1>3, <1>5, DeadUpdate, SMTT(60)
<1>7. Alone => Walked(j)
  <2>1. Alone => Walked(job[n])
    BY <1>3 DEF Safe
  <2> QED  BY <1>1, <1>3, <1>6, <2>1 DEF Walked
<1>8. Alone => \A e \in Dbs : \A b \in Marks(e) : Present(b)'
  BY <1>3 DEF Safe, Present
<1> QED  BY <1>3, <1>4, <1>5, <1>6, <1>7, <1>8, BSetJob

LEMMA BSweep ==
  ASSUME BInv, NEW n \in Nodes, Sweep(n)
  PROVE  BInv' /\ CarriedStep
<1> USE DEF BInv
<1>1. PICK b : b = First(job[n].dead)
  OBVIOUS
<1>2. PICK j : j = [job[n] EXCEPT !.dead = job[n].dead \ {b}]
  OBVIOUS
<1>3. /\ Collecting(n) /\ job[n].dead # None /\ job[n].dead # {}
      /\ job' = [job EXCEPT ![n] = j]
      /\ store' \in {store, [store EXCEPT ![b] = "absent"]}
      /\ UNCHANGED <<deploy, root, lives, live, log, hosted, crashes>>
  BY <1>1, <1>2 DEF Sweep, Sweeping
<1>4. job[n] \in Collection /\ n \in deploy.procs
  BY <1>3, JobKinds DEF Jobs, Collecting
<1>5. job[n].dead \in SUBSET Ids /\ b \in job[n].dead
  BY <1>1, <1>3, <1>4, FirstIn DEF Collection
<1>6. /\ j \in Collection /\ j.dbs = job[n].dbs /\ j.marked = job[n].marked
      /\ j.dead = job[n].dead \ {b} /\ j.kind = "gc"
  BY <1>2, <1>4, <1>5, DeadUpdate, SMTT(60)
<1>7. Hosts' /\ store' \in [Ids -> {"absent", "fresh", "old"}]
      /\ \A c \in Ids : c # b => store'[c] = store[c]
  BY <1>3 DEF Hosts, Base
<1>8. Alone => Walked(job[n])
  BY <1>3 DEF Safe
<1>9. Alone => Walked(j)
  BY <1>3, <1>6, <1>8 DEF Walked
<1>10. Alone => \A e \in Dbs : \A c \in Marks(e) : Present(c)'
  <2> SUFFICES ASSUME Alone, NEW e \in Dbs, NEW c \in Marks(e)
               PROVE  Present(c)'
    OBVIOUS
  <2>1. c # b
    BY <1>3, <1>5, <1>8 DEF Walked
  <2>2. c \in Ids /\ Present(c)
    BY MarksIds DEF Safe
  <2> QED  BY <1>7, <2>1, <2>2 DEF Present
<1> QED  BY <1>3, <1>4, <1>6, <1>7, <1>9, <1>10, BSetJob

LEMMA BAge ==
  ASSUME BInv, Age
  PROVE  BInv' /\ CarriedStep
<1> USE DEF BInv
<1>1. /\ store' = [b \in Ids |-> IF Present(b) THEN "old" ELSE "absent"]
      /\ UNCHANGED <<deploy, root, lives, live, log, hosted, job, crashes>>
  BY DEF Age
<1>2. Base'
  BY <1>1 DEF Base
<1>3. Roots' /\ Hosts' /\ CarriedStep
  BY <1>1 DEF Roots, Hosts, CarriedStep
<1>4. Jobs'
  BY <1>1 DEF Jobs, Passing, Pinned
<1>5. \A b \in Ids : Present(b) => Present(b)'
  BY <1>1 DEF Present
<1>6. Alone => Safe'
  BY <1>1, <1>5, SafeFrame DEF Marks
<1> QED  BY <1>1, <1>2, <1>3, <1>4, <1>6 DEF Alone

LEMMA BInvNext == BInv /\ [Next]_vars => BInv' /\ (CarriedStep \/ UNCHANGED vars)
<1> SUFFICES ASSUME BInv, [Next]_vars PROVE BInv' /\ (CarriedStep \/ UNCHANGED vars)
  OBVIOUS
<1>1. ASSUME NEW n \in Nodes, NEW d \in Dbs,
             \/ Create(n, d) \/ TakeOver(n, d) \/ Transact(n, d)
             \/ Delete(n, d) \/ StartPass(n, d) \/ Mark(n, d)
      PROVE  BInv' /\ CarriedStep
  BY <1>1, BCreate, BTakeOver, BTransact, BDelete, BStartPass, BMark
<1>2. ASSUME NEW n \in Nodes,
             \/ Crash(n) \/ Upload(n) \/ Install(n)
             \/ StartGc(n) \/ StartSweep(n) \/ Sweep(n) \/ EndGc(n)
      PROVE  BInv' /\ CarriedStep
  BY <1>2, BCrash, BUpload, BInstall, BStartGc, BStartSweep, BSweep, BEndGc
<1>3. CASE UNCHANGED vars
  <2>1. UNCHANGED <<deploy, store, root, lives, live, log, hosted, job, crashes>>
    BY <1>3 DEF vars
  <2>2. Base' /\ Roots' /\ Hosts' /\ Jobs'
    BY <2>1 DEF BInv, Base, Roots, Hosts, Jobs, Passing, Pinned
  <2>3. Alone => Safe'
    BY <2>1, SafeFrame DEF BInv, Present, Marks
  <2> QED  BY <1>3, <2>1, <2>2, <2>3 DEF BInv, Alone
<1> QED  BY <1>1, <1>2, <1>3, BAge DEF Next

(* The store, the roots, the hosts and their jobs keep BInv. *)
THEOREM BlobsInvariant == Spec => []BInv
BY BInvInit, BInvNext, PTL DEF Spec

-----------------------------------------------------------------------------
(***************************************************************************)
(* Where one process serves the store, no published root ever reaches a    *)
(* blob that is missing (publish_pass against gc_deleted_with_retention),  *)
(* for any databases, contents, histories, crashes and collections.        *)
(***************************************************************************)
THEOREM RootsStayIntact == Spec => []RootIntact
<1>1. BInv => TypeOK
  <2> SUFFICES ASSUME BInv PROVE TypeOK
    OBVIOUS
  <2>1. ASSUME NEW n \in Nodes, NEW d \in Dbs, hosted[n][d] # None
        PROVE  /\ hosted[n][d].lease \in 1 .. MaxLease /\ hosted[n][d].t \in 0 .. MaxT
               /\ hosted[n][d].life \in 1 .. MaxLives
    <3>1. hosted[n][d] \in Host
      BY <2>1 DEF BInv, Hosts
    <3> QED  BY <3>1 DEF Host
  <2>2. \A n \in Nodes : job[n] = None \/ job[n].kind \in {"pass", "gc"}
    BY DEF BInv, Jobs, Pass, Collection
  <2> QED  BY <2>1, <2>2 DEF BInv, Base, TypeOK
<1>2. ASSUME BInv, Alone, NEW b \in Live PROVE Present(b)
  <2>1. PICK d \in Dbs : b \in Marks(d)
    BY <1>2 DEF Live, Marks
  <2> QED  BY <1>2, <2>1 DEF BInv, Safe
<1>3. BInv => RootIntact
  BY <1>1, <1>2 DEF RootIntact
<1> QED  BY <1>3, BlobsInvariant, PTL

(***************************************************************************)
(* In every deployment, also of several processes that share a store, a    *)
(* root that is swung to an index with chunks its pass did not upload      *)
(* replaces a root that names those chunks (publish_root_pinned).          *)
(***************************************************************************)
THEOREM CarriesOnlyLive == Spec => CarriedFromLive
<1>1. BInv /\ [Next]_vars => [CarriedStep]_vars
  BY BInvNext
<1> QED  BY <1>1, BlobsInvariant, PTL DEF Spec, CarriedFromLive, CarriedStep

=============================================================================
