----------------------------- MODULE KeysProofs -----------------------------
(***************************************************************************)
(* Proofs about Keys, for any number of hosts, epochs, records and faults. *)
(***************************************************************************)
EXTENDS Keys, FiniteSetTheorems, TLAPS

(* Leaves are for Zenon unless they say otherwise. *)
USE ZenonT(60)

KeyState == [epoch : Nat, key : Hosts \cup {None}, opened : Nat, state : {"active", "retiring"}]
HostState == [up : BOOLEAN, lease : Nat, basis : Nat, epoch : Nat,
              keys : SUBSET (Nat \X (Hosts \cup {None})), kmv : Nat,
              unavailable : BOOLEAN, fenced : BOOLEAN, seen : Nat, step : BOOLEAN]

(***************************************************************************)
(* A manifest as rotate_storage_key builds it: the i-th key is epoch i and *)
(* only the last one is active.                                            *)
(***************************************************************************)
WellBuilt(m) ==
  /\ m \in [kek : Keks, keys : Seq(KeyState)]
  /\ Len(m.keys) \in 1..MaxEpoch
  /\ \A i \in 1..Len(m.keys) : /\ m.keys[i].epoch = i
                               /\ m.keys[i].state = "active" <=> i = Len(m.keys)
  /\ \A i \in 2..Len(m.keys) : m.keys[i - 1].opened <= m.keys[i].opened

(* n carries every key of m, and at least as many. *)
Extends(n, m) == Unwrapped(m) \subseteq Unwrapped(n) /\ Len(m.keys) <= Len(n.keys)

(* Keys ks with the active epoch e were unwrapped from m, now or before it   *)
(* was extended.                                                             *)
Holds(m, ks, e) ==
  /\ ks \subseteq Unwrapped(m)
  /\ e \in 1..Len(m.keys)
  /\ \E k \in ks : k[1] = e

(* What an operation under way has in hand, beside the durable manifest m. *)
JobOK(m, j) ==
  /\ j.op \in {None, "open", "publish", "bump", "adopt", "reload"}
  /\ j.op = "open" => Holds(m, j.keys, j.epoch)
  /\ j.op = "publish" => WellBuilt(j.prev) /\ WellBuilt(j.next) /\ Extends(j.next, j.prev)
  /\ j.op \in {"bump", "adopt"} => WellBuilt(j.next) /\ Extends(m, j.next)
  /\ j.op \in {"adopt", "reload"} => j.version \in Nat

Types ==
  /\ deploy \in Deployments
  /\ WellBuilt(manifest)
  /\ version \in Nat
  /\ lease \in [owner : Hosts \cup {None}, version : Nat]
  /\ log \in Seq(Unwrapped(manifest)) /\ branch \in Seq(Unwrapped(manifest))
  /\ host \in [Hosts -> HostState]
  /\ job = [h \in Hosts |-> job[h]]
  /\ kms \subseteq Keks

(***************************************************************************)
(* The inductive invariant.  A record can be opened because the host that  *)
(* sealed it held only keys of the durable manifest, which only grows; and *)
(* a host that is not fenced writes under the epoch it last saw active.    *)
(***************************************************************************)
KInv ==
  /\ Types
  /\ \A h \in Hosts : JobOK(manifest, job[h])
  /\ \A h \in Hosts : host[h].up => Holds(manifest, host[h].keys, host[h].epoch)
  /\ \A h \in Hosts : host[h].up /\ ~host[h].fenced => host[h].epoch = host[h].seen

-----------------------------------------------------------------------------
(* Lemmas about manifests *)

(* What the proofs need of sequences. *)
LEMMA FunctionIsSeq ==
  ASSUME NEW S, NEW n \in Nat, NEW f \in [1..n -> S]
  PROVE  f \in Seq(S) /\ Len(f) = n
BY SMTT(60)

LEMMA AppendProperties ==
  ASSUME NEW S, NEW q \in Seq(S), NEW e \in S
  PROVE  /\ Append(q, e) \in Seq(S) /\ Len(Append(q, e)) = Len(q) + 1
         /\ \A i \in 1..Len(q) : Append(q, e)[i] = q[i]
         /\ Append(q, e)[Len(q) + 1] = e
BY SMTT(60)

(* The active epoch of a manifest is its last. *)
LEMMA ActiveIsLast ==
  ASSUME NEW m, WellBuilt(m)
  PROVE  active_storage_epoch(m) = Len(m.keys)
<1> DEFINE P(e) == \E i \in DOMAIN m.keys : m.keys[i].epoch = e /\ m.keys[i].state = "active"
<1>1. DOMAIN m.keys = 1..Len(m.keys) /\ Len(m.keys) \in 0..MaxEpoch
  BY KeysAssumption, SMTT(60) DEF WellBuilt
<1>2. P(Len(m.keys))
  BY <1>1, SMTT(60) DEF WellBuilt
<1>3. \A e \in 0..MaxEpoch : P(e) => e = Len(m.keys)
  BY <1>1 DEF WellBuilt
<1>4. active_storage_epoch(m) = CHOOSE e \in 0..MaxEpoch : P(e)
  BY DEF active_storage_epoch
<1> HIDE DEF P
<1> QED
  BY <1>1, <1>2, <1>3, <1>4

LEMMA UnwrappedType ==
  ASSUME NEW m, WellBuilt(m)
  PROVE  Unwrapped(m) \in SUBSET (Nat \X (Hosts \cup {None}))
<1>1. DOMAIN m.keys = 1..Len(m.keys) /\ \A i \in 1..Len(m.keys) : m.keys[i] \in KeyState
  BY SMTT(60) DEF WellBuilt
<1>2. \A i \in 1..Len(m.keys) : m.keys[i].epoch \in Nat /\ m.keys[i].key \in Hosts \cup {None}
  BY <1>1 DEF KeyState
<1> QED
  BY <1>1, <1>2, SMTT(60) DEF Unwrapped

(* Reading the keys of a manifest gives its active epoch's key. *)
LEMMA UnwrapHolds ==
  ASSUME NEW m, WellBuilt(m)
  PROVE  Holds(m, Unwrapped(m), active_storage_epoch(m))
<1>1. active_storage_epoch(m) = Len(m.keys)
  BY ActiveIsLast
<1>2. Len(m.keys) \in DOMAIN m.keys /\ Len(m.keys) \in 1..Len(m.keys)
  BY KeysAssumption, SMTT(60) DEF WellBuilt
<1> DEFINE n == Len(m.keys)
<1>3. <<m.keys[n].epoch, m.keys[n].key>> \in Unwrapped(m)
  BY <1>2 DEF Unwrapped
<1>4. m.keys[n].epoch = n
  BY <1>2 DEF WellBuilt
<1> QED
  BY <1>1, <1>2, <1>3, <1>4 DEF Holds

(* validate admits every manifest rotation builds. *)
LEMMA WellBuiltValid ==
  ASSUME NEW m, WellBuilt(m)
  PROVE  validate(m)
<1>1. DOMAIN m.keys = 1..Len(m.keys) /\ Len(m.keys) \in 1..Len(m.keys)
  BY KeysAssumption, SMTT(60) DEF WellBuilt
<1>2. {i \in DOMAIN m.keys : m.keys[i].state = "active"} = {Len(m.keys)}
  BY <1>1 DEF WellBuilt
<1>3. Cardinality({Len(m.keys)}) = 1
  BY FS_Singleton
<1>4. \A i \in 2..Len(m.keys) : /\ m.keys[i - 1].epoch < m.keys[i].epoch
                               /\ m.keys[i - 1].opened <= m.keys[i].opened
  <2> SUFFICES ASSUME NEW i \in 2..Len(m.keys)
               PROVE  m.keys[i - 1].epoch < m.keys[i].epoch /\ m.keys[i - 1].opened <= m.keys[i].opened
    OBVIOUS
  <2>1. i - 1 \in 1..Len(m.keys) /\ i \in 1..Len(m.keys) /\ i - 1 < i
    BY KeysAssumption, SMTT(60) DEF WellBuilt
  <2> QED
    BY <2>1 DEF WellBuilt
<1> QED
  BY <1>2, <1>3, <1>4 DEF validate

(* What rotate_storage_key computes. *)
LEMMA RotateShape ==
  ASSUME NEW m, WellBuilt(m), NEW k \in Hosts, NEW t \in Nat
  PROVE  LET n == Len(m.keys)
             r == rotate_storage_key(m, k, t)
         IN  /\ r \in [kek : Keks, keys : Seq(KeyState)] /\ r.kek = m.kek
             /\ Len(r.keys) = n + 1
             /\ r.keys[n + 1].epoch = n + 1 /\ r.keys[n + 1].opened = t /\ r.keys[n + 1].state = "active"
             /\ \A i \in 1..n : /\ r.keys[i].epoch = i /\ r.keys[i].key = m.keys[i].key
                                /\ r.keys[i].opened = m.keys[i].opened /\ r.keys[i].state = "retiring"
<1> DEFINE n == Len(m.keys)
           old(i) == IF m.keys[i].state = "active" THEN [m.keys[i] EXCEPT !.state = "retiring"]
                                                   ELSE m.keys[i]
           F == [i \in DOMAIN m.keys |-> old(i)]
           new == Key(n + 1, k, t, "active")
           r == rotate_storage_key(m, k, t)
<1>1. n \in Nat \ {0} /\ DOMAIN m.keys = 1..n /\ \A i \in 1..n : m.keys[i] \in KeyState
  BY KeysAssumption, SMTT(60) DEF WellBuilt
<1>2. \A i \in 1..n : /\ old(i) \in KeyState /\ old(i).epoch = i /\ old(i).key = m.keys[i].key
                      /\ old(i).opened = m.keys[i].opened /\ old(i).state = "retiring"
  <2> SUFFICES ASSUME NEW i \in 1..n
               PROVE  /\ old(i) \in KeyState /\ old(i).epoch = i /\ old(i).key = m.keys[i].key
                      /\ old(i).opened = m.keys[i].opened /\ old(i).state = "retiring"
    OBVIOUS
  <2>1. m.keys[i] \in KeyState /\ m.keys[i].epoch = i
    BY <1>1 DEF WellBuilt
  <2> QED
    BY <2>1 DEF KeyState
<1>3. new \in KeyState /\ new.epoch = n + 1 /\ new.opened = t /\ new.state = "active"
  BY <1>1, SMTT(60) DEF KeyState, Key
<1> HIDE DEF old, new
<1>4. F \in Seq(KeyState) /\ Len(F) = n /\ \A i \in 1..n : F[i] = old(i)
  <2>1. F \in [1..n -> KeyState]
    BY <1>1, <1>2
  <2> QED
    BY <2>1, <1>1, FunctionIsSeq, SMTT(60)
<1> DEFINE ks == Append(F, new)
<1>5. /\ ks \in Seq(KeyState) /\ Len(ks) = n + 1 /\ ks[n + 1] = new
      /\ \A i \in 1..n : ks[i] = old(i)
  BY <1>1, <1>3, <1>4, AppendProperties, SMTT(60)
<1>6. r = [m EXCEPT !.keys = ks]
  BY DEF rotate_storage_key, old, new
<1> HIDE DEF F, ks
<1>7. r \in [kek : Keks, keys : Seq(KeyState)] /\ r.keys = ks /\ r.kek = m.kek
  BY <1>5, <1>6 DEF WellBuilt
<1> QED
  BY <1>1, <1>2, <1>3, <1>5, <1>7, SMTT(60)

(* A rotation keeps every key and adds the next epoch's. *)
LEMMA RotateBuilds ==
  ASSUME NEW m, WellBuilt(m), NEW k \in Hosts, NEW t \in Nat, Len(m.keys) < MaxEpoch,
         \A i \in DOMAIN m.keys : m.keys[i].opened <= t
  PROVE  WellBuilt(rotate_storage_key(m, k, t)) /\ Extends(rotate_storage_key(m, k, t), m)
<1> DEFINE n == Len(m.keys)
           r == rotate_storage_key(m, k, t)
<1>1. n \in Nat \ {0} /\ DOMAIN m.keys = 1..n /\ \A i \in 1..n : m.keys[i] \in KeyState
  BY KeysAssumption, SMTT(60) DEF WellBuilt
<1>2. /\ r \in [kek : Keks, keys : Seq(KeyState)] /\ Len(r.keys) = n + 1
      /\ r.keys[n + 1].epoch = n + 1 /\ r.keys[n + 1].opened = t /\ r.keys[n + 1].state = "active"
      /\ \A i \in 1..n : /\ r.keys[i].epoch = i /\ r.keys[i].key = m.keys[i].key
                         /\ r.keys[i].opened = m.keys[i].opened /\ r.keys[i].state = "retiring"
  BY RotateShape, SMTT(60)
<1> HIDE DEF r
<1>3. WellBuilt(r)
  <2>1. Len(r.keys) \in 1..MaxEpoch
    BY <1>1, <1>2, KeysAssumption, SMTT(60)
  <2>2. \A i \in 1..Len(r.keys) : /\ r.keys[i].epoch = i
                                  /\ r.keys[i].state = "active" <=> i = Len(r.keys)
    BY <1>1, <1>2, SMTT(60)
  <2>3. \A i \in 2..Len(r.keys) : r.keys[i - 1].opened <= r.keys[i].opened
    <3> SUFFICES ASSUME NEW i \in 2..(n + 1) PROVE r.keys[i - 1].opened <= r.keys[i].opened
      BY <1>2
    <3>1. CASE i = n + 1
      <4>1. i - 1 = n /\ n \in 1..n /\ n \in DOMAIN m.keys
        BY <3>1, <1>1, SMTT(60)
      <4> QED
        BY <3>1, <4>1, <1>2, SMTT(60)
    <3>2. CASE i # n + 1
      <4>1. i \in 2..n /\ i - 1 \in 1..n /\ i \in 1..n
        BY <3>2, <1>1, SMTT(60)
      <4> QED
        BY <4>1, <1>1, <1>2 DEF WellBuilt
    <3> QED
      BY <3>1, <3>2
  <2> QED
    BY <1>2, <2>1, <2>2, <2>3 DEF WellBuilt
<1>4. Extends(r, m)
  <2>1. DOMAIN r.keys = 1..(n + 1)
    BY <1>1, <1>2, SMTT(60)
  <2>2. \A i \in 1..n : i \in DOMAIN r.keys /\ r.keys[i].epoch = m.keys[i].epoch /\ r.keys[i].key = m.keys[i].key
    BY <2>1, <1>1, <1>2, SMTT(60) DEF WellBuilt
  <2>3. Unwrapped(m) \subseteq Unwrapped(r)
    BY <2>2, <1>1 DEF Unwrapped
  <2> QED
    BY <2>3, <1>1, <1>2, SMTT(60) DEF Extends
<1> QED
  BY <1>3, <1>4 DEF r

(* Wrapping the keys under another KEK changes none of them. *)
LEMMA RewrapBuilds ==
  ASSUME NEW m, WellBuilt(m), NEW k \in Keks
  PROVE  WellBuilt(rewrap(m, k)) /\ Extends(rewrap(m, k), m)
<1>1. rewrap(m, k) \in [kek : Keks, keys : Seq(KeyState)] /\ rewrap(m, k).keys = m.keys
  BY DEF WellBuilt, rewrap
<1>2. WellBuilt(rewrap(m, k))
  BY <1>1 DEF WellBuilt
<1>3. Len(m.keys) \in Nat
  BY SMTT(60) DEF WellBuilt
<1> QED
  BY <1>1, <1>2, <1>3, SMTT(60) DEF Extends, Unwrapped

-----------------------------------------------------------------------------
(* The invariant *)

LEMMA KInvInit == Init => KInv
<1> SUFFICES ASSUME Init PROVE KInv
  OBVIOUS
<1> DEFINE first == Key(1, None, 0, "active")
<1>1. deploy.kek \in Keks /\ first \in KeyState
  BY KeysAssumption DEF Init, Key, KeyState
<1>2. manifest \in [kek : Keks, keys : Seq(KeyState)] /\ manifest.keys = <<first>>
  BY <1>1, SMTT(60) DEF Init
<1>3. Len(manifest.keys) = 1 /\ manifest.keys[1] = first
  BY <1>2, SMTT(60)
<1>4. first.epoch = 1 /\ first.state = "active"
  BY DEF Key
<1>5. WellBuilt(manifest)
  BY <1>2, <1>3, <1>4, KeysAssumption, SMTT(60) DEF WellBuilt
<1>6. Closed \in HostState /\ ~Closed.up
  BY DEF Closed, HostState
<1>7. host \in [Hosts -> HostState] /\ \A h \in Hosts : ~host[h].up
  BY <1>6 DEF Init
<1>8. job = [h \in Hosts |-> job[h]] /\ \A h \in Hosts : job[h].op = None
  BY DEF Init, Idle
<1>9. \A h \in Hosts : JobOK(manifest, job[h])
  BY <1>8, KeysAssumption DEF JobOK
<1>10. /\ log \in Seq(Unwrapped(manifest)) /\ branch \in Seq(Unwrapped(manifest))
       /\ lease \in [owner : Hosts \cup {None}, version : Nat]
  BY SMTT(60) DEF Init
<1>11. Types
  BY <1>5, <1>7, <1>8, <1>10 DEF Types, Init
<1> QED
  BY <1>7, <1>9, <1>11 DEF KInv

(* A manifest that grows keeps what was unwrapped from it. *)
LEMMA GrowKeeps ==
  ASSUME NEW m, NEW n, WellBuilt(m), WellBuilt(n), Extends(n, m)
  PROVE  /\ \A ks, e : Holds(m, ks, e) => Holds(n, ks, e)
         /\ \A j : JobOK(m, j) => JobOK(n, j)
         /\ Seq(Unwrapped(m)) \subseteq Seq(Unwrapped(n))
<1>1. Len(m.keys) \in Nat /\ Len(n.keys) \in Nat /\ Len(m.keys) <= Len(n.keys)
  BY SMTT(60) DEF WellBuilt, Extends
<1>2. Unwrapped(m) \subseteq Unwrapped(n)
  BY DEF Extends
<1>3. \A ks, e : Holds(m, ks, e) => Holds(n, ks, e)
  BY <1>1, <1>2, SMTT(60) DEF Holds
<1>4. ASSUME NEW q, WellBuilt(q), Extends(m, q) PROVE Extends(n, q)
  <2>1. Len(q.keys) \in Nat
    BY <1>4, SMTT(60) DEF WellBuilt
  <2> QED
    BY <1>1, <1>2, <1>4, <2>1, SMTT(60) DEF Extends
<1>5. \A j : JobOK(m, j) => JobOK(n, j)
  BY <1>3, <1>4 DEF JobOK
<1> QED
  BY <1>2, <1>3, <1>5, SMTT(60)

(* What a step of host h must establish: the rest is the frame. *)
LEMMA HostStep ==
  ASSUME KInv, deploy' = deploy, NEW h \in Hosts,
         WellBuilt(manifest'), Extends(manifest', manifest), version' \in Nat,
         lease' \in [owner : Hosts \cup {None}, version : Nat],
         log' \in Seq(Unwrapped(manifest')), branch' \in Seq(Unwrapped(manifest')), kms' \subseteq Keks,
         NEW d \in HostState, host' = [host EXCEPT ![h] = d],
         NEW j, job' = [job EXCEPT ![h] = j],
         JobOK(manifest', j),
         d.up => Holds(manifest', d.keys, d.epoch),
         d.up /\ ~d.fenced => d.epoch = d.seen
  PROVE  KInv'
<1>1. host' \in [Hosts -> HostState] /\ \A x \in Hosts : host'[x] = IF x = h THEN d ELSE host[x]
  BY DEF KInv, Types
<1>2. job' = [x \in Hosts |-> job'[x]] /\ \A x \in Hosts : job'[x] = IF x = h THEN j ELSE job[x]
  BY DEF KInv, Types
<1>3. Types'
  BY <1>1, <1>2 DEF KInv, Types
<1>4. WellBuilt(manifest)
  BY DEF KInv, Types
<1>5. \A x \in Hosts : JobOK(manifest', job'[x])
  BY <1>2, <1>4, GrowKeeps DEF KInv
<1>6. \A x \in Hosts : host'[x].up => Holds(manifest', host'[x].keys, host'[x].epoch)
  BY <1>1, <1>4, GrowKeeps, SMTT(60) DEF KInv
<1>7. \A x \in Hosts : host'[x].up /\ ~host'[x].fenced => host'[x].epoch = host'[x].seen
  BY <1>1 DEF KInv
<1> QED
  BY <1>3, <1>5, <1>6, <1>7 DEF KInv

LEMMA Same ==
  ASSUME KInv, NEW h \in Hosts
  PROVE  /\ host = [host EXCEPT ![h] = host[h]] /\ job = [job EXCEPT ![h] = job[h]]
         /\ host[h] \in HostState /\ JobOK(manifest, job[h])
         /\ host[h].up => Holds(manifest, host[h].keys, host[h].epoch)
         /\ host[h].up /\ ~host[h].fenced => host[h].epoch = host[h].seen
         /\ WellBuilt(manifest) /\ Extends(manifest, manifest) /\ version \in Nat
         /\ lease \in [owner : Hosts \cup {None}, version : Nat] /\ kms \subseteq Keks
         /\ log \in Seq(Unwrapped(manifest)) /\ branch \in Seq(Unwrapped(manifest))
         /\ deploy \in Deployments
<1>1. Types /\ JobOK(manifest, job[h])
  BY DEF KInv
<1>2. WellBuilt(manifest) /\ Extends(manifest, manifest)
  BY <1>1, SMTT(60) DEF Types, WellBuilt, Extends
<1>3. host = [host EXCEPT ![h] = host[h]] /\ host[h] \in HostState
  BY <1>1 DEF Types
<1>4. job = [job EXCEPT ![h] = job[h]]
  BY <1>1 DEF Types
<1> QED
  BY <1>1, <1>2, <1>3, <1>4 DEF KInv, Types

LEMMA ClosedOK ==
  /\ Closed \in HostState /\ ~Closed.up
  /\ \A m : JobOK(m, Idle)
<1>1. Closed \in HostState /\ ~Closed.up
  BY DEF Closed, HostState
<1> QED
  BY <1>1, KeysAssumption DEF Idle, JobOK

LEMMA OpenKeysKeeps == ASSUME KInv, NEW h \in Hosts, OpenKeys(h) PROVE KInv'
<1> DEFINE j == [op |-> "open", epoch |-> active_storage_epoch(manifest), keys |-> Unwrapped(manifest)]
<1>1. JobOK(manifest, j)
  BY Same, UnwrapHolds, KeysAssumption DEF JobOK
<1>2. job' = [job EXCEPT ![h] = j] /\ UNCHANGED <<deploy, durable, host, kms>>
  BY DEF OpenKeys
<1> HIDE DEF j
<1> QED
  BY <1>1, <1>2, Same, HostStep DEF durable

LEMMA OpenLeaseKeeps == ASSUME KInv, NEW h \in Hosts, OpenLease(h) PROVE KInv'
<1> DEFINE new == [Closed EXCEPT !.up = TRUE, !.lease = lease'.version, !.basis = Len(log),
                           !.epoch = job[h].epoch, !.keys = job[h].keys, !.kmv = version,
                           !.seen = job[h].epoch]
           d == IF \A i \in DOMAIN log : Opens(job[h].keys, log[i]) THEN new ELSE Closed
<1>1. lease' \in [owner : Hosts \cup {None}, version : Nat]
  BY Same, SMTT(60) DEF OpenLease
<1>2. Holds(manifest, job[h].keys, job[h].epoch)
  BY Same DEF OpenLease, JobOK
<1>3. job[h].epoch \in Nat /\ job[h].keys \subseteq Nat \X (Hosts \cup {None}) /\ Len(log) \in Nat
  <2>1. Unwrapped(manifest) \subseteq Nat \X (Hosts \cup {None})
    BY Same, UnwrappedType
  <2> QED
    BY <1>2, <2>1, Same, SMTT(60) DEF Holds
<1>4. new \in HostState
  BY <1>1, <1>3, Same DEF HostState, Closed
<1>5. new.keys = job[h].keys /\ new.epoch = job[h].epoch /\ new.seen = job[h].epoch
  BY DEF Closed
<1>6. /\ host' = [host EXCEPT ![h] = d] /\ job' = [job EXCEPT ![h] = Idle]
      /\ UNCHANGED <<deploy, manifest, version, log, branch, kms>>
  BY DEF OpenLease, Finish
<1>7. d \in HostState /\ (d.up => Holds(manifest, d.keys, d.epoch)) /\ (d.up => d.epoch = d.seen)
  BY <1>2, <1>4, <1>5, ClosedOK
<1> HIDE DEF d
<1> QED
  BY <1>1, <1>6, <1>7, Same, ClosedOK, HostStep

AtBasis(d, b) == [d EXCEPT !.basis = b]

LEMMA AtBasisOK ==
  ASSUME NEW d \in HostState, NEW b \in Nat
  PROVE  /\ AtBasis(d, b) \in HostState
         /\ AtBasis(d, b).up = d.up /\ AtBasis(d, b).keys = d.keys /\ AtBasis(d, b).epoch = d.epoch
         /\ AtBasis(d, b).fenced = d.fenced /\ AtBasis(d, b).seen = d.seen
         /\ AtBasis(d, b).basis = b
  BY DEF AtBasis, HostState

LEMMA CommitKeeps == ASSUME KInv, NEW h \in Hosts, Commit(h) PROVE KInv'
<1>1. CASE lease = [owner |-> h, version |-> host[h].lease]
  <2> DEFINE d == AtBasis(host[h], Len(log) + 1)
  <2>00. host[h].up
    BY DEF Commit, Hosting
  <2>0. log' = Append(log, Seal(host[h]))
    BY <1>1 DEF Commit
  <2>1. Seal(host[h]) \in host[h].keys
    BY <2>00, Same DEF Holds, Seal
  <2>2. Seal(host[h]) \in Unwrapped(manifest)
    BY <2>1, <2>00, Same DEF Holds
  <2>3. log' \in Seq(Unwrapped(manifest)) /\ Len(log) \in Nat
    BY <2>0, <2>2, Same, SMTT(60)
  <2>4. /\ d \in HostState /\ (d.up => Holds(manifest, d.keys, d.epoch))
        /\ d.up /\ ~d.fenced => d.epoch = d.seen
    <3>1. host[h] \in HostState /\ Len(log) + 1 \in Nat
      BY <2>3, Same, SMTT(60)
    <3>2. /\ host[h].up => Holds(manifest, host[h].keys, host[h].epoch)
          /\ host[h].up /\ ~host[h].fenced => host[h].epoch = host[h].seen
      BY Same
    <3>3. /\ d \in HostState /\ d.up = host[h].up /\ d.keys = host[h].keys /\ d.epoch = host[h].epoch
          /\ d.fenced = host[h].fenced /\ d.seen = host[h].seen
      BY <3>1, AtBasisOK
    <3> HIDE DEF d
    <3> QED
      BY <3>2, <3>3
  <2>5. /\ host' = [host EXCEPT ![h] = d]
        /\ UNCHANGED <<deploy, manifest, version, lease, branch, job, kms>>
    BY <1>1 DEF Commit, AtBasis
  <2> HIDE DEF d
  <2> QED
    BY <2>3, <2>4, <2>5, Same, HostStep
<1>2. CASE lease # [owner |-> h, version |-> host[h].lease]
  <2>1. /\ host' = [host EXCEPT ![h] = Closed]
        /\ UNCHANGED <<deploy, manifest, version, lease, branch, job, kms, log>>
    BY <1>2 DEF Commit
  <2> QED
    BY <2>1, Same, ClosedOK, HostStep
<1> QED
  BY <1>1, <1>2

Stepping(d, b) == [d EXCEPT !.step = b]

LEMMA SteppingOK ==
  ASSUME NEW d \in HostState, NEW b \in BOOLEAN
  PROVE  /\ Stepping(d, b) \in HostState
         /\ Stepping(d, b).up = d.up /\ Stepping(d, b).keys = d.keys /\ Stepping(d, b).epoch = d.epoch
         /\ Stepping(d, b).fenced = d.fenced /\ Stepping(d, b).seen = d.seen
         /\ Stepping(d, b).basis = d.basis
  BY DEF Stepping, HostState

(* What a branch's batch leaves of its host. *)
LEMMA SteppingHost ==
  ASSUME KInv, NEW h \in Hosts, NEW b \in BOOLEAN, NEW d, d = Stepping(host[h], b)
  PROVE  /\ d \in HostState /\ (d.up => Holds(manifest, d.keys, d.epoch))
         /\ d.up /\ ~d.fenced => d.epoch = d.seen
<1>1. /\ host[h] \in HostState /\ (host[h].up => Holds(manifest, host[h].keys, host[h].epoch))
      /\ host[h].up /\ ~host[h].fenced => host[h].epoch = host[h].seen
  BY Same
<1>2. /\ d \in HostState /\ d.up = host[h].up /\ d.keys = host[h].keys /\ d.epoch = host[h].epoch
      /\ d.fenced = host[h].fenced /\ d.seen = host[h].seen
  BY <1>1, SteppingOK
<1> QED
  BY <1>1, <1>2

LEMMA BranchBeginKeeps == ASSUME KInv, NEW h \in Hosts, BranchBegin(h) PROVE KInv'
<1> DEFINE d == Stepping(host[h], TRUE)
<1>1. host' = [host EXCEPT ![h] = d] /\ UNCHANGED <<deploy, durable, job, kms>>
  BY DEF BranchBegin, Stepping
<1> HIDE DEF d
<1>2. /\ d \in HostState /\ (d.up => Holds(manifest, d.keys, d.epoch))
      /\ d.up /\ ~d.fenced => d.epoch = d.seen
  BY SteppingHost DEF d
<1> QED
  BY <1>1, <1>2, Same, HostStep DEF durable

LEMMA BranchAppendKeeps == ASSUME KInv, NEW h \in Hosts, BranchAppend(h) PROVE KInv'
<1> DEFINE d == Stepping(host[h], FALSE)
<1>1. /\ host' = [host EXCEPT ![h] = d] /\ host[h].up
      /\ UNCHANGED <<deploy, manifest, version, lease, log, job, kms>>
      /\ branch' = branch \/ branch' = Append(branch, Seal(host[h]))
  BY DEF BranchAppend, Stepping, Hosting
<1> HIDE DEF d
<1>2. /\ d \in HostState /\ (d.up => Holds(manifest, d.keys, d.epoch))
      /\ d.up /\ ~d.fenced => d.epoch = d.seen
  BY SteppingHost DEF d
<1>3. Seal(host[h]) \in Unwrapped(manifest)
  BY <1>1, Same DEF Holds, Seal
<1>4. branch' \in Seq(Unwrapped(manifest))
  <2>1. branch \in Seq(Unwrapped(manifest))
    BY Same
  <2>2. Append(branch, Seal(host[h])) \in Seq(Unwrapped(manifest))
    BY <1>3, <2>1, AppendProperties
  <2> QED
    BY <1>1, <2>1, <2>2
<1> QED
  BY <1>1, <1>2, <1>4, Same, HostStep

LEMMA RotateKeeps == ASSUME KInv, NEW h \in Hosts, RotateStorageKey(h) PROVE KInv'
<1> DEFINE next == rotate_storage_key(manifest, h, host[h].basis)
           j == [op |-> "publish", prev |-> manifest, next |-> next]
<1>1. host[h].basis \in Nat /\ deploy.epochs \in 1..MaxEpoch
  BY Same, KeysAssumption DEF HostState
<1>2. Len(manifest.keys) < MaxEpoch
  BY <1>1, Same, KeysAssumption, SMTT(60) DEF RotateStorageKey, WellBuilt
<1>3. WellBuilt(next) /\ Extends(next, manifest)
  BY <1>1, <1>2, Same, RotateBuilds DEF RotateStorageKey
<1>4. job' = [job EXCEPT ![h] = j] /\ UNCHANGED <<deploy, durable, host, kms>>
  BY DEF RotateStorageKey
<1> HIDE DEF next
<1>5. JobOK(manifest, j)
  BY <1>3, Same, KeysAssumption DEF JobOK
<1> HIDE DEF j
<1> QED
  BY <1>4, <1>5, Same, HostStep DEF durable

LEMMA RewrapKeeps == ASSUME KInv, NEW h \in Hosts, NEW k \in Keks, RewrapKeys(h, k) PROVE KInv'
<1> DEFINE next == rewrap(manifest, k)
           j == [op |-> "publish", prev |-> manifest, next |-> next]
<1>3. WellBuilt(next) /\ Extends(next, manifest)
  BY Same, RewrapBuilds
<1>4. job' = [job EXCEPT ![h] = j] /\ UNCHANGED <<deploy, durable, host, kms>>
  BY DEF RewrapKeys
<1> HIDE DEF next
<1>5. JobOK(manifest, j)
  BY <1>3, Same, KeysAssumption DEF JobOK
<1> HIDE DEF j
<1> QED
  BY <1>4, <1>5, Same, HostStep DEF durable

LEMMA PublishKeeps == ASSUME KInv, NEW h \in Hosts, publish_key_manifest(h) PROVE KInv'
<1>1. WellBuilt(job[h].next) /\ Extends(job[h].next, job[h].prev)
  BY Same DEF publish_key_manifest, JobOK
<1>2. UNCHANGED <<deploy, version, lease, log, branch, host, kms>>
  BY DEF publish_key_manifest
<1>3. CASE validate(job[h].next) /\ manifest = job[h].prev
  <2> DEFINE j == [op |-> "bump", next |-> job[h].next]
  <2>1. manifest' = job[h].next /\ job' = [job EXCEPT ![h] = j]
    BY <1>3 DEF publish_key_manifest
  <2>2. Extends(job[h].next, job[h].next)
    BY <1>1, SMTT(60) DEF WellBuilt, Extends
  <2>3. JobOK(manifest', j)
    BY <1>1, <2>1, <2>2, KeysAssumption DEF JobOK
  <2>4. Extends(manifest', manifest) /\ WellBuilt(manifest')
    BY <1>1, <1>3, <2>1
  <2>5. /\ log' \in Seq(Unwrapped(manifest')) /\ branch' \in Seq(Unwrapped(manifest'))
        /\ host[h].up => Holds(manifest', host[h].keys, host[h].epoch)
    BY <1>2, <2>4, Same, GrowKeeps
  <2> HIDE DEF j
  <2> QED
    BY <1>2, <2>1, <2>3, <2>4, <2>5, Same, HostStep
<1>4. CASE ~(validate(job[h].next) /\ manifest = job[h].prev)
  <2>1. manifest' = manifest /\ job' = [job EXCEPT ![h] = Idle]
    BY <1>4 DEF publish_key_manifest, Finish
  <2> QED
    BY <1>2, <2>1, Same, ClosedOK, HostStep
<1> QED
  BY <1>3, <1>4

LEMMA BumpKeeps == ASSUME KInv, NEW h \in Hosts, bump_key_manifest_version(h) PROVE KInv'
<1> DEFINE j == [op |-> "adopt", next |-> job[h].next, version |-> version']
<1>1. /\ version' = version + 1 /\ job' = [job EXCEPT ![h] = j]
      /\ UNCHANGED <<deploy, manifest, lease, log, branch, host, kms>>
  BY DEF bump_key_manifest_version
<1>2. JobOK(manifest, j) /\ version' \in Nat
  BY <1>1, Same, KeysAssumption, SMTT(60) DEF JobOK, bump_key_manifest_version
<1> HIDE DEF j
<1> QED
  BY <1>1, <1>2, Same, HostStep

LEMMA BumpFailsKeeps == ASSUME KInv, NEW h \in Hosts, BumpFails(h) PROVE KInv'
<1>1. job' = [job EXCEPT ![h] = Idle] /\ UNCHANGED <<deploy, durable, host, kms>>
  BY DEF BumpFails, Finish
<1> QED
  BY <1>1, Same, ClosedOK, HostStep DEF durable

LEMMA ReloadedOK ==
  ASSUME NEW d \in HostState, NEW m, WellBuilt(m), NEW v \in Nat
  PROVE  /\ Reloaded(d, m, v) \in HostState
         /\ Reloaded(d, m, v).keys = Unwrapped(m)
         /\ Reloaded(d, m, v).epoch = active_storage_epoch(m)
         /\ Reloaded(d, m, v).seen = active_storage_epoch(m)
         /\ (Reloaded(d, m, v).up <=> d.up) /\ Reloaded(d, m, v).basis = d.basis
<1> DEFINE a == active_storage_epoch(m)
           K == Unwrapped(m)
<1>1. a \in Nat
  <2>1. a = Len(m.keys) /\ m.keys \in Seq(KeyState)
    BY ActiveIsLast DEF WellBuilt
  <2> QED  BY <2>1, SMTT(60)
<1>2. K \in SUBSET (Nat \X (Hosts \cup {None}))
  BY UnwrappedType
<1> HIDE DEF a, K
<1>3. Reloaded(d, m, v) = [d EXCEPT !.epoch = a, !.keys = K, !.kmv = v,
            !.unavailable = FALSE, !.fenced = FALSE, !.seen = a]
  BY DEF Reloaded, a, K
<1>4. Reloaded(d, m, v) \in HostState
  BY <1>1, <1>2, <1>3 DEF HostState
<1>5. /\ Reloaded(d, m, v).keys = K /\ Reloaded(d, m, v).epoch = a /\ Reloaded(d, m, v).seen = a
      /\ (Reloaded(d, m, v).up <=> d.up) /\ Reloaded(d, m, v).basis = d.basis
  BY <1>3 DEF HostState
<1> QED
  BY <1>4, <1>5 DEF a, K

LEMMA AdoptKeeps == ASSUME KInv, NEW h \in Hosts, Adopt(h) PROVE KInv'
<1> DEFINE d == IF Resolves(h, job[h].next) THEN Reloaded(host[h], job[h].next, job[h].version) ELSE host[h]
<1>1. WellBuilt(job[h].next) /\ Extends(manifest, job[h].next) /\ job[h].version \in Nat
  BY Same DEF Adopt, JobOK
<1>2. Holds(manifest, Unwrapped(job[h].next), active_storage_epoch(job[h].next))
  BY <1>1, Same, UnwrapHolds, GrowKeeps, SMTT(60)
<1>3. host' = [host EXCEPT ![h] = d] /\ job' = [job EXCEPT ![h] = Idle] /\ UNCHANGED <<deploy, durable, kms>>
  BY Same DEF Adopt, Finish
<1>4. host[h] \in HostState /\ (host[h].up => Holds(manifest, host[h].keys, host[h].epoch))
      /\ (host[h].up /\ ~host[h].fenced => host[h].epoch = host[h].seen)
  BY Same
<1>5. d \in HostState /\ (d.up => Holds(manifest, d.keys, d.epoch)) /\ (d.up /\ ~d.fenced => d.epoch = d.seen)
  <2>1. CASE Resolves(h, job[h].next)
    <3> DEFINE r == Reloaded(host[h], job[h].next, job[h].version)
    <3>1. d = r
      BY <2>1
    <3>2. /\ r \in HostState /\ r.keys = Unwrapped(job[h].next) /\ r.epoch = active_storage_epoch(job[h].next)
          /\ r.seen = active_storage_epoch(job[h].next)
      BY <1>1, <1>4, ReloadedOK
    <3> HIDE DEF d, r
    <3> QED
      BY <3>1, <3>2, <1>2
  <2>2. CASE ~Resolves(h, job[h].next)
    BY <2>2, <1>4
  <2> QED
    BY <2>1, <2>2
<1> HIDE DEF d
<1> QED
  BY <1>3, <1>5, Same, ClosedOK, HostStep DEF durable

LEMMA RefreshReadKeeps == ASSUME KInv, NEW h \in Hosts, RefreshRead(h) PROVE KInv'
<1>1. UNCHANGED <<deploy, durable, kms>>
  BY DEF RefreshRead
<1>2. CASE lease # [owner |-> h, version |-> host[h].lease]
  <2>1. host' = [host EXCEPT ![h] = Closed] /\ job' = job
    BY <1>2 DEF RefreshRead
  <2> QED
    BY <1>1, <2>1, Same, ClosedOK, HostStep DEF durable
<1>3. CASE lease = [owner |-> h, version |-> host[h].lease]
  <2> DEFINE j == [op |-> "reload", version |-> version]
  <2>1. job' = [job EXCEPT ![h] = j] /\ host' = host
    BY <1>3 DEF RefreshRead
  <2>2. JobOK(manifest, j)
    BY Same, KeysAssumption DEF JobOK
  <2> HIDE DEF j
  <2> QED
    BY <1>1, <2>1, <2>2, Same, HostStep DEF durable
<1> QED
  BY <1>2, <1>3

(* The alarm keeps keys and epoch, and fences unless the epoch is active. *)
LEMMA AlarmOK ==
  ASSUME NEW d \in HostState, NEW m, WellBuilt(m)
  PROVE  /\ raise_key_alarm(d, m) \in HostState
         /\ raise_key_alarm(d, m).up = d.up /\ raise_key_alarm(d, m).keys = d.keys
         /\ raise_key_alarm(d, m).epoch = d.epoch /\ raise_key_alarm(d, m).basis = d.basis
         /\ ~raise_key_alarm(d, m).fenced => raise_key_alarm(d, m).epoch = raise_key_alarm(d, m).seen
<1> DEFINE a == active_storage_epoch(m)
           f == d.fenced \/ a # d.epoch
           u == d.unavailable \/ a = d.epoch
<1>1. a \in Nat
  BY ActiveIsLast, SMTT(60) DEF WellBuilt
<1>2. f \in BOOLEAN /\ u \in BOOLEAN
  OBVIOUS
<1>3. raise_key_alarm(d, m) = [d EXCEPT !.fenced = f, !.unavailable = u, !.seen = a]
  BY DEF raise_key_alarm
<1>4. ~f => d.epoch = a
  OBVIOUS
<1> HIDE DEF a, f, u
<1>5. raise_key_alarm(d, m) \in HostState
  BY <1>1, <1>2, <1>3 DEF HostState
<1>6. /\ raise_key_alarm(d, m).fenced = f /\ raise_key_alarm(d, m).seen = a
      /\ raise_key_alarm(d, m).up = d.up /\ raise_key_alarm(d, m).keys = d.keys
      /\ raise_key_alarm(d, m).epoch = d.epoch /\ raise_key_alarm(d, m).basis = d.basis
  BY <1>3 DEF HostState
<1> QED
  BY <1>4, <1>5, <1>6

LEMMA RefreshLoadKeeps == ASSUME KInv, NEW h \in Hosts, RefreshLoad(h) PROVE KInv'
<1> DEFINE d == IF Resolves(h, manifest) THEN Reloaded(host[h], manifest, job[h].version)
                                         ELSE raise_key_alarm(host[h], manifest)
<1>1. job[h].version \in Nat /\ WellBuilt(manifest)
  BY Same DEF RefreshLoad, JobOK
<1>2. Holds(manifest, Unwrapped(manifest), active_storage_epoch(manifest))
  BY <1>1, UnwrapHolds
<1>3. host' = [host EXCEPT ![h] = d] /\ job' = [job EXCEPT ![h] = Idle] /\ UNCHANGED <<deploy, durable, kms>>
  BY DEF RefreshLoad, Finish
<1>4. host[h] \in HostState /\ (host[h].up => Holds(manifest, host[h].keys, host[h].epoch))
  BY Same
<1>5. d \in HostState /\ (d.up => Holds(manifest, d.keys, d.epoch)) /\ (d.up /\ ~d.fenced => d.epoch = d.seen)
  <2>1. CASE Resolves(h, manifest)
    <3> DEFINE r == Reloaded(host[h], manifest, job[h].version)
    <3>1. d = r
      BY <2>1
    <3>2. /\ r \in HostState /\ r.keys = Unwrapped(manifest) /\ r.epoch = active_storage_epoch(manifest)
          /\ r.seen = active_storage_epoch(manifest)
      BY <1>1, <1>4, ReloadedOK
    <3> HIDE DEF d, r
    <3> QED
      BY <3>1, <3>2, <1>2
  <2>2. CASE ~Resolves(h, manifest)
    <3> DEFINE r == raise_key_alarm(host[h], manifest)
    <3>1. d = r
      BY <2>2
    <3>2. /\ r \in HostState /\ r.up = host[h].up /\ r.keys = host[h].keys
          /\ r.epoch = host[h].epoch /\ (~r.fenced => r.epoch = r.seen)
      BY <1>1, <1>4, AlarmOK
    <3> HIDE DEF d, r
    <3> QED
      BY <3>1, <3>2, <1>4
  <2> QED
    BY <2>1, <2>2
<1> HIDE DEF d
<1> QED
  BY <1>3, <1>5, Same, ClosedOK, HostStep DEF durable

LEMMA CrashKeeps == ASSUME KInv, NEW h \in Hosts, Crash(h) PROVE KInv'
<1>1. host' = [host EXCEPT ![h] = Closed] /\ job' = [job EXCEPT ![h] = Idle] /\ UNCHANGED <<deploy, durable, kms>>
  BY DEF Crash, Finish
<1> QED
  BY <1>1, Same, ClosedOK, HostStep DEF durable

LEMMA KmsKeeps == ASSUME KInv, NEW k \in Keks, Kms(k) PROVE KInv'
<1>1. kms' \subseteq Keks /\ UNCHANGED <<deploy, durable, host, job>>
  BY DEF Kms, KInv, Types
<1>2. Types'
  BY <1>1 DEF KInv, Types, durable
<1> QED
  BY <1>1, <1>2 DEF KInv, durable

LEMMA KInvNext == KInv /\ [Next]_vars => KInv'
<1>1. ASSUME KInv, UNCHANGED vars PROVE KInv'
  BY <1>1 DEF KInv, Types, vars
<1>2. ASSUME KInv, Next PROVE KInv'
  BY <1>2, OpenKeysKeeps, OpenLeaseKeeps, CommitKeeps, BranchBeginKeeps, BranchAppendKeeps, RotateKeeps, RewrapKeeps, CrashKeeps,
     PublishKeeps, BumpKeeps, BumpFailsKeeps, AdoptKeeps, RefreshLoadKeeps, RefreshReadKeeps,
     KmsKeeps
     DEF Next, Operate, Continue
<1> QED
  BY <1>1, <1>2

THEOREM KeysInvariant == Spec => []KInv
  BY KInvInit, KInvNext, PTL DEF Spec

-----------------------------------------------------------------------------
(* Theorems *)

(* Every record of the log, and of the saga branches' logs, opens under the  *)
(* keys of the durable manifest, for any number of hosts, rotations,         *)
(* failures and crashes (node.rs install_key_manifest publishes before it    *)
(* swaps the cipher; open_branch shares it).                                 *)
THEOREM AlwaysOpenable == Spec => []LogOpenable
<1>1. KInv => LogOpenable
  <2> SUFFICES ASSUME KInv PROVE LogOpenable
    OBVIOUS
  <2>1. /\ Types /\ WellBuilt(manifest)
        /\ log \in Seq(Unwrapped(manifest)) /\ branch \in Seq(Unwrapped(manifest))
    BY DEF KInv, Types
  <2>2. /\ \A i \in DOMAIN log : log[i] \in Unwrapped(manifest)
        /\ \A i \in DOMAIN branch : branch[i] \in Unwrapped(manifest)
    BY <2>1, SMTT(60)
  <2>3. validate(manifest) /\ manifest.kek \in Keks
    BY <2>1, WellBuiltValid DEF WellBuilt
  <2>4. Unwrapped(manifest) \subseteq (1..MaxEpoch) \X (Hosts \cup {None})
    <3>1. /\ DOMAIN manifest.keys = 1..Len(manifest.keys) /\ Len(manifest.keys) \in 1..MaxEpoch
          /\ \A i \in 1..Len(manifest.keys) : manifest.keys[i] \in KeyState /\ manifest.keys[i].epoch = i
      BY <2>1, SMTT(60) DEF WellBuilt
    <3>2. \A i \in 1..Len(manifest.keys) : /\ manifest.keys[i].epoch \in 1..MaxEpoch
                                           /\ manifest.keys[i].key \in Hosts \cup {None}
      BY <3>1, KeysAssumption, SMTT(60) DEF KeyState
    <3> QED
      BY <3>1, <3>2, SMTT(60) DEF Unwrapped
  <2>5. {log, branch} \subseteq Seq((1..MaxEpoch) \X (Hosts \cup {None}))
    <3>1. Seq(Unwrapped(manifest)) \subseteq Seq((1..MaxEpoch) \X (Hosts \cup {None}))
      BY <2>4, SMTT(60)
    <3> QED
      BY <2>1, <3>1
  <2>6. \A h \in Hosts : /\ host[h].up => host[h].epoch \in 1..Len(manifest.keys)
                         /\ host[h].up => \E k \in host[h].keys : k[1] = host[h].epoch
                         /\ job[h].op \in {None, "open", "publish", "bump", "adopt", "reload"}
    BY DEF KInv, Holds, JobOK
  <2>7. TypeOK
    BY <2>1, <2>3, <2>5, <2>6 DEF TypeOK, Types
  <2> QED
    BY <2>2, <2>7 DEF LogOpenable, Opens
<1> QED
  BY <1>1, KeysInvariant, PTL

(* No step takes an epoch out of the manifest or gives it another key: of    *)
(* two rotations that read one manifest at most one is published (node.rs    *)
(* publish_key_manifest).                                                    *)
THEOREM ManifestOnlyGrows == Spec => EpochKeyStable
<1>1. KInv /\ [Next]_vars => [Unwrapped(manifest) \subseteq Unwrapped(manifest')]_vars
  <2> SUFFICES ASSUME KInv, [Next]_vars PROVE Unwrapped(manifest) \subseteq Unwrapped(manifest')
    OBVIOUS
  <2>1. CASE manifest' = manifest
    BY <2>1
  <2>2. CASE \E h \in Hosts : publish_key_manifest(h)
    <3> PICK h \in Hosts : publish_key_manifest(h)
      BY <2>2
    <3>1. Extends(job[h].next, job[h].prev)
      BY Same DEF publish_key_manifest, JobOK
    <3> QED
      BY <3>1 DEF publish_key_manifest, Extends
  <2>3. manifest' = manifest \/ \E h \in Hosts : publish_key_manifest(h)
    BY DEF Next, Operate, Continue, OpenKeys, OpenLease, Commit, BranchBegin, BranchAppend, RotateStorageKey, RewrapKeys,
       Crash, bump_key_manifest_version, BumpFails, Adopt, RefreshLoad, RefreshRead, Kms, durable, vars
  <2> QED
    BY <2>1, <2>2, <2>3
<1> QED
  BY <1>1, KeysInvariant, PTL DEF EpochKeyStable, Spec

(* A record joins the log only under the epoch its host last saw active      *)
(* (node.rs keys_fenced_error, asked by every write path).                   *)
THEOREM FenceAlwaysHolds == Spec => FenceHolds
<1>1. KInv /\ [Next]_vars => [log' # log => host[lease.owner].epoch = host[lease.owner].seen]_vars
  <2> SUFFICES ASSUME KInv, [Next]_vars, log' # log
               PROVE  host[lease.owner].epoch = host[lease.owner].seen
    OBVIOUS
  <2>1. \E h \in Hosts : Commit(h)
    BY DEF Next, Operate, Continue, OpenKeys, OpenLease, BranchBegin, BranchAppend, publish_key_manifest, RotateStorageKey,
       RewrapKeys, Crash, bump_key_manifest_version, BumpFails, Adopt, RefreshLoad, RefreshRead, Kms,
       durable, vars
  <2> PICK h \in Hosts : Commit(h)
    BY <2>1
  <2>2. host[h].up /\ ~host[h].fenced /\ lease = [owner |-> h, version |-> host[h].lease]
    BY DEF Commit, Hosting, keys_fenced_error
  <2>3. lease.owner = h
    BY <2>2
  <2> QED
    BY <2>2, <2>3 DEF KInv
<1> QED
  BY <1>1, KeysInvariant, PTL DEF FenceHolds, Spec

-----------------------------------------------------------------------------
(* The nonce budget, for a database that one process serves: any number of *)
(* epochs, records, restarts and operations.                               *)

End(l, m, i) == IF i = Len(m.keys) THEN Len(l) ELSE m.keys[i + 1].opened

(* In log l, the records of epoch i are those after its opening, up to its successor's. *)
Spans(l, m) ==
  \A i \in 1..Len(m.keys) :
    /\ m.keys[i].opened <= Len(l)
    /\ \A r \in 1..Len(l) : l[r][1] = i <=> m.keys[i].opened < r /\ r <= End(l, m, i)

(***************************************************************************)
(* While p alone serves the database and neither store nor KMS fails, p    *)
(* commits only under the last epoch, and what it is about to publish was  *)
(* computed from the present manifest at the present basis.                *)
(***************************************************************************)
Solo(p) ==
  /\ kms = Keks
  /\ \A h \in Hosts \ {p} : ~host[h].up /\ job[h].op = None
  /\ host[p].up => host[p].basis = Len(log)
  /\ host[p].up /\ job[p].op \notin {"bump", "adopt"} => host[p].epoch = Len(manifest.keys)
  /\ job[p].op = "open" => job[p].epoch = Len(manifest.keys)
  /\ job[p].op = "publish" => /\ job[p].prev = manifest /\ Spans(log, job[p].next)
                              /\ job[p].next.kek \in deploy.ring[p]
  /\ job[p].op \in {"bump", "adopt"} => job[p].next = manifest /\ job[p].next.kek \in deploy.ring[p]
  /\ Spans(log, manifest)

SInv == KInv /\ \A p \in Hosts : deploy.procs = {p} /\ ~deploy.faults => Solo(p)

LEMMA SInvInit == Init => SInv
<1>1. ASSUME Init PROVE KInv
  BY <1>1, KInvInit
<1> SUFFICES ASSUME Init, NEW p \in Hosts PROVE Solo(p)
  BY <1>1 DEF SInv
<1>2. \A h \in Hosts : ~host[h].up /\ job[h].op = None
  BY ClosedOK DEF Init, Idle
<1>3. Len(manifest.keys) = 1 /\ manifest.keys[1].opened = 0 /\ Len(log) = 0
  BY DEF Init, Key
<1>4. Spans(log, manifest)
  BY <1>3, SMTT(60) DEF Spans
<1>5. kms = Keks
  BY DEF Init
<1> QED
  BY <1>1, <1>2, <1>4, <1>5, KeysAssumption DEF Solo

(* Nothing happens to another host. *)
LEMMA OnlyP ==
  ASSUME NEW p \in Hosts, Solo(p), deploy.procs = {p}, ~deploy.faults, Next
  PROVE  Operate(p) \/ Continue(p) \/ RefreshRead(p)
<1>1. ~\E k \in Keks : Kms(k)
  BY DEF Kms
<1>2. ASSUME NEW h \in Hosts, h # p, Operate(h) \/ Continue(h) \/ RefreshRead(h) PROVE FALSE
  <2>1. ~host[h].up /\ job[h].op = None /\ h \notin deploy.procs
    BY <1>2 DEF Solo
  <2> QED
    BY <1>2, <2>1, KeysAssumption
       DEF Operate, Continue, OpenKeys, OpenLease, Commit, BranchBegin, BranchAppend, RotateStorageKey, RewrapKeys, Crash,
           publish_key_manifest, bump_key_manifest_version, BumpFails, Adopt, RefreshLoad,
           RefreshRead, Hosting, Free
<1> QED
  BY <1>1, <1>2 DEF Next

LEMMA SoloFrame ==
  ASSUME KInv, NEW p \in Hosts, Solo(p), deploy' = deploy, kms' = kms,
         NEW d, host' = [host EXCEPT ![p] = d], NEW j, job' = [job EXCEPT ![p] = j],
         d.up => d.basis = Len(log'),
         d.up /\ j.op \notin {"bump", "adopt"} => d.epoch = Len(manifest'.keys),
         j.op = "open" => j.epoch = Len(manifest'.keys),
         j.op = "publish" => j.prev = manifest' /\ Spans(log', j.next) /\ j.next.kek \in deploy.ring[p],
         j.op \in {"bump", "adopt"} => j.next = manifest' /\ j.next.kek \in deploy.ring[p],
         Spans(log', manifest')
  PROVE  Solo(p)'
<1>1. \A x \in Hosts : host'[x] = IF x = p THEN d ELSE host[x]
  BY DEF KInv, Types
<1>2. \A x \in Hosts : job'[x] = IF x = p THEN j ELSE job[x]
  BY DEF KInv, Types
<1>3. host'[p] = d /\ job'[p] = j
  BY <1>1, <1>2
<1>4. \A h \in Hosts \ {p} : ~host'[h].up /\ job'[h].op = None
  BY <1>1, <1>2 DEF Solo
<1> QED
  BY <1>3, <1>4 DEF Solo

(* A rotation at the present basis splits no span. *)
LEMMA RotateSpans ==
  ASSUME KInv, Spans(log, manifest), NEW k \in Hosts, Len(manifest.keys) < MaxEpoch
  PROVE  Spans(log, rotate_storage_key(manifest, k, Len(log)))
<1> DEFINE n == Len(manifest.keys)
           r == rotate_storage_key(manifest, k, Len(log))
<1>1. /\ n \in Nat \ {0} /\ DOMAIN manifest.keys = 1..n
      /\ \A i \in 1..n : manifest.keys[i] \in KeyState /\ manifest.keys[i].epoch = i
      /\ log \in Seq(Unwrapped(manifest)) /\ Len(log) \in Nat
  BY KeysAssumption, SMTT(60) DEF KInv, Types, WellBuilt
<1>2. /\ Len(r.keys) = n + 1 /\ r.keys[n + 1].opened = Len(log)
      /\ \A i \in 1..n : r.keys[i].opened = manifest.keys[i].opened
  BY <1>1, RotateShape, SMTT(60) DEF KInv, Types
<1>3. \A q \in 1..Len(log) : log[q][1] \in 1..n
  <2>1. \A q \in 1..Len(log) : log[q] \in Unwrapped(manifest)
    BY <1>1, SMTT(60)
  <2>2. \A x \in Unwrapped(manifest) : x[1] \in 1..n
    BY <1>1, SMTT(60) DEF Unwrapped
  <2> QED
    BY <2>1, <2>2
<1> HIDE DEF r
<1> SUFFICES ASSUME NEW i \in 1..(n + 1)
             PROVE  /\ r.keys[i].opened <= Len(log)
                    /\ \A q \in 1..Len(log) : log[q][1] = i <=> r.keys[i].opened < q /\ q <= End(log, r, i)
  BY <1>2 DEF Spans, r
<1>4. CASE i = n + 1
  <2>1. r.keys[i].opened = Len(log)
    BY <1>2, <1>4
  <2>2. \A q \in 1..Len(log) : log[q][1] # i /\ ~(Len(log) < q)
    BY <1>1, <1>3, <1>4, SMTT(60)
  <2> QED
    BY <1>1, <2>1, <2>2, SMTT(60)
<1>5. CASE i # n + 1
  <2>1. i \in 1..n /\ r.keys[i].opened = manifest.keys[i].opened
    BY <1>1, <1>2, <1>5, SMTT(60)
  <2>2. End(log, r, i) = End(log, manifest, i)
    <3>1. CASE i = n
      BY <3>1, <1>1, <1>2 DEF End
    <3>2. CASE i # n
      <4>1. i + 1 \in 1..n /\ i # n + 1
        BY <3>2, <2>1, <1>1, SMTT(60)
      <4> QED
        BY <3>2, <4>1, <1>2 DEF End
    <3> QED
      BY <3>1, <3>2
  <2> QED
    BY <2>1, <2>2 DEF Spans
<1> QED
  BY <1>4, <1>5

(* A record under the last epoch extends the last span. *)
LEMMA AppendSpans ==
  ASSUME KInv, Spans(log, manifest), NEW k, k[1] = Len(manifest.keys), k \in Unwrapped(manifest)
  PROVE  Spans(Append(log, k), manifest)
<1> DEFINE n == Len(manifest.keys)
           l == Append(log, k)
<1>1. /\ n \in Nat \ {0} /\ log \in Seq(Unwrapped(manifest)) /\ Len(log) \in Nat
      /\ \A i \in 1..n : manifest.keys[i].opened \in Nat
  <2>1. WellBuilt(manifest) /\ log \in Seq(Unwrapped(manifest))
    BY DEF KInv, Types
  <2>2. \A i \in 1..n : manifest.keys[i] \in KeyState
    BY <2>1, SMTT(60) DEF WellBuilt
  <2> QED
    BY <2>1, <2>2, KeysAssumption, SMTT(60) DEF WellBuilt, KeyState
<1>2. Len(l) = Len(log) + 1 /\ l[Len(log) + 1] = k /\ \A q \in 1..Len(log) : l[q] = log[q]
  BY <1>1, SMTT(60)
<1> HIDE DEF l
<1> SUFFICES ASSUME NEW i \in 1..n
             PROVE  /\ manifest.keys[i].opened <= Len(l)
                    /\ \A q \in 1..Len(l) : l[q][1] = i <=> manifest.keys[i].opened < q /\ q <= End(l, manifest, i)
  BY DEF Spans, l
<1>3. /\ manifest.keys[i].opened <= Len(log) /\ manifest.keys[i].opened \in Nat
      /\ \A q \in 1..Len(log) : log[q][1] = i <=> manifest.keys[i].opened < q /\ q <= End(log, manifest, i)
  BY <1>1 DEF Spans
<1>4. manifest.keys[i].opened <= Len(l)
  BY <1>1, <1>2, <1>3, SMTT(60)
<1>5. ASSUME NEW q \in 1..Len(l)
      PROVE  l[q][1] = i <=> manifest.keys[i].opened < q /\ q <= End(l, manifest, i)
  <2>1. CASE i = n
    <3>1. End(l, manifest, i) = Len(log) + 1 /\ End(log, manifest, i) = Len(log)
      BY <2>1, <1>2 DEF End
    <3>2. CASE q = Len(log) + 1
      BY <3>1, <3>2, <2>1, <1>1, <1>2, <1>3, SMTT(60)
    <3>3. CASE q # Len(log) + 1
      <4>1. q \in 1..Len(log) /\ q <= Len(log) + 1
        BY <3>3, <1>1, <1>2, SMTT(60)
      <4> QED
        BY <3>1, <4>1, <1>1, <1>2, <1>3, SMTT(60)
    <3> QED
      BY <3>2, <3>3
  <2>2. CASE i # n
    <3>1. /\ i + 1 \in 1..n /\ End(l, manifest, i) = manifest.keys[i + 1].opened
          /\ End(log, manifest, i) = manifest.keys[i + 1].opened
      BY <2>2, <1>1, SMTT(60) DEF End
    <3>2. manifest.keys[i + 1].opened \in Nat /\ manifest.keys[i + 1].opened <= Len(log)
      BY <3>1, <1>1 DEF Spans
    <3>3. CASE q = Len(log) + 1
      BY <3>1, <3>2, <3>3, <2>2, <1>1, <1>2, SMTT(60)
    <3>4. CASE q # Len(log) + 1
      <4>1. q \in 1..Len(log)
        BY <3>4, <1>1, <1>2, SMTT(60)
      <4> QED
        BY <3>1, <4>1, <1>2, <1>3
    <3> QED
      BY <3>3, <3>4
  <2> QED
    BY <2>1, <2>2
<1> QED
  BY <1>4, <1>5

Idling(j) == j.op \notin {"open", "publish", "bump", "adopt"}

LEMMA IdleIdles == Idling(Idle)
  BY KeysAssumption DEF Idle, Idling

LEMMA HostKeys ==
  ASSUME KInv, NEW p \in Hosts
  PROVE  host[p] \in HostState /\ WellBuilt(manifest)
  BY DEF KInv, Types

LEMMA SoloFacts ==
  ASSUME KInv, NEW p \in Hosts
  PROVE  /\ host = [host EXCEPT ![p] = host[p]] /\ job = [job EXCEPT ![p] = job[p]]
         /\ host[p] \in HostState /\ JobOK(manifest, job[p]) /\ WellBuilt(manifest)
         /\ Len(manifest.keys) \in Nat
  BY Same, SMTT(60) DEF WellBuilt

LEMMA SoloOpenKeys ==
  ASSUME KInv, NEW p \in Hosts, Solo(p), OpenKeys(p)
  PROVE  Solo(p)'
<1> DEFINE j == [op |-> "open", epoch |-> active_storage_epoch(manifest), keys |-> Unwrapped(manifest)]
<1>1. /\ job' = [job EXCEPT ![p] = j] /\ UNCHANGED <<deploy, durable, host, kms>> /\ ~host[p].up
  BY DEF OpenKeys, Hosting
<1>2. j.op = "open" /\ j.epoch = Len(manifest.keys)
  BY SoloFacts, ActiveIsLast
<1> HIDE DEF j
<1> QED
  BY SoloFacts, <1>1, <1>2, SoloFrame DEF durable, Solo, Idling

LEMMA SoloOpenLease ==
  ASSUME KInv, NEW p \in Hosts, Solo(p), OpenLease(p)
  PROVE  Solo(p)'
<1> DEFINE new == [Closed EXCEPT !.up = TRUE, !.lease = lease'.version, !.basis = Len(log),
                         !.epoch = job[p].epoch, !.keys = job[p].keys, !.kmv = version,
                         !.seen = job[p].epoch]
           d == IF \A i \in DOMAIN log : Opens(job[p].keys, log[i]) THEN new ELSE Closed
<1>1. /\ host' = [host EXCEPT ![p] = d] /\ job' = [job EXCEPT ![p] = Idle]
      /\ UNCHANGED <<deploy, manifest, log, kms>>
  BY DEF OpenLease, Finish
<1>2. new.basis = Len(log) /\ new.epoch = job[p].epoch
  BY DEF Closed
<1>3. job[p].epoch = Len(manifest.keys)
  BY DEF Solo, OpenLease
<1>4. d.up => d.basis = Len(log) /\ d.epoch = Len(manifest.keys)
  BY <1>2, <1>3, ClosedOK
<1> HIDE DEF d
<1> QED
  BY SoloFacts, IdleIdles, <1>1, <1>4, SoloFrame DEF Solo, Idling

LEMMA SoloCommit ==
  ASSUME KInv, NEW p \in Hosts, Solo(p), Commit(p)
  PROVE  Solo(p)'
<1>1. job[p].op = None /\ host[p].up /\ UNCHANGED <<deploy, manifest, job, kms>>
  BY DEF Commit, Free, Hosting
<1>2. Idling(job[p])
  BY <1>1, KeysAssumption DEF Idling
<1>3. CASE lease = [owner |-> p, version |-> host[p].lease]
  <2> DEFINE d == AtBasis(host[p], Len(log) + 1)
  <2>1. log' = Append(log, Seal(host[p])) /\ host' = [host EXCEPT ![p] = d]
    BY <1>3 DEF Commit, AtBasis
  <2>2. Holds(manifest, host[p].keys, host[p].epoch) /\ log \in Seq(Unwrapped(manifest)) /\ Len(log) + 1 \in Nat
    BY <1>1, Same, SMTT(60)
  <2>3. Seal(host[p]) \in host[p].keys /\ Seal(host[p])[1] = host[p].epoch
    BY <2>2 DEF Holds, Seal
  <2>4. Seal(host[p]) \in Unwrapped(manifest)
    BY <2>2, <2>3 DEF Holds
  <2>5. host[p].epoch = Len(manifest.keys) /\ Spans(log, manifest)
    BY <1>1, <1>2 DEF Solo, Idling
  <2>6. Spans(log', manifest)
    BY <2>1, <2>3, <2>4, <2>5, AppendSpans
  <2>7. Len(log') = Len(log) + 1
    BY <2>1, <2>2, <2>4, SMTT(60)
  <2>8. d.basis = Len(log) + 1 /\ d.epoch = host[p].epoch
    <3>1. host[p] \in HostState /\ Len(log) + 1 \in Nat
      BY <2>2, SoloFacts
    <3> QED
      BY <3>1, AtBasisOK
  <2>9. /\ host' = [host EXCEPT ![p] = d] /\ job' = [job EXCEPT ![p] = job[p]]
        /\ deploy' = deploy /\ kms' = kms
    BY <1>1, <2>1, SoloFacts
  <2> HIDE DEF d
  <2>10. d.basis = Len(log') /\ d.epoch = Len(manifest'.keys) /\ Spans(log', manifest')
    BY <1>1, <2>5, <2>6, <2>7, <2>8
  <2> QED
    BY <1>2, <2>9, <2>10, SoloFrame DEF Idling
<1>4. CASE lease # [owner |-> p, version |-> host[p].lease]
  <2>1. host' = [host EXCEPT ![p] = Closed] /\ log' = log
    BY <1>4 DEF Commit
  <2>2. job' = [job EXCEPT ![p] = job[p]] /\ Spans(log', manifest') /\ ~Closed.up
    BY SoloFacts, <1>1, <2>1, ClosedOK DEF Solo
  <2>3. deploy' = deploy /\ kms' = kms
    BY <1>1
  <2> QED
    BY <1>2, <2>1, <2>2, <2>3, SoloFrame DEF Idling
<1> QED
  BY <1>3, <1>4

(* A branch's batch touches neither the log nor the keys. *)
LEMMA SoloBranch ==
  ASSUME KInv, NEW p \in Hosts, Solo(p), BranchBegin(p) \/ BranchAppend(p)
  PROVE  Solo(p)'
<1>1. PICK b \in BOOLEAN : host' = [host EXCEPT ![p] = Stepping(host[p], b)]
  BY DEF BranchBegin, BranchAppend, Stepping
<1>2. UNCHANGED <<deploy, manifest, log, job, kms>>
  BY DEF BranchBegin, BranchAppend, durable
<1> DEFINE d == Stepping(host[p], b)
<1>3. d.up = host[p].up /\ d.basis = host[p].basis /\ d.epoch = host[p].epoch
  BY SoloFacts, SteppingOK
<1>4. host' = [host EXCEPT ![p] = d] /\ job' = [job EXCEPT ![p] = job[p]]
  BY <1>1, <1>2, SoloFacts
<1> HIDE DEF d
<1>5. /\ d.up => d.basis = Len(log)
      /\ d.up /\ job[p].op \notin {"bump", "adopt"} => d.epoch = Len(manifest.keys)
      /\ job[p].op = "open" => job[p].epoch = Len(manifest.keys)
      /\ job[p].op = "publish" => /\ job[p].prev = manifest /\ Spans(log, job[p].next)
                                  /\ job[p].next.kek \in deploy.ring[p]
      /\ job[p].op \in {"bump", "adopt"} => job[p].next = manifest /\ job[p].next.kek \in deploy.ring[p]
      /\ Spans(log, manifest)
  BY <1>3 DEF Solo
<1> QED
  BY <1>2, <1>4, <1>5, SoloFrame

LEMMA SoloRotate ==
  ASSUME KInv, NEW p \in Hosts, Solo(p), RotateStorageKey(p)
  PROVE  Solo(p)'
<1> DEFINE next == rotate_storage_key(manifest, p, Len(log))
           j == [op |-> "publish", prev |-> manifest, next |-> next]
<1>1. job[p].op = None /\ host[p].up /\ host[p].basis = Len(log) /\ manifest.kek \in deploy.ring[p]
  BY DEF RotateStorageKey, Free, Hosting, Resolves, Solo
<1>2. job' = [job EXCEPT ![p] = j] /\ UNCHANGED <<deploy, durable, host, kms>>
  BY <1>1 DEF RotateStorageKey
<1>3. Len(manifest.keys) < MaxEpoch /\ Len(log) \in Nat
  <2>1. deploy.epochs \in 1..MaxEpoch
    BY Same, KeysAssumption
  <2> QED
    BY SoloFacts, <2>1, Same, KeysAssumption, SMTT(60) DEF RotateStorageKey
<1>4. Spans(log, next) /\ next.kek = manifest.kek
  BY SoloFacts, <1>3, RotateSpans, RotateShape, SMTT(60) DEF Solo
<1>5. host[p].epoch = Len(manifest.keys) /\ Spans(log, manifest)
  BY <1>1, KeysAssumption DEF Solo, Idling
<1> HIDE DEF next
<1> QED
  BY SoloFacts, <1>1, <1>2, <1>4, <1>5, SoloFrame DEF durable, Idling

LEMMA SoloRewrap ==
  ASSUME KInv, NEW p \in Hosts, Solo(p), NEW k \in Keks, RewrapKeys(p, k)
  PROVE  Solo(p)'
<1> DEFINE next == rewrap(manifest, k)
           j == [op |-> "publish", prev |-> manifest, next |-> next]
<1>1. job[p].op = None /\ host[p].up /\ next.kek \in deploy.ring[p]
  BY DEF RewrapKeys, Free, Hosting, Resolves
<1>2. job' = [job EXCEPT ![p] = j] /\ UNCHANGED <<deploy, durable, host, kms>>
  BY DEF RewrapKeys
<1>3. host[p].basis = Len(log) /\ host[p].epoch = Len(manifest.keys) /\ Spans(log, manifest)
  BY <1>1, KeysAssumption DEF Solo, Idling
<1>4. next.keys = manifest.keys
  BY SoloFacts DEF WellBuilt, rewrap
<1>5. Spans(log, next)
  BY <1>3, <1>4 DEF Spans, End
<1> HIDE DEF next
<1> QED
  BY SoloFacts, <1>1, <1>2, <1>3, <1>5, SoloFrame DEF durable, Idling

LEMMA SoloPublish ==
  ASSUME KInv, NEW p \in Hosts, Solo(p), publish_key_manifest(p)
  PROVE  Solo(p)'
<1>1. UNCHANGED <<deploy, log, host, kms>> /\ job[p].op = "publish"
  BY DEF publish_key_manifest
<1>2. /\ Spans(log, manifest) /\ Spans(log, job[p].next) /\ job[p].next.kek \in deploy.ring[p]
      /\ host[p].up => host[p].basis = Len(log) /\ host[p].epoch = Len(manifest.keys)
  BY <1>1 DEF Solo
<1>3. CASE validate(job[p].next) /\ manifest = job[p].prev
  <2> DEFINE j == [op |-> "bump", next |-> job[p].next]
  <2>1. manifest' = job[p].next /\ job' = [job EXCEPT ![p] = j]
    BY <1>3 DEF publish_key_manifest
  <2>2. j.op = "bump" /\ j.next = job[p].next
    OBVIOUS
  <2> HIDE DEF j
  <2> QED
    BY SoloFacts, <1>1, <1>2, <2>1, <2>2, SoloFrame DEF Idling
<1>4. CASE ~(validate(job[p].next) /\ manifest = job[p].prev)
  <2>1. manifest' = manifest /\ job' = [job EXCEPT ![p] = Idle]
    BY <1>4 DEF publish_key_manifest, Finish
  <2> QED
    BY SoloFacts, IdleIdles, <1>1, <1>2, <2>1, SoloFrame DEF Idling
<1> QED
  BY <1>3, <1>4

LEMMA SoloBump ==
  ASSUME KInv, NEW p \in Hosts, Solo(p), bump_key_manifest_version(p)
  PROVE  Solo(p)'
<1> DEFINE j == [op |-> "adopt", next |-> job[p].next, version |-> version']
<1>1. /\ job' = [job EXCEPT ![p] = j] /\ UNCHANGED <<deploy, manifest, log, host, kms>>
      /\ job[p].op = "bump"
  BY DEF bump_key_manifest_version
<1>2. j.op = "adopt" /\ j.next = job[p].next
  OBVIOUS
<1> HIDE DEF j
<1> QED
  BY SoloFacts, <1>1, <1>2, SoloFrame DEF Solo, Idling

LEMMA SoloAdopt ==
  ASSUME KInv, NEW p \in Hosts, Solo(p), Adopt(p)
  PROVE  Solo(p)'
<1> DEFINE d == Reloaded(host[p], manifest, job[p].version)
<1>1. job[p].op = "adopt" /\ job[p].next = manifest /\ manifest.kek \in deploy.ring[p] /\ kms = Keks
  BY DEF Adopt, Solo
<1>2. job[p].version \in Nat /\ Resolves(p, job[p].next)
  BY SoloFacts, <1>1 DEF JobOK, Resolves, WellBuilt
<1>2a. job[p].version \in Nat
  BY <1>2
<1>3. host' = [host EXCEPT ![p] = d] /\ job' = [job EXCEPT ![p] = Idle] /\ UNCHANGED <<deploy, durable, kms>>
  BY <1>1, <1>2 DEF Adopt, Finish
<1>4. d.epoch = Len(manifest.keys) /\ d.basis = host[p].basis /\ (d.up <=> host[p].up)
  <2>1. d.epoch = active_storage_epoch(manifest) /\ d.basis = host[p].basis /\ (d.up <=> host[p].up)
    BY HostKeys, <1>2a, ReloadedOK, SMTT(60)
  <2> QED
    BY <2>1, SoloFacts, ActiveIsLast
<1> HIDE DEF d
<1>5. d.up => d.basis = Len(log)
  BY <1>4 DEF Solo
<1> QED
  BY SoloFacts, IdleIdles, <1>3, <1>4, <1>5, SoloFrame DEF Solo, Idling, durable

LEMMA SoloRefreshLoad ==
  ASSUME KInv, NEW p \in Hosts, Solo(p), RefreshLoad(p)
  PROVE  Solo(p)'
<1> DEFINE d == IF Resolves(p, manifest) THEN Reloaded(host[p], manifest, job[p].version)
                                         ELSE raise_key_alarm(host[p], manifest)
<1>1. job[p].op = "reload"
  BY DEF RefreshLoad
<1>2. job[p].version \in Nat
  BY SoloFacts, <1>1 DEF JobOK
<1>3. host' = [host EXCEPT ![p] = d] /\ job' = [job EXCEPT ![p] = Idle] /\ UNCHANGED <<deploy, durable, kms>>
  BY DEF RefreshLoad, Finish
<1>4. host[p].up => host[p].basis = Len(log) /\ host[p].epoch = Len(manifest.keys)
  BY <1>1 DEF Solo
<1>5. d.up => d.basis = Len(log) /\ d.epoch = Len(manifest.keys)
  <2>1. CASE Resolves(p, manifest)
    <3> DEFINE r == Reloaded(host[p], manifest, job[p].version)
    <3>1. d = r
      BY <2>1
    <3>2. r.epoch = active_storage_epoch(manifest) /\ r.basis = host[p].basis /\ (r.up <=> host[p].up)
      BY HostKeys, <1>2, ReloadedOK, SMTT(60)
    <3>3. active_storage_epoch(manifest) = Len(manifest.keys)
      BY SoloFacts, ActiveIsLast
    <3> HIDE DEF d, r
    <3> QED
      BY <1>4, <3>1, <3>2, <3>3
  <2>2. CASE ~Resolves(p, manifest)
    <3> DEFINE r == raise_key_alarm(host[p], manifest)
    <3>1. d = r
      BY <2>2
    <3>2. r.epoch = host[p].epoch /\ r.basis = host[p].basis /\ r.up = host[p].up
      BY HostKeys, AlarmOK
    <3> HIDE DEF d, r
    <3> QED
      BY <1>4, <3>1, <3>2
  <2> QED
    BY <2>1, <2>2
<1> HIDE DEF d
<1> QED
  BY SoloFacts, IdleIdles, <1>3, <1>5, SoloFrame DEF Solo, Idling, durable

LEMMA SoloRefreshRead ==
  ASSUME KInv, NEW p \in Hosts, Solo(p), RefreshRead(p)
  PROVE  Solo(p)'
<1>1. UNCHANGED <<deploy, durable, kms>> /\ job[p].op = None
  BY DEF RefreshRead, Free
<1>2. /\ Spans(log, manifest) /\ Idling(job[p])
      /\ host[p].up => host[p].basis = Len(log) /\ host[p].epoch = Len(manifest.keys)
  BY <1>1, KeysAssumption DEF Solo, Idling
<1>3. CASE lease # [owner |-> p, version |-> host[p].lease]
  <2>1. host' = [host EXCEPT ![p] = Closed] /\ job' = job
    BY <1>3 DEF RefreshRead
  <2> QED
    BY SoloFacts, <1>1, <1>2, <2>1, ClosedOK, SoloFrame DEF durable, Idling
<1>4. CASE lease = [owner |-> p, version |-> host[p].lease]
  <2> DEFINE j == [op |-> "reload", version |-> version]
  <2>1. job' = [job EXCEPT ![p] = j] /\ host' = host /\ j.op = "reload"
    BY <1>4 DEF RefreshRead
  <2> HIDE DEF j
  <2> QED
    BY SoloFacts, <1>1, <1>2, <2>1, SoloFrame DEF durable, Idling
<1> QED
  BY <1>3, <1>4

LEMMA SoloCrash ==
  ASSUME KInv, NEW p \in Hosts, Solo(p), Crash(p)
  PROVE  Solo(p)'
<1>1. host' = [host EXCEPT ![p] = Closed] /\ job' = [job EXCEPT ![p] = Idle] /\ UNCHANGED <<deploy, durable, kms>>
  BY DEF Crash, Finish
<1> QED
  BY IdleIdles, <1>1, ClosedOK, SoloFrame DEF Solo, Idling, durable

LEMMA SoloNext ==
  ASSUME KInv, NEW p \in Hosts, deploy.procs = {p}, ~deploy.faults, Solo(p), Next
  PROVE  Solo(p)'
<1>1. ~BumpFails(p)
  BY DEF BumpFails
<1> QED
  BY <1>1, OnlyP, SoloOpenKeys, SoloOpenLease, SoloCommit, SoloBranch, SoloRotate, SoloRewrap, SoloPublish,
     SoloBump, SoloAdopt, SoloRefreshLoad, SoloRefreshRead, SoloCrash
     DEF Operate, Continue

LEMMA SInvNext == SInv /\ [Next]_vars => SInv'
<1>1. ASSUME SInv, UNCHANGED vars PROVE SInv'
  <2>1. KInv'
    BY <1>1, KInvNext DEF SInv
  <2> QED
    BY <1>1, <2>1 DEF SInv, Solo, vars
<1>2. ASSUME SInv, Next PROVE SInv'
  <2>1. KInv' /\ KInv
    BY <1>2, KInvNext DEF SInv
  <2>2. deploy' = deploy
    BY <1>2 DEF Next, Operate, Continue, OpenKeys, OpenLease, Commit, BranchBegin, BranchAppend, RotateStorageKey, RewrapKeys,
       Crash, publish_key_manifest, bump_key_manifest_version, BumpFails, Adopt, RefreshLoad, RefreshRead, Kms
  <2>3. ASSUME NEW p \in Hosts, deploy.procs = {p}, ~deploy.faults PROVE Solo(p)'
    BY <1>2, <2>1, <2>3, SoloNext DEF SInv
  <2> QED
    BY <2>1, <2>2, <2>3 DEF SInv
<1> QED
  BY <1>1, <1>2

(* Where one process serves the database and neither store nor KMS fails,    *)
(* the span of every epoch is the number of the database's own log records   *)
(* sealed under it, whatever the number of rotations, records and crashes    *)
(* and whatever its saga branches seal meanwhile (node.rs rotate_storage_key *)
(* under the commit lock; key_manifest.rs log_records_sealed).  The records  *)
(* of the branches are sealed under the same key and are not in the span.    *)
THEOREM BudgetExact == Spec => []Counted
<1>1. SInv => Counted
  <2> SUFFICES ASSUME SInv, Cardinality(deploy.procs) = 1, ~deploy.faults, NEW i \in DOMAIN manifest.keys
               PROVE  log_records_sealed(manifest, i, Len(log))
                        = Cardinality({r \in DOMAIN log : log[r][1] = i})
    BY DEF Counted, SealedUnder
  <2>1. Types /\ WellBuilt(manifest) /\ deploy.procs \subseteq Hosts
    BY KeysAssumption DEF SInv, KInv, Types
  <2>2. PICK p \in Hosts : deploy.procs = {p}
    <3>1. IsFiniteSet(deploy.procs)
      BY <2>1, KeysAssumption, FS_Subset
    <3>2. \E x : deploy.procs = {x}
      BY <3>1, FS_Singleton
    <3> QED
      BY <2>1, <3>2
  <2>3. Spans(log, manifest)
    BY <2>2 DEF SInv, Solo
  <2> DEFINE a == manifest.keys[i].opened
             b == End(log, manifest, i)
  <2>4. /\ Len(log) \in Nat /\ DOMAIN log = 1..Len(log) /\ i \in 1..Len(manifest.keys)
        /\ Len(manifest.keys) \in Nat /\ \A q \in 1..Len(manifest.keys) : manifest.keys[q] \in KeyState
    BY <2>1, SMTT(60) DEF Types, WellBuilt
  <2>5. \A q \in 1..Len(manifest.keys) : manifest.keys[q].opened \in Nat /\ manifest.keys[q].opened <= Len(log)
    BY <2>3, <2>4 DEF KeyState, Spans
  <2>6. a \in Nat /\ b \in Nat /\ a <= b /\ b <= Len(log)
    <3>1. CASE i = Len(manifest.keys)
      BY <3>1, <2>4, <2>5, SMTT(60) DEF End
    <3>2. CASE i # Len(manifest.keys)
      <4>1. i + 1 \in 2..Len(manifest.keys) /\ i + 1 \in 1..Len(manifest.keys) /\ (i + 1) - 1 = i
        BY <3>2, <2>4, SMTT(60)
      <4>2. a <= manifest.keys[i + 1].opened
        BY <4>1, <2>1 DEF WellBuilt
      <4> QED
        BY <3>2, <4>1, <4>2, <2>4, <2>5 DEF End
    <3> QED
      BY <3>1, <3>2
  <2>7. log_records_sealed(manifest, i, Len(log)) = b - a
    BY <2>6, SMTT(60) DEF log_records_sealed, End
  <2>8. {r \in DOMAIN log : log[r][1] = i} = (a + 1)..b
    <3>1. \A r \in 1..Len(log) : log[r][1] = i <=> a < r /\ r <= b
      BY <2>3, <2>4 DEF Spans
    <3> HIDE DEF a, b
    <3> QED
      BY <3>1, <2>4, <2>6, SMTT(60)
  <2> HIDE DEF a, b
  <2>9. Cardinality((a + 1)..b) = b - a
    <3>1. a + 1 \in Int /\ b \in Int /\ (a + 1 > b => b - a = 0) /\ b - (a + 1) + 1 = b - a
      BY <2>6, SMTT(60)
    <3>2. Cardinality((a + 1)..b) = IF a + 1 > b THEN 0 ELSE b - (a + 1) + 1
      BY <3>1, FS_Interval
    <3> QED
      BY <3>1, <3>2
  <2> QED
    BY <2>7, <2>8, <2>9
<1> QED
  BY <1>1, SInvInit, SInvNext, PTL DEF Spec
=============================================================================
