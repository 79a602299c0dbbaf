------------------------------ MODULE Catalog ------------------------------
(***************************************************************************)
(* Creating, forking and deleting a database (create_db, fork_db and       *)
(* delete_db of corium-transactor node.rs): what each call leaves in the   *)
(* shared store step by step, for one name and the nodes that may host it. *)
(* The name has four durable parts: the metadata root, which catalogues    *)
(* it, the database root with the lease, the key manifest and the log.     *)
(*                                                                         *)
(* A key is the number of its minting, None for cleartext.  A log record   *)
(* is its lease version, t, transaction, the key it is sealed under and    *)
(* the life of the name it was written in.  The source of a fork is a      *)
(* fixed database.  Open is one step, and so is a commit; the steps inside *)
(* them are module HaCommit's and, for keys, module Keys's.                *)
(***************************************************************************)
EXTENDS Naturals, Sequences, FiniteSets

CONSTANTS
  Nodes, Clients, None,
  MaxLease,       \* bound on the lease versions acquired
  Source,         \* the transactions of the fork's source, a sequence
  Deployments     \* nodes and clients, whether the nodes poll for leases to
                  \* take over (ha), whether a request waits for the one before
                  \* (serial), whether a crash may cut a request short (cut),
                  \* whether the source is encrypted (sealed), and bounds on
                  \* requests (ops), crashes, transactions (txs) and leases
                  \* taken from a live owner (lapses)

ASSUME CatalogAssumption ==
  /\ None \notin Nat /\ None \notin [owner : Nodes, version : Nat]
  /\ \A d \in Deployments : d.sealed \in BOOLEAN
  /\ \A d \in Deployments : ~d.ha => \E n \in Nodes : d.nodes = {n}

VARIABLES
  deploy,
  meta,           \* is there a metadata root?
  root,           \* owner and version of the lease, or None
  keys,           \* the key manifest's key, or None
  log, logdir,    \* the records, and whether a log exists
  dbs,            \* per node: the hosted state, or None; left marks one that
                  \* was hosted when a delete removed the metadata root
  down,           \* the nodes that are not running
  job,            \* per client: the request under way
  content,        \* what the catalogued database holds by the calls answered
  stray,          \* has a host that a delete left behind appended?
  misled,         \* has a host with the keys of a create that lost appended?
  life, minted, ops, crashes, txs, lapses

counts == <<stray, misled, life, minted, ops, crashes, txs>>
vars == <<deploy, meta, root, keys, log, logdir, dbs, down, job, content, counts, lapses>>

Idle == [op |-> None]
Record(v, t, id, k, l) == [v |-> v, t |-> t, id |-> id, key |-> k, life |-> l]

\* A record counts unless a higher lease version wrote at or below its t.
Visible == {r \in log : \A s \in log : s.v > r.v => r.t < s.t}

\* The t that a replay of the merged log arrives at.
Basis == LET ts == {0} \cup {r.t : r \in Visible}
         IN  CHOOSE t \in ts : \A u \in ts : u <= t

At(c, pc) == job[c].op # None /\ job[c].pc = pc
Goto(c, pc) == job' = [job EXCEPT ![c].pc = pc]
Done(c) == job' = [job EXCEPT ![c] = Idle]

-----------------------------------------------------------------------------
Init ==
  /\ deploy \in Deployments
  /\ meta = FALSE /\ root = None /\ keys = None /\ log = {} /\ logdir = FALSE
  /\ dbs = [n \in Nodes |-> None]
  /\ job = [c \in Clients |-> Idle]
  /\ down = {} /\ stray = FALSE /\ misled = FALSE
  /\ content = None
  /\ life = 0 /\ minted = 0 /\ ops = 0 /\ crashes = 0 /\ txs = 0 /\ lapses = 0

\* A request arrives at a node; where requests are serial, none is under way.
Request(c, n, j) ==
  /\ c \in deploy.clients /\ n \in deploy.nodes \ down
  /\ job[c].op = None
  /\ deploy.serial => \A d \in Clients : job[d].op = None
  /\ ops < deploy.ops
  /\ ops' = ops + 1
  /\ job' = [job EXCEPT ![c] = j]

-----------------------------------------------------------------------------
(* Opening *)

\* The lease names another node; it may have expired or not.
Taken(n) == root # None /\ root.owner # n

\* Its owner is alive and renews it.
Renewed(n) == Taken(n) /\ dbs[root.owner] # None

\* Keys, then the lease, which an owner keeps its version of and which a node
\* takes over once it has expired, whatever became of its owner; then the log,
\* every record of which must open under the key (or the lack of one) read.
open_db(n) ==
  /\ meta
  /\ Taken(n) => root.version < MaxLease
  /\ Renewed(n) => lapses < deploy.lapses
  /\ lapses' = IF Renewed(n) THEN lapses + 1 ELSE lapses
  /\ LET v == IF root = None THEN 1 ELSE IF root.owner = n THEN root.version
                                                            ELSE root.version + 1
     IN  /\ root' = [owner |-> n, version |-> v]
         /\ logdir' = TRUE
         /\ dbs' = IF \A r \in log : r.key = keys
                   THEN [dbs EXCEPT ![n] = [v |-> v, t |-> Basis, key |-> keys,
                                            left |-> FALSE]]
                   ELSE dbs

\* Startup opens what the catalogue lists; with a poller it stands by for what
\* another node holds, and what cannot be opened otherwise ends the process.
Start(n) ==
  /\ n \in down
  /\ \/ /\ open_db(n)
        /\ down' = IF dbs'[n] = None THEN down ELSE down \ {n}
     \/ /\ ~meta \/ (deploy.ha /\ Taken(n))
        /\ down' = down \ {n}
        /\ UNCHANGED <<root, logdir, dbs, lapses>>
  /\ UNCHANGED <<deploy, meta, keys, log, job, content, counts>>

\* The standby's poll, on a timer: whatever requests are under way.
standby_scan(n) ==
  /\ deploy.ha /\ n \in deploy.nodes \ down
  /\ dbs[n] = None
  /\ open_db(n)
  /\ UNCHANGED <<deploy, meta, keys, log, down, job, content, counts>>

\* The last step of a create and of a fork; an unexpired lease is an error.
OpenNew(c) ==
  /\ At(c, "open")
  /\ \/ open_db(job[c].node)
     \/ /\ ~meta \/ Taken(job[c].node)
        /\ UNCHANGED <<root, logdir, dbs, lapses>>
  /\ Done(c)
  /\ UNCHANGED <<deploy, meta, keys, log, down, content, counts>>

\* A node that finds its lease gone stops hosting; without a poller it exits.
Depose(n) ==
  /\ dbs' = [dbs EXCEPT ![n] = None]
  /\ down' = IF deploy.ha THEN down ELSE down \cup {n}

Owns(n) == root = [owner |-> n, version |-> dbs[n].v]

\* The renewal of a lease that is another node's by now.
RenewLost(n) ==
  /\ dbs[n] # None /\ ~Owns(n)
  /\ Depose(n)
  /\ UNCHANGED <<deploy, meta, root, keys, log, logdir, job, content, counts, lapses>>

-----------------------------------------------------------------------------
(* Create *)

\* Mutant: an encrypted create catalogues the name and writes no manifest.
CreateNoKeys(c, n, enc) ==
  /\ dbs[n] = None
  /\ Request(c, n, [op |-> "create", node |-> n, enc |-> enc, key |-> None, at |-> 1,
                    pc |-> "meta"])
  /\ UNCHANGED <<deploy, meta, root, keys, log, logdir, dbs, down, content, stray, misled,
                 life, minted, crashes, txs, lapses>>

\* The name is not hosted here; with a storage key the manifest comes first.
create_db(c, n, enc) ==
  /\ dbs[n] = None
  /\ Request(c, n, [op |-> "create", node |-> n, enc |-> enc, key |-> None, at |-> 1,
                    pc |-> IF enc THEN "keys" ELSE "meta"])
  /\ UNCHANGED <<deploy, meta, root, keys, log, logdir, dbs, down, content, stray, misled,
                 life, minted, crashes, txs, lapses>>

\* The first key, published before the catalogue entry; a manifest already
\* there is an error.
create_key_manifest(c) ==
  /\ At(c, "keys")
  /\ minted' = minted + 1
  /\ IF keys = None
     THEN /\ keys' = minted'
          /\ job' = [job EXCEPT ![c].pc = IF job[c].op = "fork" THEN "log" ELSE "meta",
                                ![c].key = minted']
     ELSE /\ Done(c)
          /\ UNCHANGED keys
  /\ UNCHANGED <<deploy, meta, root, log, logdir, dbs, down, content, stray, misled, life, ops,
                 crashes, txs, lapses>>

\* The catalogue entry, by compare-and-set from nothing; the loser takes back
\* what it wrote: its keys, and for a fork first the log.
CreateMeta(c) ==
  /\ At(c, "meta")
  /\ IF ~meta
     THEN /\ meta' = TRUE
          /\ life' = life + 1
          /\ content' = [ids |-> IF job[c].op = "fork" THEN Source ELSE <<>>,
                         forked |-> job[c].op = "fork", enc |-> job[c].enc]
          /\ Goto(c, "open")
     ELSE /\ UNCHANGED <<meta, life, content>>
          /\ CASE job[c].op = "fork" -> Goto(c, "undolog")
               [] job[c].op = "create" /\ job[c].enc -> Goto(c, "undokeys")
               [] OTHER -> Done(c)
  /\ UNCHANGED <<deploy, root, keys, log, logdir, dbs, down, stray, misled, minted, ops,
                 crashes, txs, lapses>>

UndoLog(c) ==
  /\ At(c, "undolog")
  /\ log' = {} /\ logdir' = FALSE
  /\ IF job[c].enc THEN Goto(c, "undokeys") ELSE Done(c)
  /\ UNCHANGED <<deploy, meta, root, keys, dbs, down, content, counts, lapses>>

\* Mutant: the loser of the catalogue entry leaves its manifest.
UndoNothing(c) ==
  /\ At(c, "undokeys")
  /\ Done(c)
  /\ UNCHANGED <<deploy, meta, root, keys, log, logdir, dbs, down, content, counts, lapses>>

UndoKeys(c) ==
  /\ At(c, "undokeys")
  /\ keys' = None
  /\ Done(c)
  /\ UNCHANGED <<deploy, meta, root, log, logdir, dbs, down, content, counts, lapses>>

-----------------------------------------------------------------------------
(* Fork *)

\* Under the node's fork lock: the target is neither hosted nor catalogued and
\* has no log.
fork_db(c, n) ==
  /\ \A d \in Clients : ~(job[d].op = "fork" /\ job[d].node = n)
  /\ dbs[n] = None /\ ~meta /\ ~logdir
  /\ Request(c, n, [op |-> "fork", node |-> n, enc |-> deploy.sealed, key |-> None, at |-> 1,
                    pc |-> IF deploy.sealed THEN "keys" ELSE "log"])
  /\ UNCHANGED <<deploy, meta, root, keys, log, logdir, dbs, down, content, stray, misled,
                 life, minted, crashes, txs, lapses>>

\* Mutant: the catalogue entry is written after the first record.
ForkAppendOne(c) ==
  /\ At(c, "log")
  /\ logdir' = TRUE
  /\ log' = log \cup {Record(0, job[c].at, Source[job[c].at], job[c].key, 0)}
  /\ Goto(c, "meta")
  /\ UNCHANGED <<deploy, meta, root, keys, dbs, down, content, counts, lapses>>

\* The prefix goes in record by record under version 0, sealed under the
\* target's own key; an append that is not the log's next t is an error.
ForkAppend(c) ==
  /\ At(c, "log")
  /\ logdir' = TRUE
  /\ IF \E r \in Visible : r.t >= job[c].at
     THEN /\ Done(c)
          /\ UNCHANGED log
     ELSE /\ log' = log \cup {Record(0, job[c].at, Source[job[c].at], job[c].key, 0)}
          /\ job' = [job EXCEPT ![c].at = @ + 1,
                                ![c].pc = IF job[c].at = Len(Source) THEN "meta" ELSE "log"]
  /\ UNCHANGED <<deploy, meta, root, keys, dbs, down, content, counts, lapses>>

-----------------------------------------------------------------------------
(* Delete *)

\* Only the node that hosts the database deletes it; it is unhosted first.
delete_db(c, n) ==
  /\ dbs[n] # None
  /\ Request(c, n, [op |-> "delete", node |-> n, pc |-> "droproot"])
  /\ dbs' = [dbs EXCEPT ![n] = None]
  /\ UNCHANGED <<deploy, meta, root, keys, log, logdir, down, content, stray, misled, life, minted,
                 crashes, txs, lapses>>

DeleteRoot(c) ==
  /\ At(c, "droproot")
  /\ root' = None
  /\ Goto(c, "dropmeta")
  /\ UNCHANGED <<deploy, meta, keys, log, logdir, dbs, down, content, counts, lapses>>

DeleteMeta(c) ==
  /\ At(c, "dropmeta")
  /\ meta' = FALSE /\ content' = None
  /\ dbs' = [n \in Nodes |-> IF dbs[n] = None THEN None ELSE [dbs[n] EXCEPT !.left = TRUE]]
  /\ Goto(c, "dropkeys")
  /\ UNCHANGED <<deploy, root, keys, log, logdir, down, counts, lapses>>

DeleteKeys(c) ==
  /\ At(c, "dropkeys")
  /\ keys' = None
  /\ Goto(c, "droplog")
  /\ UNCHANGED <<deploy, meta, root, log, logdir, dbs, down, content, counts, lapses>>

\* Mutant: the log stays.
DeleteNoLog(c) ==
  /\ At(c, "droplog")
  /\ Done(c)
  /\ UNCHANGED <<deploy, meta, root, keys, log, logdir, dbs, down, content, counts, lapses>>

DeleteLog(c) ==
  /\ At(c, "droplog")
  /\ log' = {} /\ logdir' = FALSE
  /\ Done(c)
  /\ UNCHANGED <<deploy, meta, root, keys, dbs, down, content, counts, lapses>>

-----------------------------------------------------------------------------
(* Transactions and crashes *)

\* A commit appends at the node's next t under its lease version and is
\* acknowledged when the root still carries that lease.
Commit(n) ==
  /\ dbs[n] # None /\ txs < deploy.txs
  /\ txs' = txs + 1
  /\ log' = log \cup {Record(dbs[n].v, dbs[n].t + 1, txs', dbs[n].key, life)}
  /\ logdir' = TRUE
  /\ stray' = (stray \/ dbs[n].left)
  /\ misled' = (misled \/ (content # None /\ ~content.enc /\ dbs[n].key # None))
  /\ IF Owns(n)
     THEN /\ dbs' = [dbs EXCEPT ![n].t = @ + 1]
          /\ content' = IF content = None THEN None
                        ELSE [content EXCEPT !.ids = Append(@, txs')]
          /\ UNCHANGED down
     ELSE /\ Depose(n)
          /\ UNCHANGED content
  /\ UNCHANGED <<deploy, meta, root, keys, job, life, minted, ops, crashes, lapses>>

\* The process dies, in a deployment with cuts in the middle of a request too.
Crash(n) ==
  /\ n \in deploy.nodes \ down /\ crashes < deploy.crashes
  /\ deploy.cut \/ \A c \in Clients : job[c].op # None => job[c].node # n
  /\ crashes' = crashes + 1
  /\ dbs' = [dbs EXCEPT ![n] = None] /\ down' = down \cup {n}
  /\ job' = [c \in Clients |-> IF job[c].op # None /\ job[c].node = n THEN Idle ELSE job[c]]
  /\ UNCHANGED <<deploy, meta, root, keys, log, logdir, content, stray, misled, life, minted,
                 ops, txs, lapses>>

-----------------------------------------------------------------------------
Step(c) ==
  \/ create_key_manifest(c) \/ CreateMeta(c) \/ UndoLog(c) \/ UndoKeys(c) \/ ForkAppend(c)
  \/ OpenNew(c) \/ DeleteRoot(c) \/ DeleteMeta(c) \/ DeleteKeys(c) \/ DeleteLog(c)

Next ==
  \/ \E c \in Clients, n \in Nodes :
       \/ \E enc \in BOOLEAN : create_db(c, n, enc)
       \/ fork_db(c, n) \/ delete_db(c, n)
  \/ \E c \in Clients : Step(c)
  \/ \E n \in Nodes : \/ Start(n) \/ standby_scan(n) \/ RenewLost(n)
                      \/ Commit(n) \/ Crash(n)

Spec == Init /\ [][Next]_vars

\* A request under way goes on; nodes restart, renew and poll, and the lease of
\* a node that does not renew it expires.
FairSpec ==
  /\ Spec
  /\ \A c \in Clients : WF_vars(Step(c))
  /\ \A n \in Nodes : /\ WF_vars(Start(n)) /\ WF_vars(RenewLost(n))
                      /\ WF_vars(~Renewed(n) /\ standby_scan(n))

-----------------------------------------------------------------------------
(* Properties *)

\* The state has its types; a transaction number is at least 1.
TypeOK ==
  /\ deploy \in Deployments
  /\ {meta, logdir} \subseteq BOOLEAN
  /\ root = None \/ root.owner \in Nodes
  /\ \A r \in log : r.v \in Nat /\ r.t \in Nat \ {0} /\ r.life <= life
  /\ \A n \in Nodes : dbs[n] = None \/ (dbs[n].t \in Nat /\ n \notin down)
  /\ \A c \in Clients : job[c].op \in {None, "create", "fork", "delete"}

\* The catalogued database is what the calls answered made it: the merged log
\* has the forked prefix and the acknowledged transactions, each once and in
\* this order, and besides them nothing but transactions of the same database
\* that were refused; between requests every record opens under the manifest.
Holds ==
  content # None =>
    /\ LET ids == {content.ids[i] : i \in DOMAIN content.ids}
           acked == {r \in Visible : r.id \in ids}
       IN  \A i \in DOMAIN content.ids :
             \E r \in acked : /\ r.id = content.ids[i]
                             /\ Cardinality({a \in acked : a.t <= r.t}) = i
    /\ \A r \in Visible : r.life = life \/ (r.life = 0 /\ content.forked)
    /\ (\A c \in Clients : job[c].op = None) => \A r \in Visible : r.key = keys

BeingDeleted == \E c \in Clients : job[c].op = "delete"

\* A node serves a database that is catalogued, as it was catalogued last,
\* unless it hosted the name when delete_db removed its metadata root; that
\* never is with one process and one request at a time.
OnlyCatalogued ==
  \A n \in Nodes : dbs[n] # None =>
    /\ dbs[n].left \/ meta
    /\ deploy.serial /\ ~deploy.ha => ~dbs[n].left

\* For requests one at a time, none cut short, and polls and expiries at any
\* time, a catalogued database that no delete is removing holds what it should
\* (Holds), until a node that a delete left hosting appends to it, or a node
\* that opened it while the manifest of a losing encrypted create was in place;
\* without a poller neither can be.  Whatever overlaps or is cut short, what is
\* served is catalogued as in OnlyCatalogued.  The states are well typed.
\* (create_db, fork_db, delete_db, standby_scan.)
CatalogHolds ==
  /\ TypeOK
  /\ OnlyCatalogued
  /\ deploy.serial /\ ~deploy.cut /\ ~BeingDeleted => Holds \/ (deploy.ha /\ (stray \/ misled))

\* Whatever request a crash cuts short and whenever polls come, no database
\* catalogued by an encrypted create or fork has a record of its own in the
\* clear, for requests one at a time and unless a node that a delete left
\* hosting appends to it.  (create_db: the manifest is written before the
\* catalogue entry.)
EncryptedSealed ==
  deploy.serial /\ ~stray /\ content # None /\ content.enc
    => \A r \in log : r.life = life => r.key # None

\* Whatever request a crash cuts short and whenever polls come, a catalogued
\* fork has its source's whole prefix, for requests one at a time and unless a
\* node that a delete left hosting appends to it.  (fork_db: "a crash mid-fork
\* never catalogs a target without its log".)
ForkWhole ==
  deploy.serial /\ ~stray /\ content # None /\ content.forked =>
    \A i \in DOMAIN Source : {r.id : r \in {a \in Visible : a.t = i}} = {Source[i]}

\* A catalogued database is hosted in the end, after crashes between requests
\* and expiries, for requests one at a time and unless one of the two kinds of
\* host that CatalogHolds names has appended to it.  (The host may be one that
\* a delete of the name left.)
Served ==
  deploy.serial /\ ~deploy.cut =>
    (content # None ~> (content = None \/ stray \/ misled \/ \E n \in Nodes : dbs[n] # None))

\* With requests that overlap too, the log of a catalogued database that no
\* delete is removing has every transaction acknowledged in it.
SharedAcked ==
  content # None /\ ~BeingDeleted => \A i \in DOMAIN content.ids : \E r \in Visible : r.id = content.ids[i]

\* A database that is not catalogued has no lease and no host once its delete,
\* not cut short, has answered.  (delete_db: "unhosts it, releases its lease, and removes its
\* roots and log".)
DeletedGone ==
  deploy.serial /\ ~deploy.cut /\ ~BeingDeleted /\ content = None =>
    root = None /\ \A n \in Nodes : dbs[n] = None

\* No record of a database created without a key is sealed.  (create_db: "a
\* database created without one stays unencrypted".)
ClearStays ==
  deploy.serial /\ ~stray /\ content # None /\ ~content.enc
    => \A r \in log : r.life = life => r.key = None
=============================================================================
