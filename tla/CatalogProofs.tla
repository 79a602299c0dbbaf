---------------------------- MODULE CatalogProofs ----------------------------
(***************************************************************************)
(* Proofs about Catalog, for any nodes, clients, source and bounds.        *)
(***************************************************************************)
EXTENDS Catalog, TLAPS

(* Leaves are for Zenon unless they say otherwise. *)
USE ZenonT(60)

-----------------------------------------------------------------------------
(* The inductive invariant *)

Making == [op : {"create", "fork"}, node : Nodes, enc : BOOLEAN, key : Nat \cup {None}, at : Nat,
           pc : {"keys", "log", "meta", "open", "undolog", "undokeys"}]
Deleting == [op : {"delete"}, node : Nodes, pc : {"droproot", "dropmeta", "dropkeys", "droplog"}]

Leases == [owner : Nodes, version : Nat]
HostFields == {"v", "t", "key", "left"}
ContentFields == {"ids", "forked", "enc"}

(* The counters, and the records whose fields the steps read or replace. *)
JobsTyped == job \in [Clients -> {Idle} \cup Making \cup Deleting]
RootTyped == root = None \/ root \in Leases
Hosting ==
  /\ dbs = [n \in Nodes |-> dbs[n]]
  /\ \A n \in Nodes : dbs[n] # None => DOMAIN dbs[n] = HostFields
Filled == content # None => DOMAIN content = ContentFields

(* No record is of a life to come. *)
Lives == (\A r \in log : r.life \in Nat /\ r.life <= life) /\ (content # None => life # 0)

(* A database has a metadata root as long as it is catalogued, and what a  *)
(* node serves is what was catalogued last, or was left by a delete.       *)
Listed ==
  /\ content # None => meta
  /\ \A n \in Nodes : dbs[n] # None => dbs[n].left \/ meta

Kept == RootTyped /\ Hosting /\ Filled /\ Lives /\ Listed /\ life \in Nat
Shapes == deploy \in Deployments /\ minted \in Nat /\ JobsTyped /\ Kept

(* Requests are one at a time. *)
OneAtATime == \A c, d \in Clients : job[c].op # None /\ job[d].op # None => c = d

(* The catalogued database is an encrypted one. *)
Encrypted == content # None /\ content.enc

(***************************************************************************)
(* What a request under way relies on: one that minted a key finds it in   *)
(* the manifest, and the keys are not those of an encrypted database; a    *)
(* delete drops the keys of no catalogued one.                             *)
(***************************************************************************)
Safe(c) ==
  /\ At(c, "log") \/ At(c, "meta") \/ At(c, "undolog") =>
       (job[c].enc => keys # None /\ ~Encrypted)
  /\ At(c, "undokeys") => ~Encrypted
  /\ At(c, "dropkeys") \/ At(c, "droplog") => content = None
UnderWay == \A c \in Clients : Safe(c)

(* An encrypted database has a manifest, whoever hosts it has a key unless *)
(* a delete left it, and until such a node appends its records are sealed. *)
Sealed ==
  Encrypted =>
    /\ keys # None
    /\ \A n \in Nodes : dbs[n] # None => dbs[n].left \/ dbs[n].key # None
    /\ stray \/ \A r \in log : r.life = life => r.key # None

Orderly == OneAtATime /\ UnderWay /\ Sealed

CInv == Shapes /\ (deploy.serial => Orderly)

(***************************************************************************)
(* One process: it hosts nothing while a request that may change the       *)
(* catalogue is under way, and no delete leaves it hosting.                *)
(***************************************************************************)
Busy(c) == job[c].op # None
Single ==
  deploy.serial /\ ~deploy.ha =>
    /\ down \subseteq deploy.nodes
    /\ \A n \in Nodes : dbs[n] # None => n \in deploy.nodes /\ ~dbs[n].left
    /\ \A c \in Clients : Busy(c) =>
         /\ job[c].node \in deploy.nodes
         /\ down = {} /\ \A n \in Nodes : dbs[n] = None

-----------------------------------------------------------------------------
(* Requests *)

MakingPcs == {"keys", "log", "meta", "open", "undolog", "undokeys"}
DeletingPcs == {"droproot", "dropmeta", "dropkeys", "droplog"}

(* Where a request is tells which one it is. *)
LEMMA Kind ==
  ASSUME JobsTyped, NEW c \in Clients, NEW q, At(c, q)
  PROVE  /\ q \in MakingPcs => job[c] \in Making
         /\ q \in DeletingPcs => job[c] \in Deleting
  <1>5. job[c] \in {Idle} \cup Making \cup Deleting BY DEF JobsTyped
  <1>6. Idle.op = None BY DEF Idle
  <1>1. job[c] \in Making \cup Deleting BY <1>5, <1>6 DEF At
  <1>2. job[c] \in Making => job[c].pc \in MakingPcs BY DEF Making, MakingPcs
  <1>3. job[c] \in Deleting => job[c].pc \in DeletingPcs BY DEF Deleting, DeletingPcs
  <1>4. \A x \in MakingPcs : x \notin DeletingPcs BY SMTT(60) DEF MakingPcs, DeletingPcs
  <1> QED BY <1>1, <1>2, <1>3, <1>4 DEF At

(* Goto moves the one request. *)
LEMMA Goes ==
  ASSUME JobsTyped, NEW c \in Clients, NEW p, Goto(c, p),
         \/ job[c] \in Making /\ p \in MakingPcs
         \/ job[c] \in Deleting /\ p \in DeletingPcs
  PROVE  /\ JobsTyped'
         /\ \A d \in Clients : d # c => job'[d] = job[d]
         /\ job'[c].op = job[c].op /\ job'[c].pc = p /\ job'[c].node = job[c].node
         /\ job[c] \in Making => job'[c].enc = job[c].enc
  <1> DEFINE j == [job[c] EXCEPT !.pc = p]
  <1>1. job' = [job EXCEPT ![c] = j] BY DEF Goto
  <1>2. /\ job[c] \in Making /\ p \in MakingPcs => j \in Making
        /\ job[c] \in Making => j.enc = job[c].enc
        /\ job[c] \in Deleting /\ p \in DeletingPcs => j \in Deleting
        /\ job[c] \in Making \cup Deleting => j.pc = p /\ j.op = job[c].op /\ j.node = job[c].node
    BY SMTT(60) DEF Making, Deleting, MakingPcs, DeletingPcs
  <1> HIDE DEF j
  <1>3. \A d \in Clients : job'[d] = IF d = c THEN j ELSE job[d] BY <1>1 DEF JobsTyped
  <1>4. JobsTyped' BY <1>1, <1>2 DEF JobsTyped
  <1> QED BY <1>2, <1>3, <1>4

(* Done ends it. *)
LEMMA Stops ==
  ASSUME JobsTyped, NEW c \in Clients, Done(c)
  PROVE  /\ JobsTyped'
         /\ \A d \in Clients : d # c => job'[d] = job[d]
         /\ job'[c].op = None
  <1>1. \A d \in Clients : job'[d] = IF d = c THEN Idle ELSE job[d] BY DEF JobsTyped, Done
  <1>2. JobsTyped' BY DEF JobsTyped, Done
  <1>3. Idle.op = None BY DEF Idle
  <1> QED BY <1>1, <1>2, <1>3

(* A step of a request leaves it the only one. *)
LEMMA Alone ==
  ASSUME OneAtATime, NEW c \in Clients, job[c].op # None,
         \A d \in Clients : d # c => job'[d] = job[d]
  PROVE  OneAtATime' /\ \A d \in Clients : d # c => Safe(d)'
  <1>1. \A d \in Clients : d # c => job'[d].op = None BY DEF OneAtATime
  <1>2. OneAtATime' BY <1>1 DEF OneAtATime
  <1>3. ASSUME NEW d \in Clients, d # c PROVE Safe(d)' BY <1>1, <1>3 DEF Safe, At
  <1> QED BY <1>2, <1>3

LEMMA OnlySafe ==
  ASSUME OneAtATime, NEW c \in Clients, job[c].op # None,
         \A d \in Clients : d # c => job'[d] = job[d],
         Safe(c)'
  PROVE  OneAtATime' /\ UnderWay'
  BY Alone DEF UnderWay

(* A client without a request is at no step of one. *)
LEMMA IdleSafe == ASSUME NEW c \in Clients, job'[c].op = None PROVE Safe(c)'
  BY DEF Safe, At

(* A new request, where they are one at a time. *)
LEMMA Asks ==
  ASSUME JobsTyped, NEW c \in Clients, NEW n \in Nodes, NEW j, Request(c, n, j),
         j \in Making \cup Deleting
  PROVE  /\ JobsTyped' /\ job'[c] = j
         /\ deploy.serial => OneAtATime' /\ \A d \in Clients : d # c => Safe(d)'
  <1>1. \A d \in Clients : job'[d] = IF d = c THEN j ELSE job[d] BY DEF JobsTyped, Request
  <1>2. JobsTyped' BY DEF JobsTyped, Request
  <1>3. deploy.serial => \A d \in Clients : d # c => job'[d].op = None BY <1>1 DEF Request
  <1>4. deploy.serial => OneAtATime' BY <1>3 DEF OneAtATime
  <1>5. ASSUME NEW d \in Clients, d # c, deploy.serial PROVE Safe(d)' BY <1>3, <1>5, IdleSafe
  <1> QED BY <1>1, <1>2, <1>4, <1>5

-----------------------------------------------------------------------------
(* Create and fork *)

(* What no request step of the catalogue touches stays as it was. *)
Stored == UNCHANGED <<meta, root, keys, log, dbs, content, life, stray>>

LEMMA StoredStep ==
  ASSUME CInv, Stored
  PROVE  /\ Kept'
         /\ deploy.serial => Sealed' /\ (Encrypted' <=> Encrypted)
  <1>1. Kept'
    BY DEF CInv, Shapes, Kept, Stored, RootTyped, Hosting, Filled, Lives, Listed
  <1>2. Encrypted' <=> Encrypted BY DEF Stored, Encrypted
  <1>5. Sealed => Sealed' BY <1>2 DEF Stored, Sealed
  <1> QED BY <1>1, <1>2, <1>5 DEF CInv, Orderly

LEMMA CreateDbStep ==
  ASSUME CInv, NEW c \in Clients, NEW n \in Nodes, NEW enc \in BOOLEAN, create_db(c, n, enc)
  PROVE  CInv'
  <1> DEFINE j == [op |-> "create", node |-> n, enc |-> enc, key |-> None, at |-> 1,
                   pc |-> IF enc THEN "keys" ELSE "meta"]
  <1>1. Request(c, n, j) /\ Stored /\ minted' = minted /\ deploy' = deploy
    BY DEF create_db, Stored
  <1>2. j \in Making BY SMTT(60) DEF Making
  <1>3. j.enc = enc /\ j.pc = IF enc THEN "keys" ELSE "meta" OBVIOUS
  <1> HIDE DEF j
  <1>4. JobsTyped BY DEF CInv, Shapes
  <1>5. /\ JobsTyped' /\ job'[c] = j
        /\ deploy.serial => OneAtATime' /\ \A d \in Clients : d # c => Safe(d)'
    BY <1>1, <1>2, <1>4, Asks
  <1>6. Safe(c)' BY <1>3, <1>5 DEF Safe, At
  <1>7. deploy.serial => UnderWay' BY <1>5, <1>6 DEF UnderWay
  <1>8. Shapes' BY <1>1, <1>5, StoredStep DEF CInv, Shapes
  <1> QED BY <1>1, <1>5, <1>7, <1>8, StoredStep DEF CInv, Orderly

LEMMA ForkDbStep ==
  ASSUME CInv, NEW c \in Clients, NEW n \in Nodes, fork_db(c, n)
  PROVE  CInv'
  <1> DEFINE j == [op |-> "fork", node |-> n, enc |-> deploy.sealed, key |-> None, at |-> 1,
                   pc |-> IF deploy.sealed THEN "keys" ELSE "log"]
  <1>1. Request(c, n, j) /\ Stored /\ minted' = minted /\ deploy' = deploy
    BY DEF fork_db, Stored
  <1>a. deploy.sealed \in BOOLEAN BY CatalogAssumption DEF CInv, Shapes
  <1>2. j \in Making BY <1>a, SMTT(60) DEF Making
  <1>3. j.enc = deploy.sealed /\ j.pc = IF deploy.sealed THEN "keys" ELSE "log" OBVIOUS
  <1> HIDE DEF j
  <1>4. JobsTyped BY DEF CInv, Shapes
  <1>5. /\ JobsTyped' /\ job'[c] = j
        /\ deploy.serial => OneAtATime' /\ \A d \in Clients : d # c => Safe(d)'
    BY <1>1, <1>2, <1>4, Asks
  <1>6. Safe(c)' BY <1>3, <1>5 DEF Safe, At
  <1>7. deploy.serial => UnderWay' BY <1>5, <1>6 DEF UnderWay
  <1>8. Shapes' BY <1>1, <1>5, StoredStep DEF CInv, Shapes
  <1> QED BY <1>1, <1>5, <1>7, <1>8, StoredStep DEF CInv, Orderly

(* A request that goes on, ends or fails in a serial deployment, by what   *)
(* it leaves of the rest.                                                  *)
LEMMA StepGoes ==
  ASSUME CInv, NEW c \in Clients, job[c].op # None, deploy' = deploy,
         JobsTyped', Kept', minted' \in Nat,
         \A d \in Clients : d # c => job'[d] = job[d],
         deploy.serial => Safe(c)' /\ Sealed'
  PROVE  CInv'
  <1>1. Shapes' BY DEF CInv, Shapes
  <1>2. ASSUME deploy.serial PROVE Orderly'
    <2>1. OneAtATime BY <1>2 DEF CInv, Orderly
    <2>2. OneAtATime' /\ UnderWay' BY <1>2, <2>1, OnlySafe
    <2> QED BY <1>2, <2>2 DEF Orderly
  <1> QED BY <1>1, <1>2 DEF CInv

(* The step that mints a key notes it in the request. *)
LEMMA Noted ==
  ASSUME NEW r \in Making, NEW q \in MakingPcs, NEW k \in Nat
  PROVE  LET j == [r EXCEPT !.pc = q, !.key = k]
         IN  j \in Making /\ j.pc = q /\ j.node = r.node
  <1> DEFINE s == [r EXCEPT !.pc = q]
             j == [s EXCEPT !.key = k]
  <1>1. s \in Making /\ s.pc = q /\ s.node = r.node BY SMTT(60) DEF Making, MakingPcs
  <1> HIDE DEF s
  <1>2. j \in Making /\ j.pc = s.pc /\ j.node = s.node BY <1>1, SMTT(60) DEF Making
  <1> QED BY <1>1, <1>2 DEF s

LEMMA KeyManifestStep ==
  ASSUME CInv, NEW c \in Clients, create_key_manifest(c)
  PROVE  CInv'
  <1>1. JobsTyped /\ minted \in Nat BY DEF CInv, Shapes
  <1>2. "keys" \in MakingPcs BY DEF MakingPcs
  <1>3. At(c, "keys") BY DEF create_key_manifest
  <1>4. job[c] \in Making BY <1>1, <1>2, <1>3, Kind
  <1>5. minted' \in Nat /\ minted' # None
    <2>1. minted' = minted + 1 BY DEF create_key_manifest
    <2>2. minted + 1 \in Nat BY <1>1, SMTT(60)
    <2> QED BY <2>1, <2>2, CatalogAssumption
  <1>6. UNCHANGED <<deploy, meta, root, log, dbs, content, life, stray>>
    BY DEF create_key_manifest
  <1>7. job[c].op # None BY <1>3 DEF At
  <1>8. CASE keys = None
    <2> DEFINE q == IF job[c].op = "fork" THEN "log" ELSE "meta"
               j == [job[c] EXCEPT !.pc = q, !.key = minted']
    <2>1. keys' = minted' /\ job' = [job EXCEPT ![c] = j] BY <1>8 DEF create_key_manifest
    <2>3. q = "log" \/ q = "meta" OBVIOUS
    <2> HIDE DEF q
    <2>4. q \in MakingPcs BY <2>3 DEF MakingPcs
    <2>2. j \in Making /\ j.pc = q BY <1>4, <1>5, <2>4, Noted
    <2> HIDE DEF j
    <2>5. \A d \in Clients : job'[d] = IF d = c THEN j ELSE job[d] BY <1>1, <2>1 DEF JobsTyped
    <2>6. JobsTyped' BY <1>1, <2>1, <2>2 DEF JobsTyped
    <2>7. Kept'
      BY <1>6 DEF CInv, Shapes, Kept, RootTyped, Hosting, Filled, Lives, Listed
    <2>8. ASSUME deploy.serial PROVE Safe(c)' /\ Sealed'
      <3>1. ~Encrypted BY <1>8, <2>8 DEF CInv, Orderly, Sealed
      <3>2. ~Encrypted' BY <1>6, <3>1 DEF Encrypted
      <3>3. Sealed' BY <3>2 DEF Sealed
      <3>5. Safe(c)' BY <1>5, <2>1, <2>2, <2>3, <2>5, <3>2 DEF Safe, At
      <3> QED BY <3>3, <3>5
    <2> QED BY <1>5, <1>6, <1>7, <2>5, <2>6, <2>7, <2>8, StepGoes
  <1>9. CASE keys # None
    <2>1. Done(c) /\ Stored BY <1>6, <1>9 DEF create_key_manifest, Stored
    <2>2. /\ JobsTyped' /\ job'[c].op = None
          /\ \A d \in Clients : d # c => job'[d] = job[d] BY <1>1, <2>1, Stops
    <2>3. Safe(c)' BY <2>2, IdleSafe
    <2> QED BY <1>5, <1>6, <1>7, <2>1, <2>2, <2>3, StoredStep, StepGoes
  <1> QED BY <1>8, <1>9

LEMMA CreateMetaStep ==
  ASSUME CInv, NEW c \in Clients, CreateMeta(c)
  PROVE  CInv'
  <1>1. JobsTyped /\ minted \in Nat /\ life \in Nat BY DEF CInv, Shapes, Kept
  <1>2. {"meta", "open", "undolog", "undokeys"} \subseteq MakingPcs BY DEF MakingPcs
  <1>3. At(c, "meta") /\ job[c].op # None BY DEF CreateMeta, At
  <1>4. job[c] \in Making BY <1>1, <1>2, <1>3, Kind
  <1>5. UNCHANGED <<deploy, root, keys, log, dbs, minted, stray>> BY DEF CreateMeta
  <1>6. deploy.serial => (job[c].enc => keys # None /\ ~Encrypted)
    BY <1>3 DEF CInv, Orderly, UnderWay, Safe
  <1>7. CASE ~meta
    <2>1. meta' = TRUE /\ life' = life + 1 /\ Goto(c, "open") BY <1>7 DEF CreateMeta
    <2>2. content' = [ids |-> IF job[c].op = "fork" THEN Source ELSE <<>>,
                      forked |-> job[c].op = "fork", enc |-> job[c].enc]
      BY <1>7 DEF CreateMeta
    <2>3. content'.enc = job[c].enc /\ DOMAIN content' = ContentFields
      BY <2>2, SMTT(60) DEF ContentFields
    <2>4. life' \in Nat /\ life' # 0 /\ \A x \in Nat : x <= life => x <= life' /\ x # life'
      BY <1>1, <2>1, SMTT(60)
    <2>5. /\ JobsTyped' /\ job'[c].pc = "open"
          /\ \A d \in Clients : d # c => job'[d] = job[d]
      BY <1>1, <1>2, <1>4, <2>1, Goes
    <2>6. \A r \in log : r.life \in Nat /\ r.life <= life' /\ r.life # life'
      BY <2>4 DEF CInv, Shapes, Kept, Lives
    <2>7. RootTyped' /\ Hosting' BY <1>5 DEF CInv, Shapes, Kept, RootTyped, Hosting
    <2>10. Filled' /\ Lives' BY <1>5, <2>3, <2>4, <2>6 DEF Filled, Lives
    <2>11. \A n \in Nodes : dbs[n] # None => dbs[n].left
      BY <1>7 DEF CInv, Shapes, Kept, Listed
    <2>12. Listed' BY <1>5, <2>1, <2>11 DEF Listed
    <2>8. Kept' BY <2>4, <2>7, <2>10, <2>12 DEF Kept
    <2>9. ASSUME deploy.serial PROVE Safe(c)' /\ Sealed'
      <3>3. Sealed' BY <1>5, <1>6, <2>3, <2>6, <2>9, <2>11 DEF Sealed, Encrypted
      <3>4. Safe(c)' BY <2>5 DEF Safe, At
      <3> QED BY <3>3, <3>4
    <2> QED BY <1>1, <1>3, <1>5, <2>5, <2>8, <2>9, StepGoes
  <1>8. CASE meta
    <2>1. Stored BY <1>5, <1>8 DEF CreateMeta, Stored
    <2>2. \/ Goto(c, "undolog") \/ (job[c].enc /\ Goto(c, "undokeys")) \/ Done(c)
      <3>1. CASE job[c].op = "fork" BY <1>8, <3>1 DEF CreateMeta
      <3>2. CASE job[c].op # "fork" /\ job[c].op = "create" /\ job[c].enc
        BY <1>8, <3>2 DEF CreateMeta
      <3>3. CASE job[c].op # "fork" /\ ~(job[c].op = "create" /\ job[c].enc)
        BY <1>8, <3>3 DEF CreateMeta
      <3> QED BY <3>1, <3>2, <3>3
    <2>3. CASE Goto(c, "undolog")
      <3>1. /\ JobsTyped' /\ job'[c].pc = "undolog" /\ job'[c].enc = job[c].enc
            /\ \A d \in Clients : d # c => job'[d] = job[d]
        BY <1>1, <1>2, <1>4, <2>3, Goes
      <3>2. deploy.serial => Safe(c)'
        <4>1. keys' = keys BY <1>5
        <4> QED BY <1>6, <2>1, <3>1, <4>1, StoredStep DEF Safe, At
      <3> QED BY <1>1, <1>3, <1>5, <2>1, <3>1, <3>2, StoredStep, StepGoes
    <2>4. CASE job[c].enc /\ Goto(c, "undokeys")
      <3>1. /\ JobsTyped' /\ job'[c].pc = "undokeys"
            /\ \A d \in Clients : d # c => job'[d] = job[d]
        BY <1>1, <1>2, <1>4, <2>4, Goes
      <3>2. deploy.serial => Safe(c)' BY <1>6, <2>1, <2>4, <3>1, StoredStep DEF Safe, At
      <3> QED BY <1>1, <1>3, <1>5, <2>1, <3>1, <3>2, StoredStep, StepGoes
    <2>5. CASE Done(c)
      <3>1. /\ JobsTyped' /\ job'[c].op = None
            /\ \A d \in Clients : d # c => job'[d] = job[d] BY <1>1, <2>5, Stops
      <3>2. Safe(c)' BY <3>1, IdleSafe
      <3> QED BY <1>1, <1>3, <1>5, <2>1, <3>1, <3>2, StoredStep, StepGoes
    <2> QED BY <2>2, <2>3, <2>4, <2>5
  <1> QED BY <1>7, <1>8

(* A step that takes keys or records of no encrypted database, or leaves   *)
(* them, unseals nothing.                                                  *)
LEMMA Emptied ==
  ASSUME CInv, UNCHANGED <<meta, root, dbs, content, life, stray>>, log' \subseteq log,
         deploy.serial => keys' = keys \/ ~Encrypted
  PROVE  /\ Kept'
         /\ deploy.serial => Sealed' /\ (Encrypted' <=> Encrypted)
  <1>1. Kept'
    BY DEF CInv, Shapes, Kept, RootTyped, Hosting, Filled, Lives, Listed
  <1>2. Encrypted' <=> Encrypted BY DEF Encrypted
  <1>5. Sealed /\ deploy.serial => Sealed' BY <1>2 DEF Sealed
  <1> QED BY <1>1, <1>2, <1>5 DEF CInv, Orderly

LEMMA UndoLogStep ==
  ASSUME CInv, NEW c \in Clients, UndoLog(c)
  PROVE  CInv'
  <1>1. JobsTyped /\ minted \in Nat BY DEF CInv, Shapes
  <1>2. {"undolog", "undokeys"} \subseteq MakingPcs BY DEF MakingPcs
  <1>3. At(c, "undolog") /\ job[c].op # None BY DEF UndoLog, At
  <1>4. job[c] \in Making BY <1>1, <1>2, <1>3, Kind
  <1>5. /\ UNCHANGED <<meta, root, dbs, content, life, stray>> /\ log' \subseteq log /\ keys' = keys
        /\ minted' = minted /\ deploy' = deploy
    BY DEF UndoLog, counts
  <1>6. /\ Kept'
        /\ deploy.serial => Sealed' /\ (Encrypted' <=> Encrypted)
    BY <1>5, Emptied
  <1>7. CASE job[c].enc
    <2>1. /\ JobsTyped' /\ job'[c].pc = "undokeys"
          /\ \A d \in Clients : d # c => job'[d] = job[d]
      BY <1>1, <1>2, <1>4, <1>7, Goes DEF UndoLog
    <2>2. deploy.serial => ~Encrypted BY <1>3, <1>7 DEF CInv, Orderly, UnderWay, Safe
    <2>3. deploy.serial => Safe(c)' BY <1>6, <2>1, <2>2 DEF Safe, At
    <2> QED BY <1>1, <1>3, <1>5, <1>6, <2>1, <2>3, StepGoes
  <1>8. CASE ~job[c].enc
    <2>1. /\ JobsTyped' /\ job'[c].op = None
          /\ \A d \in Clients : d # c => job'[d] = job[d] BY <1>1, <1>8, Stops DEF UndoLog
    <2>2. Safe(c)' BY <2>1, IdleSafe
    <2> QED BY <1>1, <1>3, <1>5, <1>6, <2>1, <2>2, StepGoes
  <1> QED BY <1>7, <1>8

LEMMA UndoKeysStep ==
  ASSUME CInv, NEW c \in Clients, UndoKeys(c)
  PROVE  CInv'
  <1>1. JobsTyped /\ minted \in Nat BY DEF CInv, Shapes
  <1>2. At(c, "undokeys") /\ job[c].op # None BY DEF UndoKeys, At
  <1>3. /\ UNCHANGED <<meta, root, dbs, content, life, stray>> /\ log' = log
        /\ minted' = minted /\ deploy' = deploy /\ Done(c)
    BY DEF UndoKeys, counts
  <1>4. deploy.serial => ~Encrypted BY <1>2 DEF CInv, Orderly, UnderWay, Safe
  <1>5. /\ Kept'
        /\ deploy.serial => Sealed'
    BY <1>3, <1>4, Emptied
  <1>6. /\ JobsTyped' /\ job'[c].op = None
        /\ \A d \in Clients : d # c => job'[d] = job[d] BY <1>1, <1>3, Stops
  <1>7. Safe(c)' BY <1>6, IdleSafe
  <1> QED BY <1>1, <1>2, <1>3, <1>5, <1>6, <1>7, StepGoes

(* The next record of the prefix moves the request on. *)
LEMMA Advanced ==
  ASSUME NEW r \in Making, NEW q \in MakingPcs
  PROVE  LET j == [r EXCEPT !.at = @ + 1, !.pc = q]
         IN  j \in Making /\ j.pc = q /\ j.enc = r.enc /\ j.node = r.node
  <1> DEFINE s == [r EXCEPT !.at = r.at + 1]
             j == [s EXCEPT !.pc = q]
  <1>1. s \in Making /\ s.enc = r.enc /\ s.node = r.node BY SMTT(60) DEF Making
  <1> HIDE DEF s
  <1>2. j \in Making /\ j.pc = q /\ j.enc = s.enc /\ j.node = s.node
    BY <1>1, SMTT(60) DEF Making, MakingPcs
  <1> QED BY <1>1, <1>2 DEF s

LEMMA ForkAppendStep ==
  ASSUME CInv, NEW c \in Clients, ForkAppend(c)
  PROVE  CInv'
  <1>1. JobsTyped /\ minted \in Nat /\ life \in Nat BY DEF CInv, Shapes, Kept
  <1>2. {"log", "meta"} \subseteq MakingPcs BY DEF MakingPcs
  <1>3. At(c, "log") /\ job[c].op # None BY DEF ForkAppend, At
  <1>4. job[c] \in Making BY <1>1, <1>2, <1>3, Kind
  <1>5. UNCHANGED <<deploy, meta, root, keys, dbs, content, life, stray, minted>>
    BY DEF ForkAppend, counts
  <1>6. CASE \E r \in Visible : r.t >= job[c].at
    <2>1. Done(c) /\ Stored BY <1>5, <1>6 DEF ForkAppend, Stored
    <2>2. /\ JobsTyped' /\ job'[c].op = None
          /\ \A d \in Clients : d # c => job'[d] = job[d] BY <1>1, <2>1, Stops
    <2>3. Safe(c)' BY <2>2, IdleSafe
    <2> QED BY <1>1, <1>3, <1>5, <2>1, <2>2, <2>3, StoredStep, StepGoes
  <1>7. CASE ~\E r \in Visible : r.t >= job[c].at
    <2> DEFINE q == IF job[c].at = Len(Source) THEN "meta" ELSE "log"
               j == [job[c] EXCEPT !.at = @ + 1, !.pc = q]
               new == Record(0, job[c].at, Source[job[c].at], job[c].key, 0)
    <2>1. log' = log \cup {new} /\ job' = [job EXCEPT ![c] = j] BY <1>7 DEF ForkAppend
    <2>2. q = "log" \/ q = "meta" OBVIOUS
    <2>3. new.life = 0 BY DEF Record
    <2> HIDE DEF q, new
    <2>4. q \in MakingPcs BY <1>2, <2>2
    <2>5. j \in Making /\ j.pc = q /\ j.enc = job[c].enc BY <1>4, <2>4, Advanced
    <2> HIDE DEF j
    <2>6. \A d \in Clients : job'[d] = IF d = c THEN j ELSE job[d] BY <1>1, <2>1 DEF JobsTyped
    <2>7. JobsTyped' BY <1>1, <2>1, <2>5 DEF JobsTyped
    <2>8. RootTyped' /\ Hosting' /\ Filled' /\ Listed'
      BY <1>5 DEF CInv, Shapes, Kept, RootTyped, Hosting, Filled, Listed
    <2>9. 0 \in Nat /\ 0 <= life BY <1>1, SMTT(60)
    <2>10. Lives' BY <1>5, <2>1, <2>3, <2>9 DEF CInv, Shapes, Kept, Lives
    <2>12. Kept' BY <1>1, <1>5, <2>8, <2>10 DEF Kept
    <2>11. ASSUME deploy.serial PROVE Safe(c)' /\ Sealed'
      <3>1. Encrypted' <=> Encrypted BY <1>5 DEF Encrypted
      <3>3. Encrypted => life # 0 BY DEF CInv, Shapes, Kept, Lives, Encrypted
      <3>4. Sealed BY <2>11 DEF CInv, Orderly
      <3>5. Sealed' BY <1>5, <2>1, <2>3, <3>1, <3>3, <3>4 DEF Sealed
      <3>6. job[c].enc => keys # None /\ ~Encrypted
        BY <1>3, <2>11 DEF CInv, Orderly, UnderWay, Safe
      <3>7. Safe(c)' BY <1>5, <2>2, <2>5, <2>6, <3>1, <3>6 DEF Safe, At
      <3> QED BY <3>5, <3>7
    <2> QED BY <1>1, <1>3, <1>5, <2>6, <2>7, <2>11, <2>12, StepGoes
  <1> QED BY <1>6, <1>7

-----------------------------------------------------------------------------
(* Opening *)

(* What is neither a request nor one of its steps leaves each under way,   *)
(* or ends it.                                                             *)
LEMMA Onward ==
  ASSUME CInv, deploy.serial,
         \A c \in Clients : job'[c] = job[c] \/ job'[c] = Idle,
         keys' = keys, Encrypted' => Encrypted, content = None => content' = None
  PROVE  OneAtATime' /\ UnderWay'
  <1>1. OneAtATime /\ UnderWay BY DEF CInv, Orderly
  <1>2. Idle.op = None BY DEF Idle
  <1>3. OneAtATime' BY <1>1, <1>2 DEF OneAtATime
  <1>4. ASSUME NEW c \in Clients PROVE Safe(c)'
    <2>1. CASE job'[c] = Idle BY <1>2, <2>1, IdleSafe
    <2>2. CASE job'[c] = job[c]
      <3>1. Safe(c) BY <1>1 DEF UnderWay
      <3> QED BY <2>2, <3>1 DEF Safe, At
    <2> QED BY <2>1, <2>2
  <1> QED BY <1>3, <1>4 DEF UnderWay

(***************************************************************************)
(* open_db takes the lease, whether or not its owner still hosts, and      *)
(* hosts what the metadata root lists with the key of the manifest.        *)
(***************************************************************************)
LEMMA Hosts ==
  ASSUME Kept, NEW n \in Nodes, open_db(n)
  PROVE  /\ RootTyped' /\ Hosting' /\ meta
         /\ \A m \in Nodes :
              \/ dbs'[m] = dbs[m]
              \/ m = n /\ dbs'[m].key = keys /\ ~dbs'[m].left
  <1> DEFINE v == IF root = None THEN 1 ELSE IF root.owner = n THEN root.version
                                                            ELSE root.version + 1
             s == [v |-> v, t |-> Basis, key |-> keys, left |-> FALSE]
  <1>1. /\ meta /\ root' = [owner |-> n, version |-> v]
        /\ dbs' = dbs \/ dbs' = [dbs EXCEPT ![n] = s]
    BY DEF open_db
  <1>2. v \in Nat
    <2>1. RootTyped BY DEF Kept
    <2>2. root \in Leases => root.version \in Nat BY DEF Leases
    <2>3. root.version \in Nat => v \in Nat BY SMTT(60)
    <2>4. root = None => v \in Nat BY SMTT(60)
    <2> HIDE DEF v
    <2> QED BY <2>1, <2>2, <2>3, <2>4 DEF RootTyped
  <1>3. DOMAIN s = HostFields /\ s.key = keys /\ ~s.left BY SMTT(60) DEF HostFields
  <1> HIDE DEF v, s
  <1>4. RootTyped' BY <1>1, <1>2 DEF RootTyped, Leases
  <1>5. Hosting BY DEF Kept
  <1>6. \A m \in Nodes : dbs'[m] = dbs[m] \/ (m = n /\ dbs'[m] = s) BY <1>1, <1>5 DEF Hosting
  <1>7. dbs' = [m \in Nodes |-> dbs'[m]] BY <1>1, <1>5 DEF Hosting
  <1>8. Hosting' BY <1>3, <1>5, <1>6, <1>7 DEF Hosting
  <1> QED BY <1>1, <1>3, <1>4, <1>6, <1>8

LEMMA Opened ==
  ASSUME CInv, NEW n \in Nodes, open_db(n), UNCHANGED <<meta, keys, log, content, life, stray>>
  PROVE  Kept' /\ (deploy.serial => Sealed')
  <1>1. Kept BY DEF CInv, Shapes
  <1>2. /\ RootTyped' /\ Hosting' /\ meta
        /\ \A m \in Nodes :
             \/ dbs'[m] = dbs[m]
             \/ m = n /\ dbs'[m].key = keys /\ ~dbs'[m].left
    BY <1>1, Hosts
  <1>3. Filled' /\ Lives' /\ life' \in Nat BY <1>1 DEF Kept, Filled, Lives
  <1>4. Listed' BY <1>1, <1>2 DEF Kept, Listed
  <1>5. ASSUME deploy.serial PROVE Sealed'
    <2>1. Encrypted' <=> Encrypted BY DEF Encrypted
    <2>2. Sealed BY <1>5 DEF CInv, Orderly
    <2> QED BY <1>2, <2>1, <2>2 DEF Sealed
  <1> QED BY <1>2, <1>3, <1>4, <1>5 DEF Kept

(* A node that opens, or stands by. *)
LEMMA OpenedOrNot ==
  ASSUME CInv, NEW n \in Nodes, UNCHANGED <<meta, keys, log, content, life, stray>>,
         open_db(n) \/ UNCHANGED <<root, dbs>>
  PROVE  Kept' /\ (deploy.serial => Sealed')
  <1>1. CASE open_db(n) BY <1>1, Opened
  <1>2. CASE UNCHANGED <<root, dbs>>
    <2>1. Stored BY <1>2 DEF Stored
    <2> QED BY <2>1, StoredStep
  <1> QED BY <1>1, <1>2

LEMMA OpenNewStep ==
  ASSUME CInv, NEW c \in Clients, OpenNew(c)
  PROVE  CInv'
  <1>1. JobsTyped /\ minted \in Nat BY DEF CInv, Shapes
  <1>2. "open" \in MakingPcs BY DEF MakingPcs
  <1>3. At(c, "open") /\ job[c].op # None BY DEF OpenNew, At
  <1>4. job[c] \in Making BY <1>1, <1>2, <1>3, Kind
  <1>5. job[c].node \in Nodes BY <1>4 DEF Making
  <1>6. /\ open_db(job[c].node) \/ UNCHANGED <<root, dbs>>
        /\ Done(c) /\ UNCHANGED <<meta, keys, log, content, life, stray>>
        /\ deploy' = deploy /\ minted' = minted
    BY DEF OpenNew, counts
  <1>7. Kept' /\ (deploy.serial => Sealed') BY <1>5, <1>6, OpenedOrNot
  <1>8. /\ JobsTyped' /\ job'[c].op = None
        /\ \A d \in Clients : d # c => job'[d] = job[d] BY <1>1, <1>6, Stops
  <1>9. Safe(c)' BY <1>8, IdleSafe
  <1> QED BY <1>1, <1>3, <1>6, <1>7, <1>8, <1>9, StepGoes

(* Startup and the poll. *)
LEMMA PollStep ==
  ASSUME CInv, NEW n \in Nodes, Start(n) \/ standby_scan(n)
  PROVE  CInv'
  <1>1. /\ open_db(n) \/ UNCHANGED <<root, dbs>>
        /\ UNCHANGED <<meta, keys, log, content, life, stray>>
        /\ UNCHANGED <<deploy, job, minted>>
    BY DEF Start, standby_scan, counts
  <1>2. Kept' /\ (deploy.serial => Sealed') BY <1>1, OpenedOrNot
  <1>3. Shapes' BY <1>1, <1>2 DEF CInv, Shapes, JobsTyped
  <1>4. Encrypted' => Encrypted BY <1>1 DEF Encrypted
  <1>5. deploy.serial => OneAtATime' /\ UnderWay' BY <1>1, <1>4, Onward
  <1> QED BY <1>1, <1>2, <1>3, <1>5 DEF CInv, Orderly

(* A node that stops hosting. *)
LEMMA Unhosted ==
  ASSUME CInv, NEW n \in Nodes, dbs' = [dbs EXCEPT ![n] = None],
         UNCHANGED <<meta, root, keys, log, content, life, stray>>
  PROVE  Kept' /\ (deploy.serial => Sealed') /\ (Encrypted' => Encrypted)
  <1>1. Hosting /\ Listed BY DEF CInv, Shapes, Kept
  <1>2. \A m \in Nodes : dbs'[m] = IF m = n THEN None ELSE dbs[m] BY <1>1 DEF Hosting
  <1>3. dbs' = [m \in Nodes |-> dbs'[m]] BY <1>1 DEF Hosting
  <1>4. Hosting' BY <1>1, <1>2, <1>3 DEF Hosting
  <1>5. RootTyped' /\ Filled' /\ Lives' /\ life' \in Nat
    BY DEF CInv, Shapes, Kept, RootTyped, Filled, Lives
  <1>6. Listed' BY <1>1, <1>2 DEF Listed
  <1>7. Encrypted' => Encrypted BY DEF Encrypted
  <1>8. deploy.serial => Sealed' BY <1>2, <1>7 DEF CInv, Orderly, Sealed
  <1> QED BY <1>4, <1>5, <1>6, <1>7, <1>8 DEF Kept

LEMMA RenewLostStep ==
  ASSUME CInv, NEW n \in Nodes, RenewLost(n)
  PROVE  CInv'
  <1>1. /\ dbs' = [dbs EXCEPT ![n] = None]
        /\ UNCHANGED <<meta, root, keys, log, content, life, stray>>
        /\ UNCHANGED <<deploy, job, minted>>
    BY DEF RenewLost, Depose, counts
  <1>2. Kept' /\ (deploy.serial => Sealed') /\ (Encrypted' => Encrypted) BY <1>1, Unhosted
  <1>3. Shapes' BY <1>1, <1>2 DEF CInv, Shapes, JobsTyped
  <1>4. deploy.serial => OneAtATime' /\ UnderWay' BY <1>1, <1>2, Onward
  <1> QED BY <1>1, <1>2, <1>3, <1>4 DEF CInv, Orderly

-----------------------------------------------------------------------------
(* Delete *)

LEMMA DeleteDbStep ==
  ASSUME CInv, NEW c \in Clients, NEW n \in Nodes, delete_db(c, n)
  PROVE  CInv'
  <1> DEFINE j == [op |-> "delete", node |-> n, pc |-> "droproot"]
  <1>1. /\ Request(c, n, j) /\ dbs' = [dbs EXCEPT ![n] = None]
        /\ UNCHANGED <<meta, root, keys, log, content, life, stray>>
        /\ UNCHANGED <<deploy, minted>>
    BY DEF delete_db
  <1>2. j \in Deleting BY DEF Deleting
  <1>3. j.pc = "droproot" OBVIOUS
  <1> HIDE DEF j
  <1>4. JobsTyped BY DEF CInv, Shapes
  <1>5. /\ JobsTyped' /\ job'[c] = j
        /\ deploy.serial => OneAtATime' /\ \A d \in Clients : d # c => Safe(d)'
    BY <1>1, <1>2, <1>4, Asks
  <1>6. Kept' /\ (deploy.serial => Sealed') BY <1>1, Unhosted
  <1>7. Shapes' BY <1>1, <1>5, <1>6 DEF CInv, Shapes
  <1>8. Safe(c)' BY <1>3, <1>5 DEF Safe, At
  <1>9. deploy.serial => UnderWay' BY <1>5, <1>8 DEF UnderWay
  <1> QED BY <1>1, <1>5, <1>6, <1>7, <1>9 DEF CInv, Orderly

LEMMA DeleteRootStep ==
  ASSUME CInv, NEW c \in Clients, DeleteRoot(c)
  PROVE  CInv'
  <1>1. JobsTyped /\ minted \in Nat BY DEF CInv, Shapes
  <1>2. {"droproot", "dropmeta"} \subseteq DeletingPcs BY DEF DeletingPcs
  <1>3. At(c, "droproot") /\ job[c].op # None BY DEF DeleteRoot, At
  <1>4. job[c] \in Deleting BY <1>1, <1>2, <1>3, Kind
  <1>5. /\ root' = None /\ Goto(c, "dropmeta")
        /\ UNCHANGED <<deploy, meta, keys, log, dbs, content, life, stray, minted>>
    BY DEF DeleteRoot, counts
  <1>6. /\ JobsTyped' /\ job'[c].pc = "dropmeta"
        /\ \A d \in Clients : d # c => job'[d] = job[d]
    BY <1>1, <1>2, <1>4, <1>5, Goes
  <1>7. Kept' BY <1>5 DEF CInv, Shapes, Kept, RootTyped, Hosting, Filled, Lives, Listed
  <1>8. Safe(c)' BY <1>6 DEF Safe, At
  <1>9. deploy.serial => Sealed' BY <1>5 DEF CInv, Orderly, Sealed, Encrypted
  <1> QED BY <1>1, <1>3, <1>5, <1>6, <1>7, <1>8, <1>9, StepGoes

(* Whoever hosts when the metadata root goes is left. *)
LEMMA LeftBehind ==
  ASSUME Hosting, NEW c \in Clients, DeleteMeta(c)
  PROVE  Hosting' /\ \A n \in Nodes : dbs'[n] # None => dbs[n] # None /\ dbs'[n].left
  <1>1. dbs' = [n \in Nodes |-> IF dbs[n] = None THEN None ELSE [dbs[n] EXCEPT !.left = TRUE]]
    BY DEF DeleteMeta
  <1>2. ASSUME NEW r, DOMAIN r = HostFields
        PROVE  DOMAIN [r EXCEPT !.left = TRUE] = HostFields /\ [r EXCEPT !.left = TRUE].left
    BY <1>2, SMTT(60) DEF HostFields
  <1>3. ASSUME NEW n \in Nodes, dbs'[n] # None
        PROVE  dbs[n] # None /\ DOMAIN dbs'[n] = HostFields /\ dbs'[n].left
    <2>1. dbs[n] # None BY <1>1, <1>3
    <2>2. dbs'[n] = [dbs[n] EXCEPT !.left = TRUE] BY <1>1, <2>1
    <2>3. DOMAIN dbs[n] = HostFields BY <2>1 DEF Hosting
    <2> QED BY <1>2, <2>1, <2>2, <2>3
  <1>4. dbs' = [n \in Nodes |-> dbs'[n]] BY <1>1
  <1>5. Hosting' BY <1>3, <1>4 DEF Hosting
  <1> QED BY <1>3, <1>5

LEMMA DeleteMetaStep ==
  ASSUME CInv, NEW c \in Clients, DeleteMeta(c)
  PROVE  CInv'
  <1>1. JobsTyped /\ minted \in Nat /\ Kept BY DEF CInv, Shapes
  <1>2. {"dropmeta", "dropkeys"} \subseteq DeletingPcs BY DEF DeletingPcs
  <1>3. At(c, "dropmeta") /\ job[c].op # None BY DEF DeleteMeta, At
  <1>4. job[c] \in Deleting BY <1>1, <1>2, <1>3, Kind
  <1>5. /\ content' = None /\ Goto(c, "dropkeys")
        /\ UNCHANGED <<deploy, root, log, life, minted>>
    BY DEF DeleteMeta, counts
  <1>6. /\ JobsTyped' /\ job'[c].pc = "dropkeys"
        /\ \A d \in Clients : d # c => job'[d] = job[d]
    BY <1>1, <1>2, <1>4, <1>5, Goes
  <1>7. Hosting' /\ \A n \in Nodes : dbs'[n] # None => dbs'[n].left
    BY <1>1, LeftBehind DEF Kept
  <1>8. RootTyped' /\ Filled' /\ Lives' /\ life' \in Nat
    BY <1>1, <1>5 DEF Kept, RootTyped, Filled, Lives
  <1>9. Listed' BY <1>5, <1>7 DEF Listed
  <1>10. Kept' BY <1>7, <1>8, <1>9 DEF Kept
  <1>11. Safe(c)' BY <1>5, <1>6 DEF Safe, At
  <1>12. Sealed' BY <1>5 DEF Sealed, Encrypted
  <1> QED BY <1>1, <1>3, <1>5, <1>6, <1>10, <1>11, <1>12, StepGoes

LEMMA DeleteKeysStep ==
  ASSUME CInv, NEW c \in Clients, DeleteKeys(c)
  PROVE  CInv'
  <1>1. JobsTyped /\ minted \in Nat BY DEF CInv, Shapes
  <1>2. {"dropkeys", "droplog"} \subseteq DeletingPcs BY DEF DeletingPcs
  <1>3. At(c, "dropkeys") /\ job[c].op # None BY DEF DeleteKeys, At
  <1>4. job[c] \in Deleting BY <1>1, <1>2, <1>3, Kind
  <1>5. /\ UNCHANGED <<meta, root, dbs, content, life, stray>> /\ log' = log
        /\ minted' = minted /\ deploy' = deploy /\ Goto(c, "droplog")
    BY DEF DeleteKeys, counts
  <1>6. /\ JobsTyped' /\ job'[c].pc = "droplog"
        /\ \A d \in Clients : d # c => job'[d] = job[d]
    BY <1>1, <1>2, <1>4, <1>5, Goes
  <1>7. deploy.serial => content = None BY <1>3 DEF CInv, Orderly, UnderWay, Safe
  <1>8. deploy.serial => ~Encrypted BY <1>7 DEF Encrypted
  <1>9. /\ Kept'
        /\ deploy.serial => Sealed'
    BY <1>5, <1>8, Emptied
  <1>10. deploy.serial => Safe(c)' BY <1>5, <1>6, <1>7 DEF Safe, At
  <1> QED BY <1>1, <1>3, <1>5, <1>6, <1>9, <1>10, StepGoes

LEMMA DeleteLogStep ==
  ASSUME CInv, NEW c \in Clients, DeleteLog(c)
  PROVE  CInv'
  <1>1. JobsTyped /\ minted \in Nat BY DEF CInv, Shapes
  <1>2. job[c].op # None BY DEF DeleteLog, At
  <1>3. /\ UNCHANGED <<meta, root, dbs, content, life, stray>> /\ log' \subseteq log /\ keys' = keys
        /\ minted' = minted /\ deploy' = deploy /\ Done(c)
    BY DEF DeleteLog, counts
  <1>4. /\ Kept'
        /\ deploy.serial => Sealed'
    BY <1>3, Emptied
  <1>5. /\ JobsTyped' /\ job'[c].op = None
        /\ \A d \in Clients : d # c => job'[d] = job[d] BY <1>1, <1>3, Stops
  <1>6. Safe(c)' BY <1>5, IdleSafe
  <1> QED BY <1>1, <1>2, <1>3, <1>4, <1>5, <1>6, StepGoes

-----------------------------------------------------------------------------
(* Transactions and crashes *)

(* A commit appends with the host's key, and notes a host left by a delete. *)
LEMMA CommitStep ==
  ASSUME CInv, NEW n \in Nodes, Commit(n)
  PROVE  CInv'
  <1> DEFINE new == Record(dbs[n].v, dbs[n].t + 1, txs', dbs[n].key, life)
             up == [dbs[n] EXCEPT !.t = @ + 1]
             more == [content EXCEPT !.ids = Append(@, txs')]
  <1>1. /\ dbs[n] # None /\ log' = log \cup {new} /\ stray' = (stray \/ dbs[n].left)
        /\ UNCHANGED <<deploy, meta, root, keys, job, life, minted>>
    BY DEF Commit
  <1>2. \/ dbs' = [dbs EXCEPT ![n] = up] /\ content' = IF content = None THEN None ELSE more
        \/ dbs' = [dbs EXCEPT ![n] = None] /\ content' = content
    BY DEF Commit, Depose
  <1>3. new.key = dbs[n].key /\ new.life = life BY DEF Record
  <1>4. Hosting /\ Filled /\ Lives /\ Listed /\ life \in Nat BY DEF CInv, Shapes, Kept
  <1>5. DOMAIN up = HostFields /\ up.key = dbs[n].key /\ up.left = dbs[n].left
    <2>1. DOMAIN dbs[n] = HostFields BY <1>1, <1>4 DEF Hosting
    <2> QED BY <2>1, SMTT(60) DEF HostFields
  <1>6. content # None => DOMAIN more = ContentFields /\ more.enc = content.enc
    <2>1. content # None => DOMAIN content = ContentFields BY <1>4 DEF Filled
    <2> QED BY <2>1, SMTT(60) DEF ContentFields
  <1> HIDE DEF new, up, more
  <1>7. \A m \in Nodes : dbs'[m] = dbs[m] \/ (m = n /\ dbs'[m] \in {up, None})
    BY <1>2, <1>4 DEF Hosting
  <1>8. dbs' = [m \in Nodes |-> dbs'[m]] BY <1>2, <1>4 DEF Hosting
  <1>9. Hosting' BY <1>4, <1>5, <1>7, <1>8 DEF Hosting
  <1>10. /\ content = None => content' = None
         /\ content' # None => DOMAIN content' = ContentFields /\ content'.enc = content.enc
    BY <1>2, <1>4, <1>6 DEF Filled
  <1>11. life <= life BY <1>4, SMTT(60)
  <1>12. Filled' /\ Lives' BY <1>1, <1>3, <1>4, <1>10, <1>11 DEF Filled, Lives
  <1>13. Listed' BY <1>1, <1>4, <1>5, <1>7, <1>10 DEF Listed
  <1>14. RootTyped' BY <1>1 DEF CInv, Shapes, Kept, RootTyped
  <1>15. Kept' BY <1>1, <1>4, <1>9, <1>12, <1>13, <1>14 DEF Kept
  <1>16. Shapes' BY <1>1, <1>15 DEF CInv, Shapes, JobsTyped
  <1>17. Encrypted' => Encrypted BY <1>10 DEF Encrypted
  <1>18. ASSUME deploy.serial PROVE Sealed'
    <2>1. Sealed BY <1>18 DEF CInv, Orderly
    <2>2. Encrypted => \A m \in Nodes : dbs'[m] # None => dbs'[m].left \/ dbs'[m].key # None
      BY <1>1, <1>5, <1>7, <2>1 DEF Sealed
    <2>3. Encrypted /\ ~stray' => \A r \in log' : r.life = life => r.key # None
      BY <1>1, <1>3, <2>1 DEF Sealed
    <2> QED BY <1>1, <1>17, <2>1, <2>2, <2>3 DEF Sealed
  <1>19. deploy.serial => OneAtATime' /\ UnderWay' BY <1>1, <1>10, <1>17, Onward
  <1> QED BY <1>1, <1>16, <1>18, <1>19 DEF CInv, Orderly

LEMMA CrashStep ==
  ASSUME CInv, NEW n \in Nodes, Crash(n)
  PROVE  CInv'
  <1>1. /\ dbs' = [dbs EXCEPT ![n] = None]
        /\ job' = [c \in Clients |-> IF job[c].op # None /\ job[c].node = n THEN Idle ELSE job[c]]
        /\ UNCHANGED <<meta, root, keys, log, content, life, stray>>
        /\ UNCHANGED <<deploy, minted>>
    BY DEF Crash
  <1>2. \A c \in Clients : job'[c] = job[c] \/ job'[c] = Idle BY <1>1
  <1>3. JobsTyped' BY <1>1 DEF CInv, Shapes, JobsTyped
  <1>4. Kept' /\ (deploy.serial => Sealed') /\ (Encrypted' => Encrypted) BY <1>1, Unhosted
  <1>5. Shapes' BY <1>1, <1>3, <1>4 DEF CInv, Shapes
  <1>6. deploy.serial => OneAtATime' /\ UnderWay' BY <1>1, <1>2, <1>4, Onward
  <1> QED BY <1>1, <1>4, <1>5, <1>6 DEF CInv, Orderly

-----------------------------------------------------------------------------
(* The inductive invariant holds *)

LEMMA CInvInit == ASSUME Init PROVE CInv
  <1>1. \A c \in Clients : job[c] = Idle BY DEF Init
  <1>2. Idle.op = None BY DEF Idle
  <1>3. deploy \in Deployments BY DEF Init
  <1>4. minted \in Nat /\ life \in Nat BY SMTT(60) DEF Init
  <1>5. JobsTyped BY DEF Init, JobsTyped
  <1>6. RootTyped /\ Hosting /\ Filled BY DEF Init, RootTyped, Hosting, Filled
  <1>7. Lives /\ Listed BY DEF Init, Lives, Listed
  <1>8. OneAtATime BY <1>1, <1>2 DEF OneAtATime
  <1>9. Sealed BY DEF Init, Sealed, Encrypted
  <1>10. UnderWay BY <1>1, <1>2 DEF UnderWay, Safe, At
  <1> QED BY <1>3, <1>4, <1>5, <1>6, <1>7, <1>8, <1>9, <1>10 DEF CInv, Shapes, Kept, Orderly

LEMMA CInvNext == ASSUME CInv, [Next]_vars PROVE CInv'
  <1>1. CASE UNCHANGED vars
    <2>1. Stored /\ UNCHANGED <<deploy, job, minted>> BY <1>1 DEF vars, counts, Stored
    <2>2. Shapes' BY <2>1, StoredStep DEF CInv, Shapes, JobsTyped
    <2>3. Encrypted' => Encrypted BY <2>1 DEF Stored, Encrypted
    <2>4. keys' = keys /\ content' = content BY <2>1 DEF Stored
    <2>5. deploy.serial => OneAtATime' /\ UnderWay' BY <2>1, <2>3, <2>4, Onward
    <2> QED BY <2>1, <2>2, <2>5, StoredStep DEF CInv, Orderly
  <1>2. ASSUME NEW c \in Clients, NEW n \in Nodes,
               (\E enc \in BOOLEAN : create_db(c, n, enc)) \/ fork_db(c, n) \/ delete_db(c, n)
        PROVE CInv'
    BY <1>2, CreateDbStep, ForkDbStep, DeleteDbStep
  <1>3. ASSUME NEW c \in Clients, Step(c) PROVE CInv'
    BY <1>3, KeyManifestStep, CreateMetaStep, UndoLogStep, UndoKeysStep, ForkAppendStep,
       OpenNewStep, DeleteRootStep, DeleteMetaStep, DeleteKeysStep, DeleteLogStep DEF Step
  <1>4. ASSUME NEW n \in Nodes,
               Start(n) \/ standby_scan(n) \/ RenewLost(n) \/ Commit(n) \/ Crash(n)
        PROVE CInv'
    BY <1>4, PollStep, RenewLostStep, CommitStep, CrashStep
  <1> QED BY <1>1, <1>2, <1>3, <1>4 DEF Next

(* The inductive invariant holds of every reachable state, for any nodes,  *)
(* clients, source and deployments, whenever nodes poll and leases expire  *)
(* (create_db, fork_db, delete_db, open_db, standby_scan).                 *)
THEOREM CInvHolds == Spec => []CInv
  BY CInvInit, CInvNext, PTL DEF Spec

-----------------------------------------------------------------------------
(* One process *)

(* A step of a request stays on its node. *)
LEMMA StepStays ==
  ASSUME CInv, NEW c \in Clients, Step(c)
  PROVE  /\ Busy(c) /\ down' = down /\ deploy' = deploy
         /\ \A d \in Clients : d # c => job'[d] = job[d]
         /\ job'[c].op = None \/ job'[c].node = job[c].node
  <1>1. JobsTyped /\ minted \in Nat BY DEF CInv, Shapes
  <1>2. Busy(c)
    BY DEF Step, Busy, At, create_key_manifest, CreateMeta, UndoLog, UndoKeys, ForkAppend, OpenNew,
           DeleteRoot, DeleteMeta, DeleteKeys, DeleteLog
  <1>3. down' = down /\ deploy' = deploy
    BY DEF Step, create_key_manifest, CreateMeta, UndoLog, UndoKeys, ForkAppend, OpenNew,
           DeleteRoot, DeleteMeta, DeleteKeys, DeleteLog
  <1> DEFINE Stays == /\ \A d \in Clients : d # c => job'[d] = job[d]
                      /\ job'[c].op = None \/ job'[c].node = job[c].node
  <1>4. Done(c) => Stays BY <1>1, Stops
  <1>5. ASSUME NEW p \in MakingPcs, NEW q \in MakingPcs, At(c, p), Goto(c, q) PROVE Stays
    <2>1. job[c] \in Making BY <1>1, <1>5, Kind
    <2> QED BY <1>1, <1>5, <2>1, Goes
  <1>6. ASSUME NEW p \in DeletingPcs, NEW q \in DeletingPcs, At(c, p), Goto(c, q) PROVE Stays
    <2>1. job[c] \in Deleting BY <1>1, <1>6, Kind
    <2> QED BY <1>1, <1>6, <2>1, Goes
  <1>7. {"keys", "log", "meta", "open", "undolog", "undokeys"} \subseteq MakingPcs
    BY DEF MakingPcs
  <1>8. {"droproot", "dropmeta", "dropkeys", "droplog"} \subseteq DeletingPcs BY DEF DeletingPcs
  <1>9. ASSUME NEW j, job' = [job EXCEPT ![c] = j], j.node = job[c].node PROVE Stays
    <2>1. \A d \in Clients : job'[d] = IF d = c THEN j ELSE job[d] BY <1>1, <1>9 DEF JobsTyped
    <2> QED BY <1>9, <2>1
  <1> HIDE DEF Stays
  <1>10. ASSUME create_key_manifest(c) PROVE Stays
    <2>1. CASE keys # None
      <3>1. Done(c) BY <1>10, <2>1 DEF create_key_manifest
      <3> QED BY <1>4, <3>1
    <2>2. CASE keys = None
      <3> DEFINE q == IF job[c].op = "fork" THEN "log" ELSE "meta"
                 j == [job[c] EXCEPT !.pc = q, !.key = minted']
      <3>1. job' = [job EXCEPT ![c] = j] BY <1>10, <2>2 DEF create_key_manifest
      <3>2. minted' \in Nat
        <4>1. minted' = minted + 1 BY <1>10 DEF create_key_manifest
        <4> QED BY <1>1, <4>1, SMTT(60)
      <3>3. q \in MakingPcs BY <1>7
      <3> HIDE DEF q
      <3>4. At(c, "keys") BY <1>10 DEF create_key_manifest
      <3>5. job[c] \in Making BY <1>1, <1>7, <3>4, Kind
      <3>6. j.node = job[c].node
        <4>1. PICK k \in Nat : k = minted' BY <3>2
        <4>2. PICK r \in Making : r = job[c] BY <3>5
        <4>3. [r EXCEPT !.pc = q, !.key = k].node = r.node BY <3>3, Noted
        <4> QED BY <4>1, <4>2, <4>3
      <3> HIDE DEF j
      <3> QED BY <1>9, <3>1, <3>6
    <2> QED BY <2>1, <2>2
  <1>11. ASSUME CreateMeta(c) PROVE Stays
    <2>1. At(c, "meta") BY <1>11 DEF CreateMeta
    <2>2. Done(c) \/ \E q \in {"open", "undolog", "undokeys"} : Goto(c, q)
      <3>1. CASE ~meta BY <1>11, <3>1 DEF CreateMeta
      <3>2. CASE meta /\ job[c].op = "fork" BY <1>11, <3>2 DEF CreateMeta
      <3>3. CASE meta /\ job[c].op # "fork" /\ job[c].op = "create" /\ job[c].enc
        BY <1>11, <3>3 DEF CreateMeta
      <3>4. CASE meta /\ job[c].op # "fork" /\ ~(job[c].op = "create" /\ job[c].enc)
        BY <1>11, <3>4 DEF CreateMeta
      <3> QED BY <3>1, <3>2, <3>3, <3>4
    <2> QED BY <1>4, <1>5, <1>7, <2>1, <2>2
  <1>12. ASSUME UndoLog(c) PROVE Stays BY <1>4, <1>5, <1>7, <1>12 DEF UndoLog
  <1>13. ASSUME UndoKeys(c) PROVE Stays BY <1>4, <1>13 DEF UndoKeys
  <1>14. ASSUME ForkAppend(c) PROVE Stays
    <2>1. CASE \E r \in Visible : r.t >= job[c].at
      <3>1. Done(c) BY <1>14, <2>1 DEF ForkAppend
      <3> QED BY <1>4, <3>1
    <2>2. CASE ~\E r \in Visible : r.t >= job[c].at
      <3> DEFINE q == IF job[c].at = Len(Source) THEN "meta" ELSE "log"
                 j == [job[c] EXCEPT !.at = @ + 1, !.pc = q]
      <3>1. job' = [job EXCEPT ![c] = j] BY <1>14, <2>2 DEF ForkAppend
      <3>2. q \in MakingPcs BY <1>7
      <3> HIDE DEF q
      <3>3. At(c, "log") BY <1>14 DEF ForkAppend
      <3>4. job[c] \in Making BY <1>1, <1>7, <3>3, Kind
      <3>5. j \in Making /\ j.pc = q /\ j.enc = job[c].enc /\ j.node = job[c].node
        BY <3>2, <3>4, Advanced
      <3> HIDE DEF j
      <3> QED BY <1>9, <3>1, <3>5
    <2> QED BY <2>1, <2>2
  <1>15. ASSUME OpenNew(c) PROVE Stays BY <1>4, <1>15 DEF OpenNew
  <1>16. ASSUME DeleteRoot(c) PROVE Stays BY <1>6, <1>8, <1>16 DEF DeleteRoot
  <1>17. ASSUME DeleteMeta(c) PROVE Stays BY <1>6, <1>8, <1>17 DEF DeleteMeta
  <1>18. ASSUME DeleteKeys(c) PROVE Stays BY <1>6, <1>8, <1>18 DEF DeleteKeys
  <1>19. ASSUME DeleteLog(c) PROVE Stays BY <1>4, <1>19 DEF DeleteLog
  <1>20. Stays
    BY <1>10, <1>11, <1>12, <1>13, <1>14, <1>15, <1>16, <1>17, <1>18, <1>19 DEF Step
  <1> QED BY <1>2, <1>3, <1>20 DEF Stays

(* What a step of a request does to the hosts. *)
LEMMA StepHosts ==
  ASSUME CInv, NEW c \in Clients, Step(c)
  PROVE  \A n \in Nodes : dbs'[n] # None =>
           \/ dbs'[n] = dbs[n]
           \/ n = job[c].node /\ ~dbs'[n].left /\ job'[c].op = None
           \/ dbs[n] # None
  <1>1. CASE OpenNew(c)
    <2>1. JobsTyped /\ Kept BY DEF CInv, Shapes
    <2>2. "open" \in MakingPcs BY DEF MakingPcs
    <2>3. At(c, "open") BY <1>1 DEF OpenNew
    <2>4. job[c] \in Making BY <2>1, <2>2, <2>3, Kind
    <2>5. job[c].node \in Nodes BY <2>4 DEF Making
    <2>6. Done(c) /\ (open_db(job[c].node) \/ dbs' = dbs) BY <1>1 DEF OpenNew
    <2>7. job'[c].op = None BY <2>1, <2>6, Stops
    <2>8. CASE dbs' = dbs BY <2>8
    <2>9. CASE open_db(job[c].node) BY <2>1, <2>5, <2>7, <2>9, Hosts
    <2> QED BY <2>6, <2>8, <2>9
  <1>2. CASE DeleteMeta(c) BY <1>2, LeftBehind DEF CInv, Shapes, Kept
  <1>3. CASE ~OpenNew(c) /\ ~DeleteMeta(c)
    <2>1. dbs' = dbs
      BY <1>3 DEF Step, create_key_manifest, CreateMeta, UndoLog, UndoKeys, ForkAppend,
                  DeleteRoot, DeleteKeys, DeleteLog
    <2> QED BY <2>1
  <1> QED BY <1>1, <1>2, <1>3

(* A request arrives at the one node, where nothing is hosted any more. *)
LEMMA SingleAsks ==
  ASSUME CInv, Single, deploy.serial, ~deploy.ha, NEW c \in Clients, NEW n \in Nodes, NEW j,
         Request(c, n, j), j \in Making \cup Deleting, j.node = n,
         deploy' = deploy, down' = down,
         \A m \in Nodes : dbs'[m] = IF m = n THEN None ELSE dbs[m]
  PROVE  Single'
  <1>1. JobsTyped /\ deploy \in Deployments BY DEF CInv, Shapes
  <1>2. PICK one \in Nodes : deploy.nodes = {one} BY <1>1, CatalogAssumption
  <1>3. n \in deploy.nodes /\ n \notin down BY DEF Request
  <1>4. n = one /\ down = {} BY <1>2, <1>3 DEF Single
  <1>5. \A m \in Nodes : dbs'[m] = None BY <1>2, <1>4 DEF Single
  <1>6. \A d \in Clients : job'[d] = IF d = c THEN j ELSE job[d] BY <1>1 DEF JobsTyped, Request
  <1>7. \A d \in Clients : job[d].op = None BY DEF Request
  <1>8. ASSUME NEW d \in Clients, Busy(d)' PROVE job'[d].node \in deploy.nodes
    <2>1. job'[d].op # None BY <1>8 DEF Busy
    <2>2. d = c BY <1>6, <1>7, <2>1
    <2> QED BY <1>3, <1>6, <2>2
  <1> QED BY <1>4, <1>5, <1>8 DEF Single

LEMMA SingleNext == ASSUME CInv, Single, [Next]_vars PROVE Single'
  <1>1. JobsTyped /\ deploy \in Deployments /\ Kept /\ Hosting BY DEF CInv, Shapes, Kept
  <1>2. deploy' = deploy
    <2>1. CASE UNCHANGED vars BY <2>1 DEF vars
    <2>2. CASE Next
      <3>1. ASSUME NEW c \in Clients, Step(c) PROVE deploy' = deploy BY <3>1, StepStays
      <3>2. ASSUME NEW c \in Clients, NEW n \in Nodes,
                   (\E enc \in BOOLEAN : create_db(c, n, enc)) \/ fork_db(c, n) \/ delete_db(c, n)
            PROVE deploy' = deploy
        BY <3>2 DEF create_db, fork_db, delete_db
      <3>3. ASSUME NEW n \in Nodes,
                   Start(n) \/ standby_scan(n) \/ RenewLost(n) \/ Commit(n) \/ Crash(n)
            PROVE deploy' = deploy
        BY <3>3 DEF Start, standby_scan, RenewLost, Commit, Crash
      <3> QED BY <2>2, <3>1, <3>2, <3>3 DEF Next
    <2> QED BY <2>1, <2>2
  <1> SUFFICES ASSUME deploy.serial, ~deploy.ha PROVE Single' BY <1>2 DEF Single
  <1>3. /\ down \subseteq deploy.nodes
        /\ \A n \in Nodes : dbs[n] # None => n \in deploy.nodes /\ ~dbs[n].left
        /\ \A c \in Clients : Busy(c) =>
             job[c].node \in deploy.nodes /\ down = {} /\ \A n \in Nodes : dbs[n] = None
    BY DEF Single
  <1>4. PICK one \in Nodes : deploy.nodes = {one} BY <1>1, CatalogAssumption
  <1>5. CASE UNCHANGED vars
    <2>1. down' = down /\ dbs' = dbs /\ job' = job BY <1>5 DEF vars
    <2> QED BY <1>2, <1>3, <2>1 DEF Single, Busy
  <1>6. ASSUME NEW c \in Clients, NEW n \in Nodes, NEW enc \in BOOLEAN, create_db(c, n, enc)
        PROVE  Single'
    <2> DEFINE j == [op |-> "create", node |-> n, enc |-> enc, key |-> None, at |-> 1,
                     pc |-> IF enc THEN "keys" ELSE "meta"]
    <2>1. Request(c, n, j) /\ dbs[n] = None /\ dbs' = dbs /\ down' = down
      BY <1>6 DEF create_db
    <2>2. j \in Making BY SMTT(60) DEF Making
    <2>3. j.node = n OBVIOUS
    <2> HIDE DEF j
    <2>4. \A m \in Nodes : dbs'[m] = IF m = n THEN None ELSE dbs[m] BY <2>1
    <2> QED BY <1>2, <2>1, <2>2, <2>3, <2>4, SingleAsks
  <1>7. ASSUME NEW c \in Clients, NEW n \in Nodes, fork_db(c, n) PROVE Single'
    <2> DEFINE j == [op |-> "fork", node |-> n, enc |-> deploy.sealed, key |-> None, at |-> 1,
                     pc |-> IF deploy.sealed THEN "keys" ELSE "log"]
    <2>1. Request(c, n, j) /\ dbs[n] = None /\ dbs' = dbs /\ down' = down
      BY <1>7 DEF fork_db
    <2>a. deploy.sealed \in BOOLEAN BY <1>1, CatalogAssumption
    <2>2. j \in Making BY <2>a, SMTT(60) DEF Making
    <2>3. j.node = n OBVIOUS
    <2> HIDE DEF j
    <2>4. \A m \in Nodes : dbs'[m] = IF m = n THEN None ELSE dbs[m] BY <2>1
    <2> QED BY <1>2, <2>1, <2>2, <2>3, <2>4, SingleAsks
  <1>8. ASSUME NEW c \in Clients, NEW n \in Nodes, delete_db(c, n) PROVE Single'
    <2> DEFINE j == [op |-> "delete", node |-> n, pc |-> "droproot"]
    <2>1. Request(c, n, j) /\ dbs' = [dbs EXCEPT ![n] = None] /\ down' = down
      BY <1>8 DEF delete_db
    <2>2. j \in Deleting BY DEF Deleting
    <2>3. j.node = n OBVIOUS
    <2> HIDE DEF j
    <2>4. \A m \in Nodes : dbs'[m] = IF m = n THEN None ELSE dbs[m]
      BY <1>1, <2>1 DEF Hosting
    <2> QED BY <1>2, <2>1, <2>2, <2>3, <2>4, SingleAsks
  <1>9. ASSUME NEW c \in Clients, Step(c) PROVE Single'
    <2>1. /\ Busy(c) /\ down' = down
          /\ \A d \in Clients : d # c => job'[d] = job[d]
          /\ job'[c].op = None \/ job'[c].node = job[c].node
      BY <1>9, StepStays
    <2>2. \A d \in Clients : d # c => ~Busy(d)'
      BY <2>1 DEF CInv, Orderly, OneAtATime, Busy
    <2>3. \A n \in Nodes : dbs'[n] # None =>
            dbs'[n] = dbs[n] \/ (n = job[c].node /\ ~dbs'[n].left /\ job'[c].op = None)
                \/ dbs[n] # None
      BY <1>9, StepHosts
    <2>4. \A n \in Nodes : dbs[n] = None BY <1>3, <2>1
    <2>5. \A n \in Nodes : dbs'[n] # None =>
            n \in deploy.nodes /\ ~dbs'[n].left /\ job'[c].op = None
      BY <1>3, <2>1, <2>3, <2>4
    <2>6. Busy(c)' => job'[c].node \in deploy.nodes /\ \A n \in Nodes : dbs'[n] = None
      BY <1>3, <2>1, <2>5 DEF Busy
    <2> QED BY <1>2, <1>3, <2>1, <2>2, <2>5, <2>6 DEF Single
  <1>10. ASSUME NEW n \in Nodes, Start(n) PROVE Single'
    <2>1. n \in down /\ job' = job /\ (open_db(n) \/ dbs' = dbs) BY <1>10 DEF Start
    <2>2. down' = down \/ down' = down \ {n} BY <1>10 DEF Start
    <2>3. \A c \in Clients : ~Busy(c) BY <1>3, <2>1
    <2>4. \A c \in Clients : ~Busy(c)' BY <2>1, <2>3 DEF Busy
    <2>5. \A m \in Nodes : dbs'[m] = dbs[m] \/ (m = n /\ ~dbs'[m].left)
      <3>1. CASE dbs' = dbs BY <3>1
      <3>2. CASE open_db(n) BY <1>1, <3>2, Hosts
      <3> QED BY <2>1, <3>1, <3>2
    <2>6. \A m \in Nodes : dbs'[m] # None => m \in deploy.nodes /\ ~dbs'[m].left
      BY <1>3, <2>1, <2>5
    <2>7. down' \subseteq deploy.nodes BY <1>3, <2>2
    <2> QED BY <1>2, <2>4, <2>6, <2>7 DEF Single
  <1>11. ASSUME NEW n \in Nodes, RenewLost(n) \/ Commit(n) PROVE Single'
    <2> DEFINE up == [dbs[n] EXCEPT !.t = @ + 1]
    <2>1. /\ dbs[n] # None /\ job' = job
          /\ \/ dbs' = [dbs EXCEPT ![n] = up] /\ down' = down
             \/ dbs' = [dbs EXCEPT ![n] = None] /\ down' = down \cup {n}
      BY <1>11 DEF RenewLost, Commit, Depose
    <2>2. up.left = dbs[n].left
      <3>1. DOMAIN dbs[n] = HostFields BY <1>1, <2>1 DEF Hosting
      <3> QED BY <3>1, SMTT(60) DEF HostFields
    <2> HIDE DEF up
    <2>3. \A m \in Nodes : dbs'[m] = dbs[m] \/ (m = n /\ dbs'[m] \in {up, None})
      BY <1>1, <2>1 DEF Hosting
    <2>4. \A m \in Nodes : dbs'[m] # None => m \in deploy.nodes /\ ~dbs'[m].left
      BY <1>3, <2>1, <2>2, <2>3
    <2>5. \A c \in Clients : ~Busy(c) BY <1>3, <2>1
    <2>6. \A c \in Clients : ~Busy(c)' BY <2>1, <2>5 DEF Busy
    <2>7. down' \subseteq deploy.nodes BY <1>3, <2>1
    <2> QED BY <1>2, <2>4, <2>6, <2>7 DEF Single
  <1>12. ASSUME NEW n \in Nodes, Crash(n) PROVE Single'
    <2>1. /\ n \in deploy.nodes /\ dbs' = [dbs EXCEPT ![n] = None] /\ down' = down \cup {n}
          /\ job' = [c \in Clients |->
                       IF job[c].op # None /\ job[c].node = n THEN Idle ELSE job[c]]
      BY <1>12 DEF Crash
    <2>2. Idle.op = None BY DEF Idle
    <2>3. \A c \in Clients : Busy(c) => job[c].node = n BY <1>3, <1>4, <2>1
    <2>4. \A c \in Clients : job'[c].op = None BY <2>1, <2>2, <2>3 DEF Busy
    <2>5. \A m \in Nodes : dbs'[m] = IF m = n THEN None ELSE dbs[m] BY <1>1, <2>1 DEF Hosting
    <2>6. \A m \in Nodes : dbs'[m] # None => m \in deploy.nodes /\ ~dbs'[m].left
      BY <1>3, <2>5
    <2>7. down' \subseteq deploy.nodes BY <1>3, <2>1
    <2> QED BY <1>2, <2>4, <2>6, <2>7 DEF Single, Busy
  <1>13. ASSUME NEW n \in Nodes, standby_scan(n) PROVE FALSE BY <1>13 DEF standby_scan
  <1> QED BY <1>5, <1>6, <1>7, <1>8, <1>9, <1>10, <1>11, <1>12, <1>13 DEF Next

LEMMA SingleHolds == Spec => []Single
  <1>1. Init => Single
    <2>1. Idle.op = None BY DEF Idle
    <2> QED BY <2>1 DEF Init, Single, Busy
  <1> QED BY <1>1, SingleNext, CInvHolds, PTL DEF Spec

-----------------------------------------------------------------------------
(* The theorems *)

(* create_db and fork_db publish the key manifest before the catalogue     *)
(* entry, and take the keys back only of a name they did not catalogue: no *)
(* record of a database catalogued as encrypted is in the clear, whatever  *)
(* request a crash cuts short and whenever nodes poll and leases expire,   *)
(* for requests one at a time and unless a node that a delete left hosting *)
(* appends.                                                                *)
THEOREM EncryptedStaysSealed == Spec => []EncryptedSealed
  <1>1. CInv => EncryptedSealed BY DEF CInv, Orderly, Sealed, Encrypted, EncryptedSealed
  <1> QED BY <1>1, CInvHolds, PTL

(* open_db hosts what has a metadata root: a node serves what is           *)
(* catalogued, as it was catalogued last, unless it hosted the name when   *)
(* delete_db removed the root, by a poll in between or a lease taken from  *)
(* it.  With one process, which has no poller, and requests one at a time, *)
(* delete_db unhosts the name before it drops anything, and no node is     *)
(* left, whatever request a crash cuts short.                              *)
THEOREM OnlyCataloguedServed == Spec => []OnlyCatalogued
  <1>1. CInv /\ Single => OnlyCatalogued
    BY DEF CInv, Shapes, Kept, Listed, Single, OnlyCatalogued
  <1> QED BY <1>1, CInvHolds, SingleHolds, PTL
=============================================================================
