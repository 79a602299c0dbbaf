------------------------------- MODULE TxMerge -------------------------------
(***************************************************************************)
(* Transactions and the merge of a saga's branch, on database values.      *)
(*                                                                         *)
(* A value is the set of facts <<e, a, v>> that the current view folds     *)
(* from the recorded datoms.  A parent and a branch rooted at the value    *)
(* base (the parent at t0) both take transactions, each under a naming of  *)
(* its own for keyword values; the branch takes its new entity ids from a  *)
(* block leased to it.  A commit squashes what both recorded since t0,     *)
(* scans for conflicts, applies the owner's resolutions and transacts what *)
(* is left on the parent.                                                  *)
(*                                                                         *)
(* Entity ids, values and keyword names are natural numbers; the value of  *)
(* a keyword attribute is the index of the name in the naming.  The saga's *)
(* own registry entry is module Saga; guards are not modelled.             *)
(***************************************************************************)
EXTENDS Tx

CONSTANTS
  Keyword,     \* attributes whose values are interned names
  Bases,       \* the values to start from
  EarlyTxs,    \* parent transactions between t0 and the opening
  ParentTxs,   \* parent transactions while the saga is open
  StepTxs,     \* transactions of the branch
  Block,       \* length of the leased block of ids
  Reserves,    \* the reservation sets to check: [e: entities, a: attributes]
  MaxParent, MaxStep, MaxReport  \* bounds on transactions and refused commits

ASSUME TxMergeAssumption ==
  /\ Block \in Nat \ {0}
  /\ MaxParent \in Nat /\ MaxStep \in Nat /\ MaxReport \in Nat

VARIABLES
  status,    \* "absent", "open" or "committed"
  base,      \* the parent's value at t0
  parent,    \* the parent's value
  drift,     \* the datoms the parent recorded since t0
  names,     \* the parent's interner
  next,      \* the parent's next_user
  reserves,  \* the saga's reservation set
  grant,     \* first id of the leased block, 0 when there is none
  branch, steps, bnames, bnext,  \* the same of the branch
  seen,      \* the conflicts of every report the owner was given
  txs, stepped, reports

vars == <<status, base, parent, drift, names, next, reserves, grant,
          branch, steps, bnames, bnext, seen, txs, stepped, reports>>

onBranch == <<branch, steps, bnames, bnext, stepped>>
onParent == <<parent, drift, names, next, txs>>

Granted == IF grant = 0 THEN {} ELSE grant .. grant + Block - 1

-----------------------------------------------------------------------------
(* The rules a transaction obeys beside its own *)

IdsOf(x) == {x.fact[1]} \cup (IF x.fact[2] \in Ref THEN {x.fact[3]} ELSE {})
Datoms(seq) == {seq[i] : i \in DOMAIN seq}

(* saga::validate_granted_ids: parent data stays out of a leased block.     *)
validate_granted_ids(datoms) == \A x \in Datoms(datoms) : IdsOf(x) \cap Granted = {}

(* branch::validate_step: new ids come from the block; with reservations,   *)
(* what the step writes or refers to on the parent's side is reserved.      *)
validate_step(datoms) ==
  LET reserved == reserves.e # {} \/ reserves.a # {}
      IsBranch(e) == e \in Granted
      IsPreExisting(e) == e < grant
      Covered(e, a) == e \in reserves.e \/ a \in reserves.a
  IN \A x \in Datoms(datoms) : \A e \in IdsOf(x) :
       /\ IsBranch(e) \/ IsPreExisting(e)
       /\ reserved /\ IsPreExisting(e) => Covered(e, x.fact[2])

-----------------------------------------------------------------------------
(* The merge *)

(* Mutant: the last word alone counts. *)
SquashLast(datoms) ==
  LET facts == {x.fact : x \in Datoms(datoms)}
      Kept(f, added) == Last(SelectSeq(datoms, LAMBDA x : x.fact = f)).added = added
  IN [asserts |-> {f \in facts : Kept(f, TRUE)}, retracts |-> {f \in facts : Kept(f, FALSE)}]

(* squash: the first word on a fact says what the run started from, the     *)
(* last word how it ended.                                                  *)
squash(datoms) ==
  LET facts == {x.fact : x \in Datoms(datoms)}
      On(f) == SelectSeq(datoms, LAMBDA x : x.fact = f)
      Kept(f, added) == Head(On(f)).added = added /\ Last(On(f)).added = added
  IN [asserts |-> {f \in facts : Kept(f, TRUE)}, retracts |-> {f \in facts : Kept(f, FALSE)}]

Net(novelty) == novelty.asserts \cup novelty.retracts

(* The parent's naming with the names of the branch's keyword values.       *)
Minted(novelty) ==
  Interned(names, [i \in 1 .. Cardinality({f \in Net(novelty) : f[2] \in Keyword}) |->
                     bnames[SetToSeq({f \in Net(novelty) : f[2] \in Keyword})[i][3]]])
(* Mutant: keyword values are merged as they are. *)
Verbatim(novelty, naming) == novelty

(* translate: the branch's keyword values in the parent's naming.           *)
translate(novelty, naming) ==
  LET Fact(f) == IF f[2] \in Keyword THEN <<f[1], f[2], IdOf(naming, bnames[f[3]])>> ELSE f
  IN [asserts |-> {Fact(f) : f \in novelty.asserts}, retracts |-> {Fact(f) : f \in novelty.retracts}]

(* What a conflict and a resolution are about: a pair, or a fact of a set.  *)
Unit(f) == IF f[2] \in Many THEN f ELSE <<f[1], f[2]>>

exists(db, e) == \E f \in db : f[1] = e

(* Mutant: only the target of a reference is checked. *)
DanglingTarget(f, emptied) == f[2] \in Ref /\ f[3] \in emptied

(* Both ends of what the branch asserts: entities the parent retracted.     *)
Dangling(f, emptied) == f[1] \in emptied \/ (f[2] \in Ref /\ f[3] \in emptied)

scan(db, novelty, moved) ==
  LET pairs == {Unit(f) : f \in {g \in Net(novelty) : g[2] \notin Many}}
      Means(p) == {f[3] : f \in {g \in novelty.asserts : Unit(g) = p}}
      drifted == {<<f[1], f[2]>> : f \in Net(moved)}
      emptied == {f[1] : f \in {g \in moved.retracts : ~exists(db, g[1])}}
      Holder(f) == lookup(db, f[2], f[3])
      Conflict(kind, f, held, can) ==
        [kind |-> kind, unit |-> Unit(f), parent |-> held, overridable |-> can]
  IN {[kind |-> IF Means(p) # {} THEN "write-write" ELSE "retraction-miss", unit |-> p,
       parent |-> values(db, p[1], p[2]), overridable |-> Means(p) # {}] :
        p \in {q \in pairs \cap drifted : values(db, q[1], q[2]) # Means(q)}}
     \cup {Conflict("uniqueness", f, values(db, f[1], f[2]), FALSE) :
             f \in {g \in novelty.asserts : g[2] \in Unique /\ Holder(g) \notin {0, g[1]}}}
     \cup {Conflict("dangling-ref", f, {}, FALSE) : f \in {g \in novelty.asserts : Dangling(g, emptied)}}

(* Mutant: an answer stands whatever the parent holds now. *)
ResolveUnfenced(conflicts, resolutions) ==
  LET Taken(c, t) == \E r \in resolutions : r.unit = c.unit /\ r.take = t
      accepted == {c.unit : c \in {d \in conflicts : Taken(d, "parent")}}
  IN [outstanding |-> {c \in conflicts : /\ ~Taken(c, "parent")
                                         /\ ~(Taken(c, "branch") /\ c.overridable)},
      accepted |-> accepted,
      overridden |-> {c.unit : c \in {d \in conflicts : Taken(d, "branch") /\ d.overridable}} \ accepted,
      rejected |-> {}]

(* resolve: a resolution answers the conflicts of its unit that show the    *)
(* parent's value it names; one that answers nothing is rejected.           *)
resolve(conflicts, resolutions) ==
  LET Answers(r, c) == r.unit = c.unit /\ r.parent = c.parent
      Taken(c, t) == \E r \in resolutions : Answers(r, c) /\ r.take = t
      accepted == {c.unit : c \in {d \in conflicts : Taken(d, "parent")}}
  IN [outstanding |-> {c \in conflicts : /\ ~Taken(c, "parent")
                                         /\ ~(Taken(c, "branch") /\ c.overridable)},
      accepted |-> accepted,
      overridden |-> {c.unit : c \in {d \in conflicts : Taken(d, "branch") /\ d.overridable}} \ accepted,
      rejected |-> {r \in resolutions :
                      \/ ~\E c \in conflicts : Answers(r, c)
                      \/ \E c \in conflicts : Answers(r, c) /\ r.take = "branch" /\ ~c.overridable}]

apply(novelty, resolved) ==
  [asserts |-> {f \in novelty.asserts : Unit(f) \notin resolved.accepted},
   retracts |-> {f \in novelty.retracts : Unit(f) \notin resolved.accepted \cup resolved.overridden}]

(* The items of the merge, retractions first, on concrete ids.              *)
novelty_items(novelty) ==
  LET Items(facts, op) ==
        [i \in 1 .. Cardinality(facts) |->
           LET f == SetToSeq(facts)[i] IN
           [op |-> op, e |-> <<"id", f[1]>>, a |-> f[2], v |-> <<"val", f[3]>>, old |-> {}]]
  IN Items(novelty.retracts, "retract") \o Items(novelty.asserts, "add")

-----------------------------------------------------------------------------
(* Actions *)

Init ==
  /\ status = "absent"
  /\ \E b \in Bases : base = b.facts /\ names = b.names /\ next = b.next
  /\ parent = base /\ drift = <<>>
  /\ reserves \in Reserves
  /\ grant = 0 /\ branch = {} /\ steps = <<>> /\ bnames = <<>> /\ bnext = 0
  /\ seen = {} /\ txs = 0 /\ stepped = 0 /\ reports = 0

(* A transaction of the parent: conversion interns its names, whether it is *)
(* then refused or not.                                                     *)
Transact(ops) ==
  LET naming == Interned(names, NamesOf(ops))
      p == prepare(parent, ops, next, naming)
      ok == p.ok /\ (status = "open" => validate_granted_ids(p.datoms))
  IN
  /\ txs < MaxParent /\ txs' = txs + 1
  /\ names' = naming
  /\ parent' = IF ok THEN p.db ELSE parent
  /\ drift' = IF ok THEN drift \o p.datoms ELSE drift
  /\ next' = IF ok THEN p.next ELSE next
  /\ UNCHANGED <<status, base, reserves, grant, onBranch, seen, reports>>

EarlyTx == status = "absent" /\ \E ops \in EarlyTxs : Transact(ops)
ParentTx == status = "open" /\ \E ops \in ParentTxs : Transact(ops)

(* The opening transaction: lease_saga_grants takes an id for the grant and *)
(* the block behind it; the branch starts from t0 and the naming of now.    *)
OpenSaga ==
  /\ status = "absent" /\ status' = "open"
  /\ grant' = next + 1 /\ next' = next + 1 + Block
  /\ branch' = base /\ bnames' = names /\ bnext' = next + 1
  /\ UNCHANGED <<base, parent, drift, names, reserves, steps, seen, txs, stepped, reports>>

(* A step: an ordinary transaction on the branch, under the step rules.     *)
Step ==
  /\ status = "open" /\ stepped < MaxStep
  /\ \E ops \in StepTxs :
       LET naming == Interned(bnames, NamesOf(ops))
           p == prepare(branch, ops, bnext, naming)
           ok == p.ok /\ validate_step(p.datoms)
       IN /\ bnames' = naming
          /\ branch' = IF ok THEN p.db ELSE branch
          /\ steps' = IF ok THEN steps \o p.datoms ELSE steps
          /\ bnext' = IF ok THEN p.next ELSE bnext
  /\ stepped' = stepped + 1
  /\ UNCHANGED <<status, base, onParent, reserves, grant, seen, reports>>

(* The answers an owner can give: to conflicts it was shown, once each.     *)
Resolutions ==
  {rs \in SUBSET [unit : {c.unit : c \in seen}, parent : {c.parent : c \in seen}, take : {"parent", "branch"}] :
     /\ \A r \in rs : \E c \in seen : r.unit = c.unit /\ r.parent = c.parent
     /\ \A r1, r2 \in rs : r1.unit = r2.unit /\ r1.parent = r2.parent => r1 = r2}

(* saga_commit: a report when something stands in the way, else one         *)
(* transaction with what the resolutions leave.                             *)
Commit ==
  LET own == squash(steps)
      naming == Minted(own)
      novelty == translate(own, naming)
      conflicts == scan(parent, novelty, squash(drift))
  IN
  /\ status = "open"
  /\ \E rs \in Resolutions :
       LET resolved == resolve(conflicts, rs)
           p == prepare(parent, novelty_items(apply(novelty, resolved)), next, naming)
       IN IF resolved.outstanding # {} \/ resolved.rejected # {}
          THEN /\ reports < MaxReport /\ reports' = reports + 1
               /\ seen' = seen \cup resolved.outstanding
               /\ UNCHANGED <<status, parent, drift, names>>
          ELSE /\ p.ok
               /\ status' = "committed"
               /\ parent' = p.db /\ drift' = drift \o p.datoms
               /\ names' = naming
               /\ UNCHANGED <<seen, reports>>
  /\ UNCHANGED <<base, next, txs, reserves, grant, onBranch>>

Next == EarlyTx \/ OpenSaga \/ ParentTx \/ Step \/ Commit

Spec == Init /\ [][Next]_vars

-----------------------------------------------------------------------------
(* Properties *)

Sides == {<<parent, drift>>, <<branch, steps>>}
Naming(n) == \A i, j \in DOMAIN n : n[i] = n[j] => i = j

(* Every value is one of its types, and a naming has each name once.       *)
TypeOK ==
  /\ status \in {"absent", "open", "committed"}
  /\ \A f \in base \cup parent \cup branch : f[1] \in Nat \ {0} /\ f[3] \in Nat \ {0}
  /\ Naming(names) /\ Naming(bnames)
  /\ \A f \in parent : f[2] \in Keyword => f[3] \in DOMAIN names
  /\ \A f \in branch : f[2] \in Keyword => f[3] \in DOMAIN bnames
  /\ next \in Nat /\ bnext \in Nat /\ grant \in 0 .. next
  /\ txs \in 0 .. MaxParent /\ stepped \in 0 .. MaxStep /\ reports \in 0 .. MaxReport

(* What prepare validates holds of every value it leaves, by transactions,  *)
(* steps and merges: one value in a cardinality-one pair, one holder of a   *)
(* unique value; names are minted once and entities are well formed.        *)
SchemaHolds ==
  /\ TypeOK
  /\ \A db \in {parent, branch} : \A f, g \in db :
       /\ f[2] \notin Many /\ f[1] = g[1] /\ f[2] = g[2] => f = g
       /\ f[2] \in Unique /\ f[2] = g[2] /\ f[3] = g[3] => f = g

(* squash recovers the net effect of a run from its datoms alone: it        *)
(* asserts only what the start did not hold, retracts only what it held,    *)
(* and leads from the start to the value the run left.                      *)
SquashExact ==
  status = "open" => \A side \in Sides :
    LET n == squash(side[2]) IN
    /\ n.asserts \cap base = {} /\ n.retracts \subseteq base
    /\ (base \ n.retracts) \cup n.asserts = side[1]

View(db, naming) == {IF f[2] \in Keyword THEN <<f[1], f[2], naming[f[3]]>> ELSE f : f \in db}
Of(db, u) == {f \in db : Unit(f) = u}
Committing == status = "open" /\ status' = "committed"

(* A merge changes what the branch changed and nothing else: every pair and *)
(* set member the branch wrote is, by name, what the branch left there, or  *)
(* what the parent held where a report showed the conflict; everything else *)
(* is the parent's.                                                         *)
MergeExact ==
  [][Committing =>
       LET start == View(base, names)
           was == View(parent, names)
           now == View(parent', names')
           mine == View(branch, bnames)
       IN \A u \in {Unit(f) : f \in start \cup was \cup now \cup mine} :
            IF Of(mine, u) = Of(start, u) THEN Of(now, u) = Of(was, u)
            ELSE \/ Of(now, u) = Of(mine, u)
                 \/ Of(now, u) = Of(was, u) /\ \E c \in seen : c.unit = u]_vars

(* A merge never overwrites, in a cardinality-one pair, a value the parent  *)
(* took since t0 unless a report showed the owner that very value.          *)
SeenBeforeOverwritten ==
  [][Committing =>
       \A u \in {Unit(f) : f \in base \cup parent \cup parent'} :
         u[2] \notin Many /\ Of(parent, u) # Of(base, u) /\ Of(parent', u) # Of(parent, u)
           => \E c \in seen : c.unit = u /\ c.parent = {f[3] : f \in Of(parent, u)}]_vars

(* A merge neither brings back an entity the parent has retracted since t0  *)
(* nor adds a reference to one.                                             *)
NothingResurrected ==
  [][Committing =>
       \A e \in {f[1] : f \in base} : ~exists(parent, e) =>
         /\ ~exists(parent', e)
         /\ \A f \in parent' \ parent : ~(f[2] \in Ref /\ f[3] = e)]_vars

(* The scan finds nothing where the parent did not move since t0.           *)
NoDriftNoConflict ==
  status = "open" /\ parent = base /\ names = bnames => scan(parent, squash(steps), squash(drift)) = {}
=============================================================================
