--------------------------------- MODULE Tx ---------------------------------
(***************************************************************************)
(* What a transaction does to a database value: the current view, the      *)
(* interner of keyword names and prepare (corium-tx lib.rs).               *)
(*                                                                         *)
(* A value is the set of facts <<e, a, v>> that the current view folds     *)
(* from the recorded datoms; entity ids, values and names are natural      *)
(* numbers.                                                                *)
(***************************************************************************)
EXTENDS Naturals, Sequences, FiniteSets, SequencesExt

CONSTANTS Many, Unique, Ref, Component  \* attributes, by the properties of their schema

Max0(S) == IF S = {} THEN 0 ELSE CHOOSE m \in S : \A x \in S : x <= m

-----------------------------------------------------------------------------
(* Database values *)

values(db, e, a) == {f[3] : f \in {g \in db : g[1] = e /\ g[2] = a}}
Holders(db, a, v) == {f[1] : f \in {g \in db : g[2] = a /\ g[3] = v}}

(* lookup: the first holder in AVET order. *)
lookup(db, a, v) ==
  IF Holders(db, a, v) = {} THEN 0
  ELSE CHOOSE e \in Holders(db, a, v) : \A x \in Holders(db, a, v) : e <= x

(* apply_transaction: the current view of a value extended by datoms. *)
apply_transaction(db, datoms) ==
  FoldLeft(LAMBDA d, x : IF x.added THEN d \cup {x.fact} ELSE d \ {x.fact}, db, datoms)

Said(facts, added) == [i \in 1 .. Cardinality(facts) |-> [fact |-> SetToSeq(facts)[i], added |-> added]]

(* KeywordInterner::intern over the names of a transaction, in order. *)
Interned(naming, ns) ==
  FoldLeft(LAMBDA s, n : IF \E i \in DOMAIN s : s[i] = n THEN s ELSE Append(s, n), naming, ns)

IdOf(naming, n) == CHOOSE i \in DOMAIN naming : naming[i] = n

-----------------------------------------------------------------------------
(* prepare.  An operation is [op, e, a, v, old]; an entity position is      *)
(* <<"id", e>>, <<"temp", t>> or <<"lookup", a, v>>, a value <<"val", v>>,  *)
(* <<"name", n>> or an entity position.                                     *)

Temps(op) == SelectSeq(<<op.e, op.v>>, LAMBDA p : p[1] = "temp")
NamesOf(ops) == FlattenSeq([i \in DOMAIN ops |-> IF ops[i].v[1] = "name" THEN <<ops[i].v[2]>> ELSE <<>>])

(* A tempid with an identity that some entity holds is that entity. *)
Unified(db, ops) ==
  LET hits == {i \in DOMAIN ops : /\ ops[i].op = "add" /\ ops[i].e[1] = "temp"
                                  /\ ops[i].a \in Unique
                                  /\ Holders(db, ops[i].a, ops[i].v[2]) # {}}
      Best(t) == Max0({i \in hits : ops[i].e[2] = t})
  IN [t \in {ops[i].e[2] : i \in hits} |-> lookup(db, ops[Best(t)].a, ops[Best(t)].v[2])]

(* The others get ids from the allocator, in the order they appear. *)
Allocated(db, ops, first) ==
  FoldLeft(LAMBDA s, p : IF p[2] \in DOMAIN s.ids THEN s
                         ELSE [ids |-> s.ids @@ (p[2] :> s.next), next |-> s.next + 1],
           [ids |-> Unified(db, ops), next |-> first],
           FlattenSeq([i \in DOMAIN ops |-> Temps(ops[i])]))

(* What retracting entity e removes: its facts and those of its component  *)
(* children, and the references to any of them.                            *)
collect_entity_retractions(db, e) ==
  LET Children(S) == {f[3] : f \in {g \in db : g[1] \in S /\ g[2] \in Component}}
      ids == {e} \cup {f[1] : f \in db} \cup {f[3] : f \in {g \in db : g[2] \in Ref}}
      gone == CHOOSE S \in SUBSET ids :
                /\ e \in S /\ Children(S) \subseteq S
                /\ \A X \in SUBSET S : e \in X /\ Children(X) \subseteq X => X = S
  IN {f \in db : f[1] \in gone \/ (f[2] \in Ref /\ f[3] \in gone)}

Fail(s) == [s EXCEPT !.ok = FALSE]
Record(s, datoms) == [ok |-> TRUE, db |-> apply_transaction(s.db, datoms), datoms |-> s.datoms \o datoms]

(* Mutant: the old value of a cardinality-one attribute stays. *)
AddBeside(s, e, a, v) ==
  IF a \in Unique /\ lookup(s.db, a, v) \notin {0, e} THEN Fail(s)
  ELSE IF <<e, a, v>> \in s.db THEN s
  ELSE Record(s, Said({<<e, a, v>>}, TRUE))

Add(s, e, a, v) ==
  LET old == IF a \in Many THEN {} ELSE {<<e, a, w>> : w \in values(s.db, e, a)} IN
  IF a \in Unique /\ lookup(s.db, a, v) \notin {0, e} THEN Fail(s)
  ELSE IF <<e, a, v>> \in s.db THEN s
  ELSE Record(s, Said(old, FALSE) \o Said({<<e, a, v>>}, TRUE))

Cas(s, e, a, old, v) ==
  IF a \in Many \/ values(s.db, e, a) # old THEN Fail(s)
  ELSE Record(s, Said({<<e, a, w>> : w \in old}, FALSE) \o Said({<<e, a, v>>}, TRUE))

Retract(s, facts) == Record(s, Said(facts \cap s.db, FALSE))

(* The operations in order, each on the value the ones before it leave.    *)
prepare(db, ops, first, naming) ==
  LET alloc == Allocated(db, ops, first)
      At(p) == CASE p[1] = "temp" -> alloc.ids[p[2]]
                 [] p[1] = "lookup" -> lookup(db, p[2], p[3])
                 [] p[1] = "name" -> IdOf(naming, p[2])
                 [] OTHER -> p[2]
      Do(s, op) ==
        LET e == At(op.e) IN
        CASE ~s.ok \/ e = 0 -> Fail(s)
          [] op.op = "add" -> Add(s, e, op.a, At(op.v))
          [] op.op = "cas" -> Cas(s, e, op.a, op.old, At(op.v))
          [] op.op = "retract" -> Retract(s, {<<e, op.a, At(op.v)>>})
          [] op.op = "retractEntity" -> Retract(s, collect_entity_retractions(s.db, e))
  IN FoldLeft(Do, [ok |-> TRUE, db |-> db, datoms |-> <<>>], ops)
     @@ [next |-> Max0({first} \cup {alloc.ids[t] + 1 : t \in DOMAIN alloc.ids})]

=============================================================================
