------------------------------ MODULE MCTxMerge ------------------------------
(* Small instances of TxMerge: a cardinality-one keyword attribute, a       *)
(* unique one and a set-valued component reference.                         *)
EXTENDS TxMerge

I(e) == <<"id", e>>
T == <<"temp", 1>>
Op(op, e, a, v, old) == [op |-> op, e |-> e, a |-> a, v |-> v, old |-> old]
Name(op, e, n) == <<Op(op, e, "name", <<"name", n>>, {})>>
Key(op, e, k) == <<Op(op, e, "key", <<"val", k>>, {})>>
Link(op, e, t) == <<Op(op, e, "link", t, {})>>
CasName(e, old, n) == <<Op("cas", e, "name", <<"name", n>>, old)>>
CasKey(e, old, k) == <<Op("cas", e, "key", <<"val", k>>, old)>>
Drop(e) == <<Op("retractEntity", e, "name", <<"val", 0>>, {})>>
MoveKey == Key("retract", I(1), 1) \o Key("add", I(2), 1)

ManyAttrs == {"link"}
UniqueAttrs == {"key"}
KeywordAttrs == {"name"}

(* An entity with a name and a key, and one that links to it. *)
Linked == [facts |-> {<<1, "name", 1>>, <<1, "key", 1>>, <<2, "link", 1>>}, names |-> <<1>>, next |-> 3]
OneBase == {Linked}

Early == {Name("add", I(2), 2), Drop(I(1))}

Both ==
  {Name("add", I(1), 2), Name("add", I(1), 3), Name("retract", I(1), 1), CasName(I(1), {1}, 1),
   Key("add", I(2), 1), Key("add", I(1), 2), Key("add", T, 1) \o Name("add", T, 3),
   Drop(I(1)), Drop(I(2)), Link("retract", I(2), I(1)), Link("add", I(2), I(1)),
   Name("add", <<"lookup", "key", 1>>, 2)}

OnParent == Both \cup {Link("add", I(2), I(4)), Key("add", I(4), 2), Key("add", T, 2) \o Link("add", T, I(2)), MoveKey}
OnBranch == Both \cup {Link("add", T, I(1)), Link("add", I(1), I(6)), Name("add", I(4), 2) \o Link("add", I(2), I(4))}

SomeReserves == {[e |-> {}, a |-> {}], [e |-> {1}, a |-> {"link"}]}

(* The step of a branch that swaps in a unique value another entity holds.  *)
CasStep == {CasKey(I(2), {}, 1)}
==============================================================================
