------------------------------ MODULE MCBlobs ------------------------------
(* Model-checking instance of Blobs: a leaf that goes and comes back. *)
EXTENDS Blobs

CONSTANTS n1, n2, d1, d2

(***************************************************************************)
(* Two databases in one process, with a longer history or with a crash; a  *)
(* pair of processes with one database, with and without the scheduled     *)
(* collection (--gc-interval off).                                         *)
(***************************************************************************)
One == [procs |-> {n1}, names |-> {d1, d2}, gc |-> {n1},
        lives |-> 2, txs |-> 2, crashes |-> 0]
OneCrash == [One EXCEPT !.lives = 1, !.crashes = 1]
Pair == [procs |-> {n1, n2}, names |-> {d1}, gc |-> {n1},
         lives |-> 1, txs |-> 1, crashes |-> 0]
PairNoGc == [Pair EXCEPT !.gc = {}]
OneOrPair == {One, OneCrash, PairNoGc}
OnlyPair == {Pair}

(***************************************************************************)
(* The first database of a name has x, then y beside it, then x alone      *)
(* again; the next one of the name has y and x from its start.             *)
(***************************************************************************)
Leaf2 == {"x", "y"}
Turns ==
  <<[t \in 0..MaxT |-> CASE t = 1 -> {"x", "y"} [] OTHER -> {"x"}],
    [t \in 0..MaxT |-> CASE t = 0 -> {"y"} [] OTHER -> {"x", "y"}]>>

=============================================================================
