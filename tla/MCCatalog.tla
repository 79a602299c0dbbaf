----------------------------- MODULE MCCatalog -----------------------------
(* Requests one at a time on one process and on a pair of nodes that poll for
   each other's leases, with crashes between and in the middle of them; requests
   of two clients that overlap. *)
EXTENDS Catalog

CONSTANTS n1, n2, c1, c2

MCSource == <<101, 102>>

Serial(nodes, cut, sealed, o, x, t, l) ==
  [nodes |-> nodes, clients |-> {c1}, ha |-> nodes # {n1}, serial |-> TRUE, cut |-> cut,
   sealed |-> sealed, ops |-> o, crashes |-> x, txs |-> t, lapses |-> l]

MCRacing ==
  { [nodes |-> {n1, n2}, clients |-> {c1, c2}, ha |-> TRUE, serial |-> FALSE, cut |-> FALSE,
     sealed |-> FALSE, ops |-> 2, crashes |-> 0, txs |-> 1, lapses |-> 0] }

MCDeployments ==
  {Serial({n1}, c, s, 5, 2, 3, 0) : c, s \in BOOLEAN}
    \cup {Serial({n1, n2}, FALSE, TRUE, 3, 1, 2, 1), Serial({n1, n2}, FALSE, FALSE, 3, 0, 2, 1)}
    \cup {Serial({n1, n2}, TRUE, s, 3, 1, 1, 0) : s \in BOOLEAN}
    \cup MCRacing
=============================================================================
