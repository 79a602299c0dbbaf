------------------------------- MODULE MCKeys -------------------------------
(* Four deployments: one process and a pair, with and without failures. *)
EXTENDS Keys

CONSTANTS h1, h2, k1, k2

Ring(a, b) == [h \in Hosts |-> IF h = h1 THEN a ELSE b]

\* One process that crashes and re-wraps; a pair where only the first holds
\* the KEK the keys are re-wrapped under; one process whose store and KMS
\* fail; a pair that rotates concurrently while they do.
MCDeployments ==
  { [procs |-> {h1}, ring |-> Ring({k1, k2}, {}), kek |-> k1, faults |-> FALSE,
     epochs |-> 3, t |-> 3, steps |-> 1, leases |-> 1, wraps |-> 1, flips |-> 2],
    [procs |-> {h1, h2}, ring |-> Ring({k1, k2}, {k1}), kek |-> k1, faults |-> FALSE,
     epochs |-> 2, t |-> 2, steps |-> 1, leases |-> 2, wraps |-> 1, flips |-> 0],
    [procs |-> {h1}, ring |-> Ring({k1, k2}, {}), kek |-> k1, faults |-> TRUE,
     epochs |-> 3, t |-> 2, steps |-> 1, leases |-> 1, wraps |-> 1, flips |-> 2],
    [procs |-> {h1, h2}, ring |-> Ring({k1}, {k1}), kek |-> k1, faults |-> TRUE,
     epochs |-> 3, t |-> 2, steps |-> 0, leases |-> 2, wraps |-> 0, flips |-> 1] }
=============================================================================
