----------------------------- MODULE MCPeerStream -----------------------------
(* Model-checking instance of PeerStream. *)
EXTENDS PeerStream, TLC

Symmetry == Permutations(Peers)

=============================================================================
