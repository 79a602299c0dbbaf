---------------------------- MODULE MCGroupCommit ----------------------------
(***************************************************************************)
(* Model-checking instance of GroupCommit: three requests, two that write  *)
(* the same keyword, one of them conditional, and one that writes none.    *)
(***************************************************************************)
EXTENDS GroupCommit, TLC

CONSTANTS r1, r2, r3, k1

MCUses == r1 :> k1 @@ r2 :> k1 @@ r3 :> None
MCExpects == r1 :> None @@ r2 :> 1 @@ r3 :> None

=============================================================================
