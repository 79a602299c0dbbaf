----------------------------- MODULE DurableLog -----------------------------
(***************************************************************************)
(* What corium promises the clients of one database, whoever serves it: a  *)
(* set of committed records, which is what the next recovery reads, and    *)
(* the records clients were told of.  What nobody was told of may come and *)
(* go, as a takeover cuts off what a deposed process appended; a record is *)
(* acknowledged only once it is committed, and from then on for good.      *)
(***************************************************************************)
VARIABLES committed, told

vars == <<committed, told>>

Init == committed = {} /\ told = {}

\* Records are appended, or cut off by a takeover.
Change ==
  /\ told \subseteq committed'
  /\ UNCHANGED told

\* Clients are told of committed records.
Acknowledge ==
  /\ told \subseteq told' /\ told' \subseteq committed
  /\ UNCHANGED committed

Next == Change \/ Acknowledge

Spec == Init /\ [][Next]_vars
=============================================================================
