------------------------------ MODULE MCBackup ------------------------------
(* Backup under several sets of bounds, one chosen in the initial state. *)
EXTENDS Backup

Base == [t |-> 3, leases |-> 1, epochs |-> 1, pubs |-> 0, backups |-> 2, restores |-> 1,
         crashes |-> 0, lives |-> 1]

\* A takeover with a leader deposed between append and fence.
Failover == [Base EXCEPT !.leases = 2]
\* Rotations and publications around two backups, and a sweep under the copy.
Rotating == [Base EXCEPT !.t = 2, !.epochs = 2, !.pubs = 2]
\* Runs that die: three backups, two restores.
Dying == [Base EXCEPT !.t = 2, !.backups = 3, !.restores = 2, !.crashes = 2]
\* The name deleted and created again.
Reborn == [Base EXCEPT !.t = 3, !.lives = 2]

MCDeployments == {Failover, Rotating, Dying, Reborn}
MCReborn == {Reborn}
=============================================================================
