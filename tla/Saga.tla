-------------------------------- MODULE Saga --------------------------------
(***************************************************************************)
(* The life of one saga across a pair of transactor nodes: its registry    *)
(* entry in the parent database, its branch (an overlay with a log of its  *)
(* own), the steps transacted on the branch, the merge, the abort and the  *)
(* expiry that end it, the sweep, and a fork that inherits the entry.      *)
(*                                                                         *)
(* Both logs are the log of module HaCommit, reduced to what a reader of   *)
(* the versions merged gets: an append cuts off what an older version      *)
(* wrote and its writer had not read, and an append of a version older     *)
(* than the newest one that has written is never read.                     *)
(***************************************************************************)
EXTENDS Naturals, FiniteSets, FiniteSetsExt

CONSTANTS
  Node,
  First,     \* the node that hosts the database at the start
  Modes,     \* the values of NodeConfig::ha to check
  MaxTerm,   \* bound on lease terms, for each value of ha
  MaxStep,   \* bound on steps
  MaxFault   \* bound on crashes, failed root writes, refused merges, failed aborts and forks together

ASSUME SagaAssumption ==
  /\ First \in Node /\ Modes \subseteq BOOLEAN
  /\ MaxTerm \in [BOOLEAN -> Nat \ {0}]
  /\ MaxStep \in Nat /\ MaxFault \in Nat

VARIABLES
  ha,       \* NodeConfig::ha
  owner,    \* the node the parent's lease record names
  term,     \* the version of that lease
  db,       \* the parent at each node: "none", "opening" or "hosted" (in dbs)
  held,     \* the lease version of the parent's DbState at each node
  deposed,  \* DbState::deposed of the parent each node hosts
  reg,      \* the registry entry in the parent's log
  wrote,    \* the newest version that has appended to the parent's log
  mem,      \* the registry entry in the parent's value at each node
  fork,     \* a fork that inherited the open entry: "none", "ended" or "compensated"
  root,     \* whether the branch has a metadata root
  blog,     \* the steps the branch log holds for its next reader
  bterm,    \* the newest version that has appended to the branch log
  branch,   \* the overlay in each node's branches map, or NoBranch
  step,     \* the step in progress on each node's overlay
  tx,       \* the client transaction in progress on each node's parent
  op,       \* the merge or the ending in progress at each node
  pass,     \* whether the liveness pass of each node is still to run
  acked,    \* the steps acknowledged to their clients
  told,     \* the ends of the saga a call that wrote one has answered
  retold,   \* the ends a repeated commit call has answered
  nextStep, faults

vars == <<ha, owner, term, db, held, deposed, reg, wrote, mem, fork, root, blog, bterm,
          branch, step, tx, op, pass, acked, told, retold, nextStep, faults>>

lease == <<ha, owner, term, held>>
log == <<reg, wrote>>
disk == <<root, blog, bterm>>
answers == <<acked, told, retold>>
bounds == <<nextStep, faults>>

Steps == 1 .. MaxStep
Terminal == {"committed", "aborted", "expired"}

(* A registry entry: its status, whether a merge wrote its end and the     *)
(* steps it carried, whether its registered compensation was applied,      *)
(* whether its deadline has passed.                                        *)
Entry == [status : {"absent", "open"} \cup Terminal, merged : BOOLEAN,
          steps : SUBSET Steps, comp : BOOLEAN, late : BOOLEAN]
Absent == [status |-> "absent", merged |-> FALSE, steps |-> {}, comp |-> FALSE, late |-> FALSE]

(* The overlay a node holds in its branches map, the step in progress on    *)
(* it, and the merge or the ending in progress.                             *)
Overlay == [steps : SUBSET Steps, term : Nat, saw : {"absent", "open"} \cup Terminal]
StepState == [id : 0 .. MaxStep, pc : {"idle", "append", "fence"}]
OpState == [kind : {"none"} \cup Terminal, pc : {"idle", "parent", "fence"},
            fix : {"none", "registered", "skip"}, onBranch : BOOLEAN]
NoBranch == [steps |-> {}, term |-> 0, saw |-> "absent"]
NoStep == [id |-> 0, pc |-> "idle"]
NoTx == "idle"
NoOp == [kind |-> "none", pc |-> "idle", fix |-> "none", onBranch |-> FALSE]

Init ==
  /\ ha \in Modes
  /\ owner = First /\ term = 1
  /\ db = [n \in Node |-> IF n = First THEN "hosted" ELSE "none"]
  /\ held = [n \in Node |-> IF n = First THEN 1 ELSE 0]
  /\ deposed = [n \in Node |-> FALSE]
  /\ reg = Absent /\ wrote = 1 /\ fork = "none"
  /\ mem = [n \in Node |-> Absent]
  /\ root = FALSE /\ blog = {} /\ bterm = 0
  /\ branch = [n \in Node |-> NoBranch]
  /\ step = [n \in Node |-> NoStep]
  /\ tx = [n \in Node |-> NoTx]
  /\ op = [n \in Node |-> NoOp]
  /\ pass = [n \in Node |-> FALSE]
  /\ acked = {} /\ told = {} /\ retold = {}
  /\ nextStep = 1 /\ faults = 0

(* Mutant: the lease is checked against the local flag only. *)
OwnsCached(n) == ~deposed[n]

(* check_lease of the parent's DbState at node n. *)
Owns(n) == owner = n /\ ~deposed[n]

(* The overlay of node n refers to the DbState that n hosts now. *)
Live(n) == db[n] = "hosted" /\ branch[n].term = held[n]

ParentFree(n) == tx[n] = NoTx /\ op[n].pc \notin {"append", "fence"}
(* Mutant: a merge does not keep steps out of the branch. *)
BranchUnfrozen(n) == step[n] = NoStep

BranchFree(n) == step[n] = NoStep /\ ~(op[n].onBranch /\ op[n].pc \in {"parent", "append", "fence"})

branch_exists(n) == branch[n] # NoBranch \/ root

(* saga_branch: the hosted overlay, or one built from the root and the log. *)
saga_branch(n) ==
  /\ branch_exists(n)
  /\ IF branch[n] # NoBranch THEN UNCHANGED branch
     ELSE /\ db[n] = "hosted" /\ mem[n].status # "absent"
          /\ branch' = [branch EXCEPT ![n] = [steps |-> blog, term |-> held[n], saw |-> "absent"]]

(* Everything in the memory of node n is gone. *)
Forget(n) ==
  /\ db' = [db EXCEPT ![n] = "none"]
  /\ deposed' = [deposed EXCEPT ![n] = FALSE]
  /\ mem' = [mem EXCEPT ![n] = Absent]
  /\ branch' = [branch EXCEPT ![n] = NoBranch]
  /\ step' = [step EXCEPT ![n] = NoStep]
  /\ tx' = [tx EXCEPT ![n] = NoTx]
  /\ op' = [op EXCEPT ![n] = NoOp]
  /\ pass' = [pass EXCEPT ![n] = FALSE]

(* depose of the parent: an HA node returns the database to standby, any   *)
(* other process shuts down.  The branches map is left as it is.           *)
Depose(n) ==
  IF ha
  THEN /\ db' = [db EXCEPT ![n] = "none"]
       /\ deposed' = [deposed EXCEPT ![n] = FALSE]
       /\ mem' = [mem EXCEPT ![n] = Absent]
       /\ branch' = [branch EXCEPT ![n] = IF @ = NoBranch THEN @ ELSE [@ EXCEPT !.saw = mem[n].status]]
       /\ tx' = [tx EXCEPT ![n] = NoTx]
       /\ op' = [op EXCEPT ![n] = NoOp]
       /\ pass' = [pass EXCEPT ![n] = FALSE]
       /\ UNCHANGED step
  ELSE Forget(n)

-----------------------------------------------------------------------------
(* The lease and the hosting of the parent *)

(* The lease lapses and another process, or this one again, acquires it. *)
Acquire(n) ==
  /\ term < MaxTerm[ha]
  /\ db[n] = "none"
  /\ owner' = n /\ term' = term + 1
  /\ held' = [held EXCEPT ![n] = term + 1]
  /\ db' = [db EXCEPT ![n] = "opening"]
  /\ deposed' = [deposed EXCEPT ![n] = FALSE]
  /\ UNCHANGED <<ha, log, mem, fork, disk, branch, step, tx, op, pass, answers, bounds>>

(* open_db replays the log and spawns the maintenance, the liveness pass in it. *)
Open(n) ==
  /\ db[n] = "opening"
  /\ mem' = [mem EXCEPT ![n] = reg]
  /\ db' = [db EXCEPT ![n] = "hosted"]
  /\ pass' = [pass EXCEPT ![n] = TRUE]
  /\ UNCHANGED <<lease, deposed, log, fork, disk, branch, step, tx, op, answers, bounds>>

(* The renewal task finds the lease gone; it stops at once when deposed. *)
RenewLost(n) ==
  /\ db[n] = "hosted" /\ ~deposed[n] /\ owner # n
  /\ ParentFree(n)
  /\ Depose(n)
  /\ UNCHANGED <<lease, log, fork, disk, answers, bounds>>

Crash(n) ==
  /\ faults < MaxFault /\ db[n] # "none"
  /\ owner = n => term < MaxTerm[ha]
  /\ faults' = faults + 1
  /\ Forget(n)
  /\ UNCHANGED <<lease, log, fork, disk, answers, nextStep>>

(* Time passes the deadline of the entry, wherever it is read. *)
Expires ==
  LET Late(e) == [e EXCEPT !.late = (e.status = "open")] IN
  /\ reg.status = "open" /\ ~reg.late
  /\ reg' = Late(reg)
  /\ mem' = [n \in Node |-> Late(mem[n])]
  /\ UNCHANGED <<lease, db, deposed, wrote, fork, disk, branch, step, tx, op, pass, answers, bounds>>

(* The append of an entry e by node n: the commit point, then the install. *)
Appended(n, e) ==
  /\ mem' = [mem EXCEPT ![n] = e]
  /\ reg' = IF held[n] < wrote THEN reg ELSE e
  /\ wrote' = Max({wrote, held[n]})

-----------------------------------------------------------------------------
(* Transactions of clients on the parent's registry *)

(* saga::validate: an entry is created open, and leaves open for a terminal *)
(* status; a deadline is extended while it is open.                         *)
validate(from, to) ==
  \/ from = to
  \/ from.status = "absent" /\ to.status = "open"
  \/ from.status = "open" /\ to.status \in Terminal \cup {"open"}

Transact(n, e) ==
  /\ db[n] = "hosted" /\ ParentFree(n)
  /\ validate(mem[n], e)
  /\ Appended(n, e)
  /\ tx' = [tx EXCEPT ![n] = IF mem[n].status = "absent" /\ e.status = "open" THEN "opened" ELSE "written"]
  /\ UNCHANGED <<lease, db, deposed, fork, disk, branch, step, op, pass, answers, bounds>>

OpenSaga(n) == Transact(n, [Absent EXCEPT !.status = "open"])
OtherTx(n) == wrote < held[n] /\ Transact(n, mem[n])
ExtendSaga(n) == mem[n].late /\ Transact(n, [mem[n] EXCEPT !.late = FALSE])
FlipStatus(n, s) == Transact(n, [mem[n] EXCEPT !.status = s, !.late = FALSE])

(* The post-append fence of the flush.  A saga it opens gets its root next. *)
TxFence(n) ==
  /\ tx[n] \in {"opened", "written"}
  /\ IF ~Owns(n) THEN Depose(n) /\ UNCHANGED told
     ELSE /\ tx' = [tx EXCEPT ![n] = IF tx[n] = "opened" THEN "root" ELSE NoTx]
          /\ told' = told \cup ({mem[n].status} \cap Terminal)
          /\ UNCHANGED <<db, deposed, mem, branch, step, op, pass>>
  /\ UNCHANGED <<lease, log, fork, disk, acked, retold, bounds>>

(* ensure_branch_meta, whose failure is only logged. *)
EnsureBranchMeta(n) ==
  /\ tx[n] = "root"
  /\ \/ root' = TRUE /\ UNCHANGED faults
     \/ /\ faults < MaxFault
        /\ faults' = faults + 1 /\ UNCHANGED root
  /\ tx' = [tx EXCEPT ![n] = NoTx]
  /\ UNCHANGED <<lease, db, deposed, log, mem, fork, blog, bterm, branch, step, op, pass,
                 answers, nextStep>>

-----------------------------------------------------------------------------
(* Steps on the branch *)

(* step_rules: the status in the value of the overlay's parent. *)
step_rules(n) ==
  (IF branch'[n].term = held[n] THEN mem[n].status ELSE branch'[n].saw) = "open"

StepPrepare(n) ==
  /\ nextStep <= MaxStep /\ BranchFree(n)
  /\ saga_branch(n)
  /\ step_rules(n)
  /\ step' = [step EXCEPT ![n] = [id |-> nextStep, pc |-> "append"]]
  /\ nextStep' = nextStep + 1
  /\ UNCHANGED <<lease, db, deposed, log, mem, fork, disk, tx, op, pass, answers, faults>>

(* The append and the install. *)
StepAppend(n) ==
  /\ step[n].pc = "append"
  /\ branch' = [branch EXCEPT ![n].steps = @ \cup {step[n].id}]
  /\ blog' = IF branch[n].term < bterm THEN blog ELSE branch'[n].steps
  /\ bterm' = Max({bterm, branch[n].term})
  /\ step' = [step EXCEPT ![n].pc = "fence"]
  /\ UNCHANGED <<lease, db, deposed, log, mem, fork, root, tx, op, pass, answers, bounds>>

(* The fence of a step is the parent's lease.  Losing it marks the parent   *)
(* deposed; an HA node then deposes the branch's name only.                 *)
StepFence(n) ==
  /\ step[n].pc = "fence"
  /\ IF Live(n) /\ Owns(n)
     THEN /\ acked' = acked \cup {step[n].id}
          /\ step' = [step EXCEPT ![n] = NoStep]
          /\ UNCHANGED <<db, deposed, mem, branch, tx, op, pass>>
     ELSE IF ~ha THEN Forget(n) /\ UNCHANGED acked
     ELSE /\ deposed' = [deposed EXCEPT ![n] = @ \/ Live(n)]
          /\ step' = [step EXCEPT ![n] = NoStep]
          /\ UNCHANGED <<db, mem, branch, tx, op, pass, acked>>
  /\ UNCHANGED <<lease, log, fork, disk, told, retold, bounds>>

-----------------------------------------------------------------------------
(* The merge *)

(* saga_commit resolves the branch and takes its commit lock. *)
CommitLock(n) ==
  /\ db[n] = "hosted" /\ op[n] = NoOp /\ BranchFree(n)
  /\ saga_branch(n)
  /\ op' = [op EXCEPT ![n] = [NoOp EXCEPT !.kind = "committed", !.pc = "parent", !.onBranch = TRUE]]
  /\ UNCHANGED <<lease, db, deposed, log, mem, fork, disk, step, tx, pass, answers, bounds>>

(* The entry a merge of the overlay b writes over entry e. *)
Merge(e, b) == [e EXCEPT !.status = "committed", !.merged = TRUE, !.steps = b.steps, !.late = FALSE]

(* With the parent's lock too: the merge or its conflict report is appended. *)
CommitAppend(n) ==
  /\ op[n].pc = "parent" /\ op[n].kind = "committed" /\ ParentFree(n)
  /\ mem[n].status = "open"
  /\ \/ Appended(n, Merge(mem[n], branch[n])) /\ UNCHANGED faults
     \/ /\ faults < MaxFault
        /\ Appended(n, mem[n])
        /\ faults' = faults + 1
  /\ op' = [op EXCEPT ![n].pc = "fence"]
  /\ UNCHANGED <<lease, db, deposed, fork, disk, branch, step, tx, pass, answers, nextStep>>

(* The saga has ended: a repeated commit is told of the merge it finds, a   *)
(* commit or an ending of a saga that ended otherwise is refused.           *)
EndedAlready(n) ==
  /\ op[n].pc = "parent" /\ ParentFree(n)
  /\ mem[n].status # "open"
  /\ retold' = retold \cup ({op[n].kind} \cap {mem[n].status} \cap {"committed"})
  /\ op' = [op EXCEPT ![n] = NoOp]
  /\ UNCHANGED <<lease, db, deposed, log, mem, fork, disk, branch, step, tx, pass, acked, told, bounds>>

(* The fence of append_one gates the answer.  A repeated commit call that   *)
(* waits for the same locks runs next, on the same values, fence or not.    *)
OpFence(n) ==
  /\ op[n].pc = "fence"
  /\ retold' \in {retold, retold \cup ({op[n].kind} \cap {mem[n].status} \cap {"committed"})}
  /\ IF Owns(n)
     THEN /\ told' = told \cup ({mem[n].status} \cap Terminal)
          /\ op' = [op EXCEPT ![n] = NoOp]
          /\ UNCHANGED <<db, deposed, mem, branch, step, tx, pass>>
     ELSE Depose(n) /\ UNCHANGED told
  /\ UNCHANGED <<lease, log, fork, disk, acked, bounds>>

-----------------------------------------------------------------------------
(* Abort and expiry *)

(* Mutant: the branch is not asked for. *)
IntentBlind(fix, exists) == fix

(* A registered compensation is skipped where the branch never was. *)
IntentOf(fix, exists) == IF fix = "registered" /\ ~exists THEN "skip" ELSE fix

(* saga_finish up to the locks: the branch's only for a registered compensation. *)
Finish(n, status, fix) ==
  LET intent == IntentOf(fix, branch_exists(n))
      locks == intent = "registered"
  IN
  /\ db[n] = "hosted" /\ op[n] = NoOp
  /\ IF locks THEN BranchFree(n) /\ saga_branch(n) ELSE UNCHANGED branch
  /\ op' = [op EXCEPT ![n] = [NoOp EXCEPT !.kind = status, !.pc = "parent", !.fix = intent,
                                          !.onBranch = locks]]
  /\ UNCHANGED <<lease, db, deposed, log, mem, fork, disk, step, tx, answers, bounds>>

(* With Intent::Replace the call takes the parent's lock alone and writes   *)
(* the caller's data: that is FlipStatus.                                   *)
Abort(n) == Finish(n, "aborted", "registered") /\ UNCHANGED pass

(* Mutant: the sweep leaves a saga without a branch to the liveness pass. *)
SweepBranched(n) ==
  /\ ~deposed[n] /\ ~pass[n] /\ mem[n].status = "open" /\ mem[n].late /\ branch_exists(n)
  /\ Finish(n, "expired", "registered") /\ UNCHANGED pass

(* The sweep, for an entry overdue in the value it scanned. *)
SweepExpire(n) ==
  /\ ~deposed[n] /\ ~pass[n] /\ mem[n].status = "open" /\ mem[n].late
  /\ Finish(n, "expired", "registered") /\ UNCHANGED pass

(* expire_branchless_sagas_on, once per hosting. *)
LivenessPass(n) ==
  /\ pass[n] /\ db[n] = "hosted" /\ op[n] = NoOp
  /\ pass' = [pass EXCEPT ![n] = FALSE]
  /\ IF mem[n].status = "open" /\ ~branch_exists(n)
     THEN Finish(n, "expired", "skip")
     ELSE UNCHANGED <<lease, db, deposed, log, mem, fork, disk, branch, step, tx, op, answers, bounds>>

(* The flip with its compensation, whose data validates or not: an abort    *)
(* then fails, an expiry goes on without it.                                *)
FinishAppend(n) ==
  /\ op[n].pc = "parent" /\ op[n].kind \in {"aborted", "expired"} /\ ParentFree(n)
  /\ mem[n].status = "open"
  /\ \E valid \in BOOLEAN :
       IF op[n].kind = "aborted" /\ op[n].fix # "skip" /\ ~valid
       THEN /\ faults < MaxFault
            /\ faults' = faults + 1
            /\ op' = [op EXCEPT ![n] = NoOp]
            /\ UNCHANGED <<log, mem>>
       ELSE /\ Appended(n, [mem[n] EXCEPT !.status = op[n].kind, !.late = FALSE,
                                          !.comp = valid /\ op[n].fix = "registered"])
            /\ op' = [op EXCEPT ![n].pc = "fence"]
            /\ UNCHANGED faults
  /\ UNCHANGED <<lease, db, deposed, fork, disk, branch, step, tx, pass, answers, nextStep>>

(* Mutant: an overdue saga counts as finished. *)
DiscardOverdue(n) ==
  /\ db[n] = "hosted" /\ Owns(n) /\ ~pass[n] /\ ParentFree(n) /\ step[n] = NoStep /\ op[n] = NoOp
  /\ \A m \in Node \ {n} : db[m] = "none"
  /\ mem[n].status \in Terminal \/ mem[n].late
  /\ branch_exists(n)
  /\ branch' = [branch EXCEPT ![n] = NoBranch]
  /\ root' = FALSE /\ blog' = {} /\ bterm' = 0
  /\ UNCHANGED <<lease, db, deposed, log, mem, fork, step, tx, op, pass, answers, bounds>>

(* discard_branch, past a retention window that outlasts a step in progress *)
(* and the time a node takes to find its lease gone.                        *)
DiscardBranch(n) ==
  /\ db[n] = "hosted" /\ Owns(n) /\ ~pass[n] /\ ParentFree(n) /\ step[n] = NoStep /\ op[n] = NoOp
  /\ \A m \in Node \ {n} : db[m] = "none"
  /\ mem[n].status \in Terminal /\ branch_exists(n)
  /\ branch' = [branch EXCEPT ![n] = NoBranch]
  /\ root' = FALSE /\ blog' = {} /\ bterm' = 0
  /\ UNCHANGED <<lease, db, deposed, log, mem, fork, step, tx, op, pass, answers, bounds>>

-----------------------------------------------------------------------------
(* A fork inherits the entry and not the branch.  Its liveness pass, its    *)
(* sweep or an abort by hand ends the entry, whichever is first.            *)

ForkDb ==
  /\ faults < MaxFault /\ reg.status = "open"
  /\ faults' = faults + 1
  /\ fork' = IF IntentOf("registered", FALSE) = "registered" THEN "compensated" ELSE "ended"
  /\ UNCHANGED <<lease, db, deposed, log, mem, disk, branch, step, tx, op, pass, answers, nextStep>>

-----------------------------------------------------------------------------
Next ==
  \/ \E n \in Node :
       \/ Acquire(n) \/ Open(n) \/ RenewLost(n) \/ Crash(n)
       \/ OpenSaga(n) \/ OtherTx(n) \/ ExtendSaga(n)
       \/ \E s \in {"committed", "aborted"} : FlipStatus(n, s)
       \/ TxFence(n) \/ EnsureBranchMeta(n)
       \/ StepPrepare(n) \/ StepAppend(n) \/ StepFence(n)
       \/ CommitLock(n) \/ CommitAppend(n) \/ EndedAlready(n) \/ OpFence(n)
       \/ Abort(n) \/ SweepExpire(n) \/ LivenessPass(n) \/ FinishAppend(n) \/ DiscardBranch(n)
  \/ Expires \/ ForkDb

Spec == Init /\ [][Next]_vars

(* What goes on by itself: a standby polls for the lease, a taken database  *)
(* opens and sweeps its sagas, the calls in progress end.                   *)
Continue(n) ==
  \/ db[owner] = "none" /\ Acquire(n)
  \/ Open(n) \/ RenewLost(n) \/ LivenessPass(n) \/ SweepExpire(n)
  \/ TxFence(n) \/ EnsureBranchMeta(n) \/ StepAppend(n) \/ StepFence(n)
  \/ CommitAppend(n) \/ FinishAppend(n) \/ EndedAlready(n) \/ OpFence(n)

FairSpec == Spec /\ \A n \in Node : WF_vars(Continue(n))

-----------------------------------------------------------------------------
(* Properties *)

(* Types; a repeated commit is told of a terminal status only.              *)
TypeOK ==
  /\ ha \in BOOLEAN /\ owner \in Node /\ term \in 1 .. MaxTerm[ha]
  /\ db \in [Node -> {"none", "opening", "hosted"}]
  /\ held \in [Node -> Nat]
  /\ deposed \in [Node -> BOOLEAN] /\ pass \in [Node -> BOOLEAN]
  /\ reg \in Entry /\ wrote \in Nat \ {0} /\ mem \in [Node -> Entry]
  /\ fork \in {"none", "ended", "compensated"}
  /\ root \in BOOLEAN /\ blog \subseteq Steps /\ bterm \in Nat
  /\ branch \in [Node -> Overlay] /\ step \in [Node -> StepState] /\ op \in [Node -> OpState]
  /\ tx \in [Node -> {"idle", "opened", "written", "root"}]
  /\ acked \subseteq Steps /\ told \subseteq Terminal /\ retold \subseteq Terminal
  /\ nextStep \in 1 .. MaxStep + 1 /\ faults \in 0 .. MaxFault

(* saga_commit freezes the branch before it reads it: a merge that was      *)
(* acknowledged carries every step that was acknowledged to a client.       *)
MergeCarriesAcked == "committed" \in told /\ reg.merged => acked \subseteq reg.steps

(* The registry a node that owns the database serves shows no merge that    *)
(* left an acknowledged step behind.                                        *)
ServedMergeComplete ==
  \A n \in Node : db[n] = "hosted" /\ Owns(n) /\ mem[n].merged => acked \subseteq mem[n].steps

(* Until the saga ends, the branch log holds every acknowledged step for    *)
(* whichever node opens the branch next.                                    *)
AckedStepsKept == reg.status = "open" => acked \subseteq blog

(* The status a call was told it wrote is the status of the entry for good: *)
(* append_one and the flush answer after the fence only.  The states are    *)
(* well typed.                                                              *)
EndsTold == TypeOK /\ \A s \in told : reg.status = s

(* A repeated saga_commit answers committed only when the merge happened.   *)
RetryTold == \A s \in retold : reg.status = s

(* A registered compensation is applied on one timeline at most: by the     *)
(* database that ran the saga, never by a fork that inherited the entry,    *)
(* and never beside a merge.                                                *)
CompensatedOnce == ~(reg.comp /\ fork = "compensated") /\ ~(reg.comp /\ reg.merged)

(* An overdue saga in the registry of the database's owner ends, or its     *)
(* deadline is extended: the sweep gets to it.                              *)
Overdue == \E n \in Node : db[n] = "hosted" /\ Owns(n) /\ mem[n].status = "open" /\ mem[n].late
OverdueEnds == Overdue ~> ~Overdue

(* A database whose lease a node has found lost does not stay in its hosted *)
(* set: depose returns it to standby.                                       *)
ReturnsToStandby == \A n \in Node : deposed[n] /\ db[n] = "hosted" ~> db[n] # "hosted"
=============================================================================
