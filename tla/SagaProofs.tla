----------------------------- MODULE SagaProofs -----------------------------
(***************************************************************************)
(* Proofs about module Saga, for any set of nodes and any bounds.          *)
(***************************************************************************)
EXTENDS Saga, TLAPS

(* Leaves are for Zenon unless they say otherwise. *)
USE ZenonT(60)

-----------------------------------------------------------------------------
(* The inductive invariant *)

(* A step in progress has an identity. *)
StepIds == \A n \in Node : step[n].pc # "idle" => step[n].id \in Steps

(***************************************************************************)
(* The owner holds the newest term, no two nodes hold the same one, and    *)
(* nobody has written under a term that was not granted.                   *)
(***************************************************************************)
Terms ==
  /\ held[owner] = term /\ wrote <= term
  /\ \A n \in Node : n # owner => held[n] < term
  /\ \A m, n \in Node : m # n /\ held[m] = held[n] => held[m] = 0
  /\ \A n \in Node : db[n] # "none" => held[n] # 0

(* Calls are in progress, and a DbState deposed, at a node that hosts the  *)
(* database only; the owner is not deposed.                                *)
Hosting ==
  /\ \A n \in Node : db[n] # "hosted" => tx[n] = NoTx /\ op[n] = NoOp /\ ~deposed[n]
  /\ ~deposed[owner]

(* Node n has appended, and its fence has not answered yet. *)
Unfenced(n) == tx[n] \in {"opened", "written"} \/ op[n].pc = "fence"

(***************************************************************************)
(* The registry in the log is the one of the node that wrote last, when    *)
(* that node hosts the database still; a node that is opening it has not   *)
(* written, one that waits for a fence has.                                *)
(***************************************************************************)
Written ==
  /\ \A n \in Node : db[n] = "hosted" /\ held[n] = wrote => mem[n] = reg
  /\ \A n \in Node : db[n] = "opening" => held[n] # wrote
  /\ \A n \in Node : Unfenced(n) => held[n] <= wrote

(* An entry is merged or compensated once it ends, and not both. *)
Sound(e) ==
  /\ e.comp \/ e.merged => e.status \in Terminal
  /\ ~(e.comp /\ e.merged)

Entries == Sound(reg) /\ (\A n \in Node : Sound(mem[n])) /\ fork # "compensated"

(* An append of node n would be read. *)
Writes(n) == db[n] = "hosted" /\ ~(held[n] < wrote)

(* Once a caller was told of an end, every node whose append would be read *)
(* has the entry that the log has.                                         *)
Ended ==
  \A s \in told : /\ s \in Terminal /\ reg.status = s
                  /\ \A n \in Node : Writes(n) => mem[n] = reg

Parts == StepIds /\ Terms /\ Hosting /\ Written /\ Entries /\ Ended
SInv == TypeOK /\ Parts

-----------------------------------------------------------------------------
(* Types *)

LEMMA MaxOf ==
  ASSUME NEW a \in Nat, NEW b \in Nat
  PROVE  Max({a, b}) = IF a < b THEN b ELSE a
BY SMTT(60) DEF Max

LEMMA Constants ==
  ASSUME NEW h \in BOOLEAN
  PROVE  MaxTerm[h] \in Nat \ {0} /\ MaxStep \in Nat /\ MaxFault \in Nat
BY SagaAssumption

LEMMA EntryTypes ==
  ASSUME NEW e \in Entry
  PROVE  /\ \A s \in {"open"} \cup Terminal : [e EXCEPT !.status = s, !.late = FALSE] \in Entry
         /\ \A b \in BOOLEAN : [e EXCEPT !.late = b] \in Entry
         /\ \A s \in Terminal, b \in BOOLEAN : [e EXCEPT !.status = s, !.late = FALSE, !.comp = b] \in Entry
BY DEF Entry, Terminal

LEMMA AbsentTypes == Absent \in Entry /\ [Absent EXCEPT !.status = "open"] \in Entry
BY DEF Absent, Entry, Terminal

(* A function whose value at one argument is replaced. *)
LEMMA Update ==
  ASSUME NEW S, NEW f \in [Node -> S], NEW n \in Node, NEW v \in S
  PROVE  /\ [f EXCEPT ![n] = v] \in [Node -> S]
         /\ \A m \in Node : [f EXCEPT ![n] = v][m] = IF m = n THEN v ELSE f[m]
OBVIOUS

LEMMA NoneTypes == NoBranch \in Overlay /\ NoStep \in StepState /\ NoOp \in OpState
<1>1. 0 \in Nat /\ 0 \in 0 .. MaxStep
  BY SagaAssumption, SMTT(60)
<1> QED  BY <1>1 DEF Overlay, StepState, OpState, NoBranch, NoStep, NoOp

LEMMA InitType == Init => TypeOK
<1> SUFFICES ASSUME Init PROVE TypeOK
  OBVIOUS
<1>1. ha \in BOOLEAN
  BY SagaAssumption DEF Init
<1>2. 1 \in 1 .. MaxTerm[ha] /\ 1 \in 1 .. MaxStep + 1 /\ 0 \in 0 .. MaxFault
  BY <1>1, Constants, SMTT(60)
<1>3. held \in [Node -> Nat] /\ owner \in Node
  BY SagaAssumption, SMTT(60) DEF Init
<1>4. db \in [Node -> {"none", "opening", "hosted"}]
  BY DEF Init
<1>5. 0 \in Nat /\ 1 \in Nat \ {0}
  BY SMTT(60)
<1> QED
  BY <1>1, <1>2, <1>3, <1>4, <1>5, NoneTypes, AbsentTypes DEF Init, TypeOK, NoTx

(* What a node that loses the database forgets. *)
Memory ==
  /\ db \in [Node -> {"none", "opening", "hosted"}]
  /\ deposed \in [Node -> BOOLEAN] /\ pass \in [Node -> BOOLEAN]
  /\ mem \in [Node -> Entry] /\ branch \in [Node -> Overlay] /\ step \in [Node -> StepState]
  /\ tx \in [Node -> {"idle", "opened", "written", "root"}] /\ op \in [Node -> OpState]

LEMMA ForgetType ==
  ASSUME TypeOK, NEW n \in Node, Forget(n)
  PROVE  Memory'
BY NoneTypes, AbsentTypes, Update DEF TypeOK, Forget, Memory, NoTx

LEMMA DeposeType ==
  ASSUME TypeOK, NEW n \in Node, Depose(n)
  PROVE  Memory'
<1>1. CASE ~ha
  BY <1>1, ForgetType DEF Depose
<1>2. CASE ha
  <2>1. mem[n].status \in {"absent", "open"} \cup Terminal
    BY DEF TypeOK, Entry
  <2>2. \A b \in Overlay : [b EXCEPT !.saw = mem[n].status] \in Overlay
    BY <2>1 DEF Overlay
  <2>3. PICK b \in Overlay : branch' = [branch EXCEPT ![n] = b]
    <3>1. branch[n] \in Overlay
      BY DEF TypeOK
    <3>2. branch' = [branch EXCEPT ![n] = IF branch[n] = NoBranch THEN branch[n]
                                          ELSE [branch[n] EXCEPT !.saw = mem[n].status]]
      BY <1>2 DEF Depose
    <3> QED  BY <2>2, <3>1, <3>2
  <2>4. branch' \in [Node -> Overlay]
    BY <2>3 DEF TypeOK
  <2>5. /\ db' \in [Node -> {"none", "opening", "hosted"}] /\ deposed' \in [Node -> BOOLEAN]
        /\ pass' \in [Node -> BOOLEAN] /\ tx' \in [Node -> {"idle", "opened", "written", "root"}]
    BY <1>2 DEF TypeOK, Depose, NoTx
  <2>6. mem' \in [Node -> Entry] /\ op' \in [Node -> OpState] /\ step' \in [Node -> StepState]
    <3>1. mem' = [mem EXCEPT ![n] = Absent] /\ op' = [op EXCEPT ![n] = NoOp] /\ step' = step
      BY <1>2 DEF Depose
    <3>2. mem \in [Node -> Entry] /\ op \in [Node -> OpState] /\ step \in [Node -> StepState]
      BY DEF TypeOK
    <3> QED  BY <3>1, <3>2, NoneTypes, AbsentTypes
  <2> QED  BY <2>4, <2>5, <2>6 DEF Memory
<1> QED  BY <1>1, <1>2

(* The append of a well-formed entry. *)
LEMMA AppendedFacts ==
  ASSUME TypeOK, NEW n \in Node, NEW e \in Entry, Appended(n, e)
  PROVE  /\ mem' = [mem EXCEPT ![n] = e] /\ mem' \in [Node -> Entry] /\ reg' \in Entry
         /\ wrote' \in Nat \ {0}
         /\ held[n] < wrote => reg' = reg /\ wrote' = wrote
         /\ ~(held[n] < wrote) => reg' = e /\ wrote' = held[n]
<1>1. held[n] \in Nat /\ wrote \in Nat \ {0} /\ mem \in [Node -> Entry] /\ reg \in Entry
  BY DEF TypeOK
<1>2. wrote' = IF wrote < held[n] THEN held[n] ELSE wrote
  <2>1. wrote \in Nat
    BY <1>1
  <2> QED  BY <1>1, <2>1, MaxOf DEF Appended
<1>3. /\ held[n] < wrote => wrote' = wrote
      /\ ~(held[n] < wrote) => wrote' = held[n]
      /\ wrote' \in Nat \ {0}
  BY <1>1, <1>2, SMTT(60)
<1> QED  BY <1>1, <1>3 DEF Appended

LEMMA OverlayType ==
  ASSUME TypeOK, NEW n \in Node, saga_branch(n)
  PROVE  branch' \in [Node -> Overlay]
<1>1. [steps |-> blog, term |-> held[n], saw |-> "absent"] \in Overlay
  BY DEF TypeOK, Overlay
<1>2. branch \in [Node -> Overlay]
  BY DEF TypeOK
<1> QED  BY <1>1, <1>2 DEF saga_branch

LEMMA OpType ==
  /\ \A s \in Terminal, p \in {"parent", "fence"}, f \in {"none", "registered", "skip"}, b \in BOOLEAN :
       [NoOp EXCEPT !.kind = s, !.pc = p, !.fix = f, !.onBranch = b] \in OpState
  /\ [NoOp EXCEPT !.kind = "committed", !.pc = "parent", !.onBranch = TRUE] \in OpState
  /\ \A o \in OpState : [o EXCEPT !.pc = "fence"] \in OpState
BY DEF NoOp, OpState, Terminal

LEMMA FinishType ==
  ASSUME TypeOK, NEW n \in Node, NEW s \in Terminal, NEW f \in {"registered", "skip"}, Finish(n, s, f)
  PROVE  /\ branch' \in [Node -> Overlay] /\ op' \in [Node -> OpState]
<1>1. PICK o \in OpState : op' = [op EXCEPT ![n] = o]
  BY OpType DEF Finish, IntentOf
<1>2. branch' \in [Node -> Overlay]
  BY OverlayType DEF TypeOK, Finish
<1> QED  BY <1>1, <1>2, Update DEF TypeOK

LEMMA NextType == TypeOK /\ StepIds /\ [Next]_vars => TypeOK'
<1> SUFFICES ASSUME TypeOK, StepIds, [Next]_vars PROVE TypeOK'
  OBVIOUS
<1> USE DEF TypeOK, Memory, lease, log, disk, answers, bounds
<1>0. ha \in BOOLEAN /\ MaxTerm[ha] \in Nat \ {0} /\ MaxStep \in Nat /\ MaxFault \in Nat
  BY Constants
<1>1. ASSUME NEW n \in Node, Acquire(n) PROVE TypeOK'
  <2>1. term' \in 1 .. MaxTerm[ha] /\ term + 1 \in Nat
    BY <1>0, <1>1, SMTT(60) DEF Acquire
  <2> QED  BY <1>1, <2>1 DEF Acquire
<1>2. ASSUME NEW n \in Node, Open(n) PROVE TypeOK'
  BY <1>2 DEF Open
<1>3. ASSUME NEW n \in Node, RenewLost(n) PROVE TypeOK'
  BY <1>3, DeposeType DEF RenewLost
<1>4. ASSUME NEW n \in Node, Crash(n) PROVE TypeOK'
  <2>1. faults' \in 0 .. MaxFault
    BY <1>0, <1>4, SMTT(60) DEF Crash
  <2> QED  BY <1>4, <2>1, ForgetType DEF Crash
<1>5. CASE Expires
  BY <1>5, EntryTypes DEF Expires
<1>6. ASSUME NEW n \in Node, NEW e \in Entry, Transact(n, e) PROVE TypeOK'
  BY <1>6, AppendedFacts DEF Transact
<1>7. ASSUME NEW n \in Node, TxFence(n) PROVE TypeOK'
  BY <1>7, DeposeType DEF TxFence, NoTx
<1>8. ASSUME NEW n \in Node, EnsureBranchMeta(n) PROVE TypeOK'
  <2>1. faults' \in 0 .. MaxFault
    BY <1>0, <1>8, SMTT(60) DEF EnsureBranchMeta
  <2> QED  BY <1>8, <2>1 DEF EnsureBranchMeta, NoTx
<1>9. ASSUME NEW n \in Node, StepPrepare(n) PROVE TypeOK'
  <2>1. nextStep' \in 1 .. MaxStep + 1 /\ nextStep \in 0 .. MaxStep
    BY <1>0, <1>9, SMTT(60) DEF StepPrepare
  <2>2. [id |-> nextStep, pc |-> "append"] \in StepState
    BY <2>1 DEF StepState
  <2>3. step' \in [Node -> StepState]
    BY <1>9, <2>2 DEF StepPrepare
  <2>4. branch' \in [Node -> Overlay]
    BY <1>9, OverlayType DEF StepPrepare
  <2> QED  BY <1>9, <2>1, <2>3, <2>4 DEF StepPrepare
<1>10. ASSUME NEW n \in Node, StepAppend(n) PROVE TypeOK'
  <2>1. step[n].id \in Steps
    BY <1>10 DEF StepAppend, StepIds
  <2>2. PICK b \in Overlay : /\ branch' = [branch EXCEPT ![n] = b] /\ b.steps \subseteq Steps
    <3>1. branch[n] \in Overlay
      OBVIOUS
    <3>2. [branch[n] EXCEPT !.steps = @ \cup {step[n].id}] \in Overlay
      BY <2>1, <3>1 DEF Overlay
    <3>3. branch' = [branch EXCEPT ![n] = [branch[n] EXCEPT !.steps = @ \cup {step[n].id}]]
      BY <1>10 DEF StepAppend
    <3>4. \A x \in Overlay : x.steps \subseteq Steps
      BY DEF Overlay
    <3> QED  BY <3>2, <3>3, <3>4
  <2>3. branch' \in [Node -> Overlay] /\ branch'[n].steps \subseteq Steps
    BY <2>2
  <2>4. bterm' \in Nat
    <3>1. bterm \in Nat /\ branch[n].term \in Nat
      BY DEF Overlay
    <3>2. bterm' = Max({bterm, branch[n].term})
      BY <1>10 DEF StepAppend
    <3> HIDE DEF TypeOK
    <3> QED  BY <3>1, <3>2, MaxOf
  <2>5. step' \in [Node -> StepState] /\ blog' \subseteq Steps
    BY <1>10, <2>3 DEF StepAppend, StepState
  <2> QED  BY <1>10, <2>3, <2>4, <2>5 DEF StepAppend
<1>11. ASSUME NEW n \in Node, StepFence(n) PROVE TypeOK'
  <2>1. step[n].id \in Steps
    BY <1>11 DEF StepFence, StepIds
  <2>2. CASE Live(n) /\ Owns(n)
    BY <1>11, <2>1, <2>2, NoneTypes DEF StepFence
  <2>3. CASE ~(Live(n) /\ Owns(n)) /\ ~ha
    BY <1>11, <2>3, ForgetType DEF StepFence
  <2>4. CASE ~(Live(n) /\ Owns(n)) /\ ha
    <3>1. deposed' \in [Node -> BOOLEAN]
      BY <1>11, <2>4 DEF StepFence, Live
    <3> QED  BY <1>11, <2>4, <3>1, NoneTypes DEF StepFence
  <2> QED  BY <2>2, <2>3, <2>4
<1>12. ASSUME NEW n \in Node, CommitLock(n) PROVE TypeOK'
  <2>1. op' \in [Node -> OpState]
    BY <1>12, OpType DEF CommitLock
  <2>2. branch' \in [Node -> Overlay]
    BY <1>12, OverlayType DEF CommitLock
  <2> QED  BY <1>12, <2>1, <2>2 DEF CommitLock
<1>13. ASSUME NEW n \in Node, CommitAppend(n) PROVE TypeOK'
  <2>1. Merge(mem[n], branch[n]) \in Entry /\ mem[n] \in Entry
    <3>1. mem[n] \in Entry /\ branch[n] \in Overlay
      OBVIOUS
    <3>2. \A e \in Entry, b \in Overlay : Merge(e, b) \in Entry
      BY DEF Merge, Entry, Overlay, Terminal
    <3> QED  BY <3>1, <3>2
  <2>2. faults' \in 0 .. MaxFault
    BY <1>0, <1>13, SMTT(60) DEF CommitAppend
  <2>3. mem' \in [Node -> Entry] /\ reg' \in Entry /\ wrote' \in Nat \ {0}
    BY <1>13, <2>1, AppendedFacts DEF CommitAppend
  <2>4. op' \in [Node -> OpState]
    BY <1>13, OpType DEF CommitAppend
  <2> QED  BY <1>13, <2>2, <2>3, <2>4 DEF CommitAppend
<1>14. ASSUME NEW n \in Node, EndedAlready(n) PROVE TypeOK'
  BY <1>14, NoneTypes DEF EndedAlready, Terminal
<1>15. ASSUME NEW n \in Node, OpFence(n) PROVE TypeOK'
  <2>1. retold' \subseteq Terminal
    BY <1>15 DEF OpFence, Terminal
  <2>2. CASE Owns(n)
    <3>1. told' \subseteq Terminal /\ op' \in [Node -> OpState]
      BY <1>15, <2>2, NoneTypes DEF OpFence
    <3> QED  BY <1>15, <2>1, <2>2, <3>1 DEF OpFence
  <2>3. CASE ~Owns(n)
    BY <1>15, <2>1, <2>3, DeposeType DEF OpFence
  <2> QED  BY <2>2, <2>3
<1>16. ASSUME NEW n \in Node, NEW s \in Terminal, NEW f \in {"registered", "skip"},
              Finish(n, s, f), pass' \in [Node -> BOOLEAN]
       PROVE TypeOK'
  BY <1>16, FinishType DEF Finish
<1>17. ASSUME NEW n \in Node, Abort(n) \/ SweepExpire(n) PROVE TypeOK'
  BY <1>16, <1>17 DEF Abort, SweepExpire, Terminal
<1>18. ASSUME NEW n \in Node, LivenessPass(n) PROVE TypeOK'
  <2>1. pass' \in [Node -> BOOLEAN]
    BY <1>18 DEF LivenessPass
  <2>2. CASE Finish(n, "expired", "skip")
    BY <1>16, <2>1, <2>2 DEF Terminal
  <2>3. CASE ~Finish(n, "expired", "skip")
    BY <1>18, <2>1, <2>3 DEF LivenessPass
  <2> QED  BY <2>2, <2>3
<1>19. ASSUME NEW n \in Node, FinishAppend(n) PROVE TypeOK'
  <2>1. faults' \in 0 .. MaxFault
    BY <1>0, <1>19, SMTT(60) DEF FinishAppend
  <2>2. mem' \in [Node -> Entry] /\ reg' \in Entry /\ wrote' \in Nat \ {0}
    BY <1>19, EntryTypes, AppendedFacts DEF FinishAppend, Terminal
  <2>3. op' \in [Node -> OpState]
    <3>1. op[n] \in OpState
      OBVIOUS
    <3>2. \/ op' = [op EXCEPT ![n] = NoOp]
          \/ op' = [op EXCEPT ![n] = [op[n] EXCEPT !.pc = "fence"]]
      BY <1>19 DEF FinishAppend
    <3> QED  BY <3>1, <3>2, NoneTypes, OpType
  <2> QED  BY <1>19, <2>1, <2>2, <2>3 DEF FinishAppend
<1>20. ASSUME NEW n \in Node, DiscardBranch(n) PROVE TypeOK'
  <2>1. 0 \in Nat
    OBVIOUS
  <2> QED  BY <1>20, <2>1, NoneTypes DEF DiscardBranch
<1>21. CASE ForkDb
  <2>1. faults' \in 0 .. MaxFault
    BY <1>0, <1>21, SMTT(60) DEF ForkDb
  <2> QED  BY <1>21, <2>1 DEF ForkDb
<1>22. CASE UNCHANGED vars
  BY <1>22 DEF vars
<1>23. ASSUME NEW n \in Node, OpenSaga(n) \/ OtherTx(n) \/ ExtendSaga(n)
               \/ \E s \in {"committed", "aborted"} : FlipStatus(n, s)
       PROVE TypeOK'
  BY <1>6, <1>23, EntryTypes, AbsentTypes DEF OpenSaga, OtherTx, ExtendSaga, FlipStatus, Terminal
<1> HIDE DEF TypeOK
<1> QED
  BY <1>1, <1>2, <1>3, <1>4, <1>5, <1>7, <1>8, <1>9, <1>10, <1>11, <1>12, <1>13, <1>14,
     <1>15, <1>17, <1>18, <1>19, <1>20, <1>21, <1>22, <1>23 DEF Next
-----------------------------------------------------------------------------
(* Steps *)

LEMMA Idle ==
  /\ NoTx \notin {"opened", "written", "root"}
  /\ NoOp.pc = "idle" /\ NoOp.kind = "none" /\ ~NoOp.onBranch
  /\ NoStep.pc = "idle" /\ NoBranch.term = 0
BY DEF NoTx, NoOp, NoStep, NoBranch

LEMMA Nums ==
  ASSUME TypeOK
  PROVE  term \in Nat /\ wrote \in Nat /\ \A n \in Node : held[n] \in Nat
<1>1. term \in Nat
  <2>1. ha \in BOOLEAN /\ term \in 1 .. MaxTerm[ha]
    BY DEF TypeOK
  <2> QED  BY <2>1, Constants, SMTT(60)
<1> QED  BY <1>1 DEF TypeOK

LEMMA Ordering ==
  ASSUME NEW a \in Nat, NEW b \in Nat, NEW c \in Nat
  PROVE  /\ a <= b <=> ~(b < a)
         /\ a < b => ~(a = b)
         /\ a <= b /\ b <= c => a <= c
         /\ a <= b /\ b <= a => a = b
         /\ a < b /\ b <= c => a < c
         /\ a <= b /\ b < c => a < c
         /\ a <= a
BY SMTT(60)

(* A node that hosts the database appends an entry: one of the parent's    *)
(* transactions, a merge, a conflict report or an ending.                  *)
LEMMA ParentWrite ==
  ASSUME SInv, NEW n \in Node, NEW e \in Entry, db[n] = "hosted", Appended(n, e), Sound(e),
         mem[n].status \in Terminal => e = mem[n],
         UNCHANGED <<lease, db, deposed, fork, told, step>>,
         \A m \in Node : m # n => tx'[m] = tx[m] /\ op'[m] = op[m]
  PROVE  Parts'
<1> USE DEF SInv, Parts
<1>1. /\ mem' = [mem EXCEPT ![n] = e] /\ wrote' \in Nat \ {0}
      /\ held[n] < wrote => reg' = reg /\ wrote' = wrote
      /\ ~(held[n] < wrote) => reg' = e /\ wrote' = held[n]
  BY AppendedFacts
<1>2. \A m \in Node : mem'[m] = IF m = n THEN e ELSE mem[m]
  BY <1>1 DEF TypeOK
<1>3. term \in Nat /\ wrote \in Nat /\ \A m \in Node : held[m] \in Nat
  BY Nums
<1>4. /\ ha' = ha /\ owner' = owner /\ term' = term /\ held' = held /\ db' = db
      /\ deposed' = deposed /\ fork' = fork /\ told' = told /\ step' = step
  BY DEF lease
<1>5. held[n] <= term
  <2>1. held[n] = term \/ held[n] < term
    BY DEF Terms
  <2> QED  BY <1>3, <2>1, SMTT(60)
<1>6. StepIds' /\ Hosting'
  BY <1>4 DEF StepIds, Hosting
<1>7. Terms'
  BY <1>1, <1>4, <1>5 DEF Terms
<1>8. Entries'
  BY <1>1, <1>2, <1>4 DEF Entries
<1>9. CASE held[n] < wrote
  <2>1. held[n] # wrote /\ held[n] <= wrote
    BY <1>3, <1>9, SMTT(60)
  <2>2. \A m \in Node : Unfenced(m)' => held[m] <= wrote
    BY <2>1 DEF Written, Unfenced
  <2>3. Written'
    BY <1>1, <1>2, <1>4, <1>9, <2>1, <2>2 DEF Written
  <2>4. Ended'
    BY <1>1, <1>2, <1>4, <1>9 DEF Ended, Writes
  <2> QED  BY <1>6, <1>7, <1>8, <2>3, <2>4
<1>10. CASE ~(held[n] < wrote)
  <2>1. \A m \in Node : held[m] = held[n] => m = n
    BY DEF Terms
  <2>2. wrote <= held[n] /\ wrote' = held[n] /\ reg' = e
    BY <1>1, <1>3, <1>10, Ordering
  <2>3. ASSUME NEW m \in Node, Unfenced(m)' PROVE held[m] <= held[n]
    <3>1. CASE m = n
      BY <1>3, <3>1, Ordering
    <3>2. CASE m # n
      <4>1. held[m] <= wrote
        BY <2>3, <3>2 DEF Unfenced, Written
      <4> QED  BY <1>3, <2>2, <4>1, Ordering
    <3> QED  BY <3>1, <3>2
  <2>4. Written'
    BY <1>2, <1>4, <2>1, <2>2, <2>3 DEF Written
  <2>5. ASSUME NEW s \in told PROVE reg' = reg
    BY <1>10, <2>2, <2>5 DEF Ended, Writes
  <2>6. ASSUME NEW m \in Node, Writes(m)' PROVE Writes(m)
    BY <1>3, <1>4, <2>2, <2>6, Ordering DEF Writes
  <2>7. Ended'
    BY <1>2, <1>4, <2>2, <2>5, <2>6 DEF Ended
  <2> QED  BY <1>6, <1>7, <1>8, <2>4, <2>7
<1> QED  BY <1>9, <1>10

(* The registry and the lease stay as they are. *)
LEMMA QuietStep ==
  ASSUME SInv, UNCHANGED <<lease, db, deposed, log, mem, fork, told>>, StepIds', NEW n \in Node,
         \A m \in Node : m # n => tx'[m] = tx[m] /\ op'[m] = op[m],
         db[n] # "hosted" => tx'[n] = tx[n] /\ op'[n] = op[n],
         Unfenced(n)' => Unfenced(n)
  PROVE  Parts'
<1> USE DEF SInv, Parts
<1>1. /\ owner' = owner /\ term' = term /\ held' = held /\ db' = db
      /\ deposed' = deposed /\ reg' = reg /\ wrote' = wrote /\ mem' = mem
      /\ fork' = fork /\ told' = told
  BY DEF lease, log
<1>2. Terms' /\ Hosting' /\ Entries' /\ Ended'
  BY <1>1 DEF Terms, Hosting, Entries, Ended, Writes
<1>3. \A m \in Node : Unfenced(m)' => Unfenced(m)
  BY DEF Unfenced
<1>4. Written'
  BY <1>1, <1>3 DEF Written
<1> QED  BY <1>2, <1>4

(* A fence finds the lease, and the call answers. *)
LEMMA TellStep ==
  ASSUME SInv, NEW n \in Node, Unfenced(n), Owns(n),
         UNCHANGED <<lease, db, deposed, log, mem, fork, step>>,
         told' = told \cup ({mem[n].status} \cap Terminal),
         \A m \in Node : m # n => tx'[m] = tx[m] /\ op'[m] = op[m]
  PROVE  Parts'
<1> USE DEF SInv, Parts
<1>1. /\ owner' = owner /\ term' = term /\ held' = held /\ db' = db
      /\ deposed' = deposed /\ reg' = reg /\ wrote' = wrote /\ mem' = mem
      /\ fork' = fork /\ step' = step
  BY DEF lease, log
<1>2. term \in Nat /\ wrote \in Nat /\ \A m \in Node : held[m] \in Nat
  BY Nums
<1>3. db[n] = "hosted" /\ owner = n /\ held[n] = term
  BY Idle DEF Hosting, Unfenced, Owns, Terms
<1>4. held[n] = wrote
  <2>1. held[n] <= wrote /\ wrote <= term
    BY DEF Written, Terms
  <2> QED  BY <1>2, <1>3, <2>1, SMTT(60)
<1>5. mem[n] = reg
  BY <1>3, <1>4 DEF Written
<1>6. \A m \in Node : Writes(m) => m = n
  BY <1>2, <1>3, <1>4 DEF Writes, Terms
<1>7. Ended'
  BY <1>1, <1>5, <1>6 DEF Ended, Writes
<1>8. Terms' /\ Hosting' /\ Entries' /\ StepIds'
  BY <1>1, <1>3 DEF Terms, Hosting, Entries, StepIds
<1>9. Written'
  <2>1. \A m \in Node : Unfenced(m)' => held[m] <= wrote
    BY <1>2, <1>4, Ordering DEF Unfenced, Written
  <2> QED  BY <1>1, <2>1 DEF Written
<1> QED  BY <1>7, <1>8, <1>9

(* A node gives the database up, or crashes. *)
LEMMA LoseStep ==
  ASSUME SInv, NEW n \in Node, Depose(n) \/ Forget(n), UNCHANGED <<lease, log, fork, told>>
  PROVE  Parts'
<1> USE DEF SInv, Parts
<1>1. /\ owner' = owner /\ term' = term /\ held' = held
      /\ reg' = reg /\ wrote' = wrote /\ fork' = fork /\ told' = told
  BY DEF lease, log
<1>2. \A m \in Node :
        /\ db'[m] = IF m = n THEN "none" ELSE db[m]
        /\ deposed'[m] = IF m = n THEN FALSE ELSE deposed[m]
        /\ mem'[m] = IF m = n THEN Absent ELSE mem[m]
        /\ tx'[m] = IF m = n THEN NoTx ELSE tx[m]
        /\ op'[m] = IF m = n THEN NoOp ELSE op[m]
  BY DEF Depose, Forget, TypeOK
<1>3. StepIds'
  <2>1. step' = step \/ step' = [step EXCEPT ![n] = NoStep]
    BY DEF Depose, Forget
  <2>2. \A m \in Node : step'[m] = step[m] \/ step'[m] = NoStep
    BY <2>1 DEF TypeOK
  <2> QED  BY <2>2, Idle DEF StepIds
<1>4. Terms' /\ Hosting'
  BY <1>1, <1>2 DEF Terms, Hosting, TypeOK
<1>5. Entries'
  <2>1. Sound(Absent)
    BY DEF Sound, Absent
  <2> QED  BY <1>1, <1>2, <2>1 DEF Entries
<1>6. Written'
  <2>1. \A m \in Node : Unfenced(m)' => Unfenced(m)
    BY <1>2, Idle DEF Unfenced
  <2> QED  BY <1>1, <1>2, <2>1 DEF Written
<1>7. Ended'
  BY <1>1, <1>2 DEF Ended, Writes
<1> QED  BY <1>3, <1>4, <1>5, <1>6, <1>7

-----------------------------------------------------------------------------
(* Initially, and from step to step *)

LEMMA InitParts == Init => Parts
<1> SUFFICES ASSUME Init PROVE Parts
  OBVIOUS
<1> USE DEF Init
<1>1. StepIds /\ Hosting
  BY SagaAssumption DEF StepIds, Hosting, NoStep
<1>2. Terms
  BY SagaAssumption, SMTT(60) DEF Terms
<1>3. Written
  BY SMTT(60) DEF Written, Unfenced, NoTx, NoOp
<1>4. Entries
  BY DEF Entries, Sound, Absent
<1> QED  BY <1>1, <1>2, <1>3, <1>4 DEF Parts, Ended

LEMMA AcquireParts ==
  ASSUME SInv, NEW n \in Node, Acquire(n)
  PROVE  Parts'
<1> USE DEF SInv, Parts
<1>1. /\ owner' = n /\ term' = term + 1 /\ step' = step /\ tx' = tx /\ op' = op
      /\ reg' = reg /\ wrote' = wrote /\ mem' = mem /\ fork' = fork /\ told' = told
  BY DEF Acquire, log, answers
<1>2. \A m \in Node :
        /\ held'[m] = IF m = n THEN term + 1 ELSE held[m]
        /\ db'[m] = IF m = n THEN "opening" ELSE db[m]
        /\ deposed'[m] = IF m = n THEN FALSE ELSE deposed[m]
  BY DEF Acquire, TypeOK
<1>3. term \in Nat /\ wrote \in Nat /\ \A m \in Node : held[m] \in Nat
  BY Nums
<1>4. \A m \in Node : held[m] < term + 1 /\ held[m] # term + 1
  <2>1. \A m \in Node : held[m] = term \/ held[m] < term
    BY DEF Terms
  <2> QED  BY <1>3, <2>1, SMTT(60)
<1>5. wrote <= term + 1 /\ wrote # term + 1 /\ term + 1 # 0
  BY <1>3, SMTT(60) DEF Terms
<1>6. Terms'
  BY <1>1, <1>2, <1>4, <1>5 DEF Terms
<1>7. Hosting' /\ StepIds' /\ Entries'
  BY <1>1, <1>2 DEF Hosting, StepIds, Entries, Acquire
<1>8. ~Unfenced(n)
  BY Idle DEF Acquire, Hosting, Unfenced
<1>9. Written'
  BY <1>1, <1>2, <1>5, <1>8 DEF Written, Unfenced
<1>10. Ended'
  BY <1>1, <1>2 DEF Ended, Writes
<1> QED  BY <1>6, <1>7, <1>9, <1>10

LEMMA OpenParts ==
  ASSUME SInv, NEW n \in Node, Open(n)
  PROVE  Parts'
<1> USE DEF SInv, Parts
<1>1. /\ owner' = owner /\ term' = term /\ held' = held /\ step' = step /\ tx' = tx /\ op' = op
      /\ deposed' = deposed /\ reg' = reg /\ wrote' = wrote /\ fork' = fork /\ told' = told
  BY DEF Open, log, answers, lease
<1>2. \A m \in Node :
        /\ db'[m] = IF m = n THEN "hosted" ELSE db[m]
        /\ mem'[m] = IF m = n THEN reg ELSE mem[m]
  BY DEF Open, TypeOK
<1>3. Terms'
  BY <1>1, <1>2 DEF Terms, Open
<1>4. Hosting' /\ StepIds' /\ Entries'
  BY <1>1, <1>2 DEF Hosting, StepIds, Entries, Open
<1>5. Written'
  BY <1>1, <1>2 DEF Written, Unfenced
<1>6. Ended'
  BY <1>1, <1>2 DEF Ended, Writes
<1> QED  BY <1>3, <1>4, <1>5, <1>6

LEMMA ExpiresParts ==
  ASSUME SInv, Expires
  PROVE  Parts'
<1> USE DEF SInv, Parts
<1>1. /\ owner' = owner /\ term' = term /\ held' = held /\ step' = step /\ tx' = tx /\ op' = op
      /\ db' = db /\ deposed' = deposed /\ wrote' = wrote /\ fork' = fork /\ told' = told
  BY DEF Expires, answers, lease
<1> DEFINE Late(e) == [e EXCEPT !.late = (e.status = "open")]
<1>2. reg' = Late(reg) /\ \A m \in Node : mem'[m] = Late(mem[m])
  BY DEF Expires
<1>3. \A e \in Entry : /\ Late(e).status = e.status /\ Late(e).merged = e.merged
                        /\ Late(e).comp = e.comp
  BY DEF Entry
<1> HIDE DEF Late
<1>4. Terms' /\ Hosting' /\ StepIds'
  BY <1>1 DEF Terms, Hosting, StepIds
<1>5. \A e \in Entry : Sound(e) => Sound(Late(e))
  BY <1>3 DEF Sound
<1>6. Entries'
  BY <1>1, <1>2, <1>5 DEF Entries, TypeOK
<1>7. Written'
  BY <1>1, <1>2 DEF Written, Unfenced
<1>8. told = {}
  BY DEF Expires, Ended, Terminal
<1>9. Ended'
  BY <1>1, <1>8 DEF Ended
<1> QED  BY <1>4, <1>6, <1>7, <1>9

(* The entries that transactions, merges and endings write. *)
LEMMA NewEntries ==
  ASSUME NEW e \in Entry, Sound(e)
  PROVE  /\ e.status = "open" => \A b \in Overlay : Merge(e, b) \in Entry /\ Sound(Merge(e, b))
         /\ e.status = "open" => \A s \in Terminal, c \in BOOLEAN :
              Sound([e EXCEPT !.status = s, !.late = FALSE, !.comp = c])
         /\ Sound([Absent EXCEPT !.status = "open"])
         /\ Sound([e EXCEPT !.late = FALSE])
         /\ \A s \in Terminal : Sound([e EXCEPT !.status = s, !.late = FALSE])
<1>1. /\ Sound([Absent EXCEPT !.status = "open"]) /\ Sound([e EXCEPT !.late = FALSE])
      /\ \A s \in Terminal : Sound([e EXCEPT !.status = s, !.late = FALSE])
  BY DEF Sound, Entry, Absent
<1>2. ASSUME e.status = "open" PROVE ~e.comp /\ ~e.merged
  BY <1>2 DEF Sound, Terminal
<1>3. \A b \in Overlay : Merge(e, b) \in Entry
  BY DEF Merge, Entry, Overlay, Terminal
<1>4. ASSUME e.status = "open", NEW b \in Overlay PROVE Sound(Merge(e, b))
  <2>1. Merge(e, b).comp = e.comp /\ Merge(e, b).status = "committed"
    BY DEF Merge, Entry
  <2> QED  BY <1>2, <1>4, <2>1 DEF Sound, Terminal
<1>5. ASSUME e.status = "open", NEW s \in Terminal, NEW c \in BOOLEAN
      PROVE  Sound([e EXCEPT !.status = s, !.late = FALSE, !.comp = c])
  <2>1. /\ [e EXCEPT !.status = s, !.late = FALSE, !.comp = c].merged = e.merged
        /\ [e EXCEPT !.status = s, !.late = FALSE, !.comp = c].status = s
    BY DEF Entry
  <2> QED  BY <1>2, <1>5, <2>1 DEF Sound
<1> QED  BY <1>1, <1>3, <1>4, <1>5

LEMMA TransactParts ==
  ASSUME SInv, NEW n \in Node, NEW e \in Entry, Sound(e), Transact(n, e)
  PROVE  Parts'
<1>1. /\ db[n] = "hosted" /\ Appended(n, e) /\ UNCHANGED <<lease, db, deposed, fork, told, step>>
      /\ validate(mem[n], e) /\ op' = op
  BY DEF Transact, answers
<1>2. \A m \in Node : m # n => tx'[m] = tx[m] /\ op'[m] = op[m]
  BY DEF Transact, SInv, TypeOK
<1>3. mem[n].status \in Terminal => e = mem[n]
  BY <1>1 DEF validate, Terminal
<1> QED  BY <1>1, <1>2, <1>3, ParentWrite

LEMMA TxParts ==
  ASSUME SInv, NEW n \in Node,
         OpenSaga(n) \/ OtherTx(n) \/ ExtendSaga(n)
           \/ \E s \in {"committed", "aborted"} : FlipStatus(n, s)
  PROVE  Parts'
<1>1. mem[n] \in Entry /\ Sound(mem[n])
  BY DEF SInv, Parts, Entries, TypeOK
<1>2. CASE OpenSaga(n)
  BY <1>1, <1>2, NewEntries, AbsentTypes, TransactParts DEF OpenSaga
<1>3. CASE OtherTx(n)
  BY <1>1, <1>3, TransactParts DEF OtherTx
<1>4. CASE ExtendSaga(n)
  BY <1>1, <1>4, NewEntries, EntryTypes, TransactParts DEF ExtendSaga
<1>5. ASSUME NEW s \in {"committed", "aborted"}, FlipStatus(n, s) PROVE Parts'
  <2>1. s \in Terminal
    BY DEF Terminal
  <2> QED  BY <1>1, <1>5, <2>1, NewEntries, EntryTypes, TransactParts DEF FlipStatus
<1> QED  BY <1>2, <1>3, <1>4, <1>5

LEMMA CommitParts ==
  ASSUME SInv, NEW n \in Node, CommitAppend(n)
  PROVE  Parts'
<1>1. /\ UNCHANGED <<lease, db, deposed, fork, told, step>> /\ mem[n].status = "open"
      /\ tx' = tx /\ op[n].pc = "parent"
      /\ Appended(n, Merge(mem[n], branch[n])) \/ Appended(n, mem[n])
  BY DEF CommitAppend, answers
<1>2. \A m \in Node : m # n => tx'[m] = tx[m] /\ op'[m] = op[m]
  BY DEF CommitAppend, SInv, TypeOK
<1>3. db[n] = "hosted" /\ mem[n].status \notin Terminal
  BY <1>1, Idle DEF SInv, Parts, Hosting, Terminal
<1>4. mem[n] \in Entry /\ Sound(mem[n]) /\ branch[n] \in Overlay
  BY DEF SInv, Parts, Entries, TypeOK
<1>5. Merge(mem[n], branch[n]) \in Entry /\ Sound(Merge(mem[n], branch[n]))
  BY <1>1, <1>4, NewEntries
<1> QED  BY <1>1, <1>2, <1>3, <1>4, <1>5, ParentWrite

LEMMA FinishAppendParts ==
  ASSUME SInv, NEW n \in Node, FinishAppend(n)
  PROVE  Parts'
<1>1. /\ UNCHANGED <<lease, db, deposed, fork, told, step>> /\ mem[n].status = "open"
      /\ tx' = tx /\ op[n].pc = "parent" /\ op[n].kind \in Terminal
  BY DEF FinishAppend, answers, Terminal
<1>2. \A m \in Node : m # n => tx'[m] = tx[m] /\ op'[m] = op[m]
  BY DEF FinishAppend, SInv, TypeOK
<1>3. db[n] = "hosted" /\ mem[n].status \notin Terminal
  BY <1>1, Idle DEF SInv, Parts, Hosting, Terminal
<1>4. mem[n] \in Entry /\ Sound(mem[n])
  BY DEF SInv, Parts, Entries, TypeOK
<1>5. CASE UNCHANGED <<log, mem>> /\ op' = [op EXCEPT ![n] = NoOp]
  <2>1. Unfenced(n)' => Unfenced(n)
    BY <1>1, <1>5, Idle DEF Unfenced, SInv, TypeOK
  <2>2. StepIds'
    BY <1>1 DEF SInv, Parts, StepIds
  <2> QED  BY <1>1, <1>2, <1>3, <1>5, <2>1, <2>2, QuietStep
<1>6. ASSUME NEW c \in BOOLEAN,
             Appended(n, [mem[n] EXCEPT !.status = op[n].kind, !.late = FALSE, !.comp = c])
      PROVE  Parts'
  <2>1. /\ [mem[n] EXCEPT !.status = op[n].kind, !.late = FALSE, !.comp = c] \in Entry
        /\ Sound([mem[n] EXCEPT !.status = op[n].kind, !.late = FALSE, !.comp = c])
    BY <1>1, <1>4, NewEntries, EntryTypes
  <2> QED  BY <1>1, <1>2, <1>3, <1>6, <2>1, ParentWrite
<1> QED  BY <1>5, <1>6 DEF FinishAppend

LEMMA FenceParts ==
  ASSUME SInv, NEW n \in Node, TxFence(n) \/ OpFence(n)
  PROVE  Parts'
<1>1. Unfenced(n) /\ UNCHANGED <<lease, log, fork>>
  BY DEF Unfenced, TxFence, OpFence
<1>2. CASE ~Owns(n)
  BY <1>1, <1>2, LoseStep DEF TxFence, OpFence
<1>3. CASE Owns(n)
  <2>1. /\ UNCHANGED <<db, deposed, mem, step>> /\ told' = told \cup ({mem[n].status} \cap Terminal)
    BY <1>3 DEF TxFence, OpFence
  <2>2. \A m \in Node : m # n => tx'[m] = tx[m] /\ op'[m] = op[m]
    BY <1>3 DEF TxFence, OpFence, SInv, TypeOK
  <2> QED  BY <1>1, <1>3, <2>1, <2>2, TellStep
<1> QED  BY <1>2, <1>3

LEMMA BranchParts ==
  ASSUME SInv, NEW n \in Node,
         EnsureBranchMeta(n) \/ StepPrepare(n) \/ StepAppend(n) \/ CommitLock(n)
           \/ EndedAlready(n) \/ DiscardBranch(n)
  PROVE  Parts'
<1>1. UNCHANGED <<lease, db, deposed, log, mem, fork, told>>
  BY DEF EnsureBranchMeta, StepPrepare, StepAppend, CommitLock, EndedAlready, DiscardBranch, answers
<1>2. StepIds'
  <2>1. CASE StepPrepare(n)
    <3>1. nextStep \in Steps
      BY <2>1, Constants, SMTT(60) DEF StepPrepare, SInv, TypeOK, Steps
    <3> QED  BY <2>1, <3>1 DEF StepPrepare, SInv, Parts, StepIds, TypeOK
  <2>2. CASE StepAppend(n)
    BY <2>2 DEF StepAppend, SInv, Parts, StepIds, TypeOK, StepState
  <2>3. CASE step' = step
    BY <2>3 DEF SInv, Parts, StepIds
  <2> QED  BY <2>1, <2>2, <2>3 DEF EnsureBranchMeta, CommitLock, EndedAlready, DiscardBranch
<1>3. \A m \in Node : m # n => tx'[m] = tx[m] /\ op'[m] = op[m]
  BY DEF EnsureBranchMeta, StepPrepare, StepAppend, CommitLock, EndedAlready, DiscardBranch, SInv, TypeOK
<1>4. db[n] # "hosted" => tx'[n] = tx[n] /\ op'[n] = op[n]
  BY Idle DEF EnsureBranchMeta, StepPrepare, StepAppend, CommitLock, EndedAlready, DiscardBranch,
     SInv, Parts, Hosting
<1>5. Unfenced(n)' => Unfenced(n)
  <2>1. CASE CommitLock(n)
    BY <2>1 DEF CommitLock, Unfenced, NoOp, SInv, TypeOK
  <2>2. CASE ~CommitLock(n)
    BY <2>2, Idle DEF EnsureBranchMeta, StepPrepare, StepAppend, EndedAlready, DiscardBranch,
       Unfenced, SInv, TypeOK
  <2> QED  BY <2>1, <2>2
<1> QED  BY <1>1, <1>2, <1>3, <1>4, <1>5, QuietStep

(* The call that ends a saga, as it waits for the parent's lock. *)
Ending(n, s, f) ==
  [NoOp EXCEPT !.kind = s, !.pc = "parent", !.fix = IntentOf(f, branch_exists(n)),
               !.onBranch = (IntentOf(f, branch_exists(n)) = "registered")]

LEMMA FinishShape ==
  ASSUME SInv, NEW n \in Node, Abort(n) \/ SweepExpire(n) \/ LivenessPass(n)
  PROVE  \/ op' = op /\ branch' = branch
         \/ /\ db[n] = "hosted" /\ op[n] = NoOp
            /\ \E s \in {"aborted", "expired"}, f \in {"registered", "skip"} :
                 /\ op' = [op EXCEPT ![n] = Ending(n, s, f)] /\ op'[n] = Ending(n, s, f)
                 /\ IF Ending(n, s, f).onBranch THEN BranchFree(n) /\ saga_branch(n) ELSE branch' = branch
<1>1. \A s, f : Ending(n, s, f).onBranch = (IntentOf(f, branch_exists(n)) = "registered")
  BY DEF Ending, NoOp
<1>2. ASSUME NEW s, NEW f, Finish(n, s, f)
      PROVE  /\ db[n] = "hosted" /\ op[n] = NoOp
             /\ op' = [op EXCEPT ![n] = Ending(n, s, f)] /\ op'[n] = Ending(n, s, f)
             /\ IF Ending(n, s, f).onBranch THEN BranchFree(n) /\ saga_branch(n) ELSE branch' = branch
  <2>1. /\ db[n] = "hosted" /\ op[n] = NoOp /\ op' = [op EXCEPT ![n] = Ending(n, s, f)]
    BY <1>2 DEF Finish, Ending
  <2>2. op'[n] = Ending(n, s, f)
    BY <2>1 DEF SInv, TypeOK
  <2> QED  BY <1>1, <1>2, <2>1, <2>2 DEF Finish
<1>3. CASE Finish(n, "aborted", "registered")
  BY <1>2, <1>3
<1>4. CASE Finish(n, "expired", "registered")
  BY <1>2, <1>4
<1>5. CASE Finish(n, "expired", "skip")
  BY <1>2, <1>5
<1> QED  BY <1>3, <1>4, <1>5 DEF Abort, SweepExpire, LivenessPass

LEMMA FinishParts ==
  ASSUME SInv, NEW n \in Node, Abort(n) \/ SweepExpire(n) \/ LivenessPass(n)
  PROVE  Parts'
<1>1. UNCHANGED <<lease, db, deposed, log, mem, fork, told>> /\ step' = step /\ tx' = tx
  BY DEF Abort, SweepExpire, LivenessPass, Finish, answers
<1>2. StepIds'
  BY <1>1 DEF SInv, Parts, StepIds
<1>3. \A s, f : Ending(n, s, f).pc = "parent"
  BY DEF Ending, NoOp
<1>4. /\ \A m \in Node : m # n => op'[m] = op[m]
      /\ op' = op \/ (db[n] = "hosted" /\ op'[n].pc = "parent")
  <2>1. op \in [Node -> OpState]
    BY DEF SInv, TypeOK
  <2>2. CASE op' = op
    BY <2>2
  <2>3. CASE ~(op' = op)
    <3>1. PICK s \in {"aborted", "expired"}, f \in {"registered", "skip"} :
            db[n] = "hosted" /\ op' = [op EXCEPT ![n] = Ending(n, s, f)]
      BY <2>3, FinishShape
    <3> QED  BY <1>3, <2>1, <3>1
  <2> QED  BY <2>2, <2>3
<1>5. Unfenced(n)' => Unfenced(n)
  BY <1>1, <1>4 DEF Unfenced
<1> QED  BY <1>1, <1>2, <1>4, <1>5, QuietStep

LEMMA StepFenceParts ==
  ASSUME SInv, NEW n \in Node, StepFence(n)
  PROVE  Parts'
<1>1. UNCHANGED <<lease, log, fork, told>>
  BY DEF StepFence
<1>2. CASE Live(n) /\ Owns(n)
  <2>1. UNCHANGED <<db, deposed, mem, tx, op>> /\ step' = [step EXCEPT ![n] = NoStep]
    BY <1>2 DEF StepFence
  <2>2. StepIds'
    BY <2>1, Idle DEF SInv, Parts, StepIds, TypeOK
  <2> QED  BY <1>1, <2>1, <2>2, QuietStep DEF Unfenced
<1>3. CASE ~(Live(n) /\ Owns(n)) /\ ~ha
  BY <1>1, <1>3, LoseStep DEF StepFence
<1>4. CASE ~(Live(n) /\ Owns(n)) /\ ha
  <2>1. /\ UNCHANGED <<db, mem, tx, op>> /\ step' = [step EXCEPT ![n] = NoStep]
        /\ \A m \in Node : deposed'[m] => deposed[m] \/ (m = n /\ Live(n))
    BY <1>4 DEF StepFence, SInv, TypeOK
  <2>2. Live(n) => db[n] = "hosted" /\ owner # n
    BY <1>4 DEF SInv, Parts, Hosting, Live, Owns
  <2>5. Hosting'
    BY <1>1, <2>1, <2>2 DEF SInv, Parts, Hosting, lease, TypeOK
  <2>3. StepIds'
    BY <2>1, Idle DEF SInv, Parts, StepIds, TypeOK
  <2>4. Terms' /\ Entries' /\ Written' /\ Ended'
    BY <1>1, <2>1 DEF SInv, Parts, Terms, Entries, Written, Ended, Unfenced, Writes, lease, log
  <2> QED  BY <2>3, <2>4, <2>5 DEF Parts
<1> QED  BY <1>2, <1>3, <1>4

LEMMA ForkParts ==
  ASSUME SInv, ForkDb
  PROVE  Parts'
<1>1. /\ UNCHANGED <<lease, db, deposed, log, mem, told, step, tx, op>> /\ fork' # "compensated"
  BY DEF ForkDb, answers, IntentOf
<1> QED
  BY <1>1 DEF SInv, Parts, StepIds, Terms, Hosting, Written, Entries, Ended, Unfenced, Writes, lease, log

LEMMA NextParts == SInv /\ [Next]_vars => Parts'
<1> SUFFICES ASSUME SInv, [Next]_vars PROVE Parts'
  OBVIOUS
<1>1. ASSUME NEW n \in Node, RenewLost(n) \/ Crash(n) PROVE Parts'
  BY <1>1, LoseStep DEF RenewLost, Crash, answers
<1>2. CASE UNCHANGED vars
  BY <1>2 DEF vars, SInv, Parts, StepIds, Terms, Hosting, Written, Entries, Ended, Unfenced, Writes
<1> QED
  BY <1>1, <1>2, AcquireParts, OpenParts, ExpiresParts, TxParts, CommitParts, FinishAppendParts,
     FenceParts, BranchParts, FinishParts, StepFenceParts, ForkParts DEF Next

(* The inductive invariant holds in every state: of any number of nodes,   *)
(* lease terms, steps, crashes and failed calls.                           *)
THEOREM SInvHolds == Spec => []SInv
<1>1. Init => SInv
  BY InitType, InitParts DEF SInv
<1>2. SInv /\ [Next]_vars => SInv'
  BY NextType, NextParts DEF SInv, Parts
<1> QED  BY <1>1, <1>2, PTL DEF Spec

(***************************************************************************)
(* append_one and the flush of a client's transaction answer after their   *)
(* fence found the lease.  Whatever happens after the answer (the lease    *)
(* passes, a deposed node appends, nodes crash), the saga keeps the status *)
(* that the caller was told.                                               *)
(***************************************************************************)
THEOREM EndsAreTold == Spec => []EndsTold
<1>1. SInv => EndsTold
  BY DEF SInv, Parts, Ended, EndsTold
<1> QED  BY <1>1, SInvHolds, PTL

(***************************************************************************)
(* saga_finish applies a registered compensation where the branch is, and  *)
(* where the saga is still open: a fork, which has no branch, skips it,    *)
(* and no entry is both merged by saga_commit and compensated.             *)
(***************************************************************************)
THEOREM CompensationOnce == Spec => []CompensatedOnce
<1>1. SInv => CompensatedOnce
  BY DEF SInv, Parts, Entries, Sound, CompensatedOnce
<1> QED  BY <1>1, SInvHolds, PTL

-----------------------------------------------------------------------------
(* While the lease has passed at most once *)

(* The lease was granted to its first holder and at most once again. *)
OneHandover == term <= 2

(***************************************************************************)
(* A node that neither owns the lease nor had it first has nothing; the    *)
(* node that had it first has term 1 until it gets the lease back, and     *)
(* only the second holder opens a database.                                *)
(***************************************************************************)
Bystanders ==
  \A n \in Node : n # owner /\ n # First => db[n] = "none" /\ branch[n] = NoBranch /\ step[n] = NoStep
Passed ==
  /\ OneHandover
  /\ term = 1 => owner = First
  /\ owner # First => held[First] = 1
  /\ \A n \in Node : db[n] = "opening" => n = owner /\ term = 2

(***************************************************************************)
(* An overlay has the term of a lease its node held, the newest append to  *)
(* the branch log is not newer than the owner's overlay, and an owner that *)
(* is opening the database has not written to the branch yet.              *)
(***************************************************************************)
OverlayTerms ==
  /\ bterm <= term
  /\ \A n \in Node : branch[n] # NoBranch => 1 <= branch[n].term /\ branch[n].term <= held[n]
  /\ branch[owner] # NoBranch => bterm <= branch[owner].term
  /\ db[owner] = "opening" => bterm < term
  /\ \A n \in Node : db[n] = "opening" /\ branch[n] # NoBranch => branch[n].term < held[n]

(***************************************************************************)
(* A step needs an overlay, a call that took the branch's lock keeps steps *)
(* out, a merge takes that lock, and no step is in progress on an overlay  *)
(* whose parent shows the saga merged.                                     *)
(***************************************************************************)
OverlayCalls ==
  /\ \A n \in Node : step[n] # NoStep => branch[n] # NoBranch
  /\ \A n \in Node : Live(n) => mem[n].status # "absent"
  /\ \A n \in Node : op[n].onBranch => step[n] = NoStep /\ branch[n] # NoBranch
  /\ \A n \in Node : op[n].kind = "committed" => op[n].onBranch
  /\ \A n \in Node : Live(n) /\ step[n] # NoStep => ~mem[n].merged
  /\ \A n \in Node : op[n] = NoOp \/ op[n].pc \in {"parent", "fence"}

(* What the owner's registry shows, the log shows: an end, and an opening. *)
Behind ==
  /\ db[owner] = "hosted" /\ mem[owner].status \in Terminal => reg = mem[owner]
  /\ db[owner] = "hosted" /\ mem[owner].status # "absent" => reg.status # "absent"

(* The log, or a node whose append would be read, has the saga in status s. *)
Some(s) == reg.status = s \/ \E n \in Node : Writes(n) /\ mem[n].status = s

(***************************************************************************)
(* Until the saga ends wherever an append counts, the branch log and every *)
(* overlay whose append would be read hold the acknowledged steps, and the *)
(* step that the owner is about to acknowledge.                            *)
(***************************************************************************)
Kept ==
  /\ Some("absent") => acked = {}
  /\ Some("open") =>
       /\ acked \subseteq blog
       /\ \A n \in Node : branch[n] # NoBranch /\ bterm <= branch[n].term => acked \subseteq branch[n].steps
  /\ step[owner].pc = "fence" /\ branch[owner].term = term =>
       bterm = term /\ step[owner].id \in blog /\ step[owner].id \in branch[owner].steps

(* A merge has the acknowledged steps: in the owner's registry, in the log *)
(* as long as the next owner may read it, and once a caller was told.      *)
Carried ==
  /\ db[owner] = "hosted" /\ mem[owner].merged => acked \subseteq mem[owner].steps
  /\ (term = 1 \/ db[owner] = "opening") /\ reg.merged => acked \subseteq reg.steps
  /\ told # {} /\ reg.merged => acked \subseteq reg.steps

OInv == Bystanders /\ Passed /\ OverlayTerms /\ OverlayCalls /\ Behind /\ Kept /\ Carried

(* The variables that have a value for each node. *)
LEMMA Shapes ==
  ASSUME SInv
  PROVE  /\ owner \in Node /\ held \in [Node -> Nat] /\ reg \in Entry
         /\ db \in [Node -> {"none", "opening", "hosted"}]
         /\ mem \in [Node -> Entry] /\ branch \in [Node -> Overlay]
         /\ step \in [Node -> StepState] /\ op \in [Node -> OpState]
BY DEF SInv, TypeOK

(* The numbers, and who can have them. *)
LEMMA Standing ==
  ASSUME SInv, OInv
  PROVE  /\ bterm \in Nat /\ \A n \in Node : branch[n].term \in Nat
         /\ \A n \in Node : Live(n) => branch[n] # NoBranch
         /\ \A n \in Node : held[n] <= term
         /\ \A n \in Node : n # owner => held[n] < term /\ held[n] <= 1
         /\ \A n \in Node : n # owner /\ db[n] # "none" => term = 2 /\ held[n] = 1
         /\ \A n \in Node : n # owner /\ Writes(n) => mem[n] = reg
         /\ db[owner] = "hosted" => Writes(owner)
<1> USE DEF SInv, Parts, OInv
<1>1. term \in Nat /\ wrote \in Nat \ {0} /\ \A n \in Node : held[n] \in Nat
  BY Nums DEF TypeOK
<1>2. bterm \in Nat /\ \A n \in Node : branch[n].term \in Nat
  BY DEF TypeOK, Overlay
<1>3. \A n \in Node : Live(n) => branch[n] # NoBranch
  <2>1. \A n \in Node : db[n] = "hosted" => held[n] # 0
    BY DEF Terms
  <2> QED  BY <2>1, Idle DEF Live
<1>4. ASSUME NEW n \in Node PROVE held[n] <= term
  <2>1. held[n] = term \/ held[n] < term
    BY DEF Terms
  <2> QED  BY <1>1, <2>1, SMTT(60)
<1>5. ASSUME NEW n \in Node, n # owner PROVE held[n] < term /\ held[n] <= 1
  <2>1. held[n] < term /\ term <= 2
    BY <1>5 DEF Terms, Passed, OneHandover
  <2> QED  BY <1>1, <2>1, SMTT(60)
<1>6. ASSUME NEW n \in Node, n # owner, db[n] # "none" PROVE term = 2 /\ held[n] = 1
  <2>1. held[n] # 0 /\ term <= 2
    BY <1>6 DEF Terms, Passed, OneHandover
  <2> QED  BY <1>1, <1>5, <1>6, <2>1, SMTT(60)
<1>7. ASSUME NEW n \in Node, n # owner, Writes(n) PROVE mem[n] = reg
  <2>1. db[n] = "hosted" /\ ~(held[n] < wrote) /\ held[n] <= 1
    BY <1>5, <1>7 DEF Writes
  <2>2. held[n] = wrote
    BY <1>1, <2>1, SMTT(60)
  <2> QED  BY <2>1, <2>2 DEF Written
<1>8. ASSUME db[owner] = "hosted" PROVE Writes(owner)
  <2>1. held[owner] = term /\ wrote <= term /\ owner \in Node
    BY DEF Terms, TypeOK
  <2>2. ~(held[owner] < wrote)
    BY <1>1, <2>1, SMTT(60)
  <2> QED  BY <1>8, <2>2 DEF Writes
<1> QED  BY <1>2, <1>3, <1>4, <1>5, <1>6, <1>7, <1>8

LEMMA InitO == Init => OInv
<1> SUFFICES ASSUME Init PROVE OInv
  OBVIOUS
<1> USE DEF Init
<1>1. Bystanders
  BY DEF Bystanders
<1>2. Passed
  <2>1. OneHandover
    BY SMTT(60) DEF OneHandover
  <2> QED  BY <2>1 DEF Passed
<1>3. OverlayTerms
  <2>1. 0 <= 1
    BY SMTT(60)
  <2> QED  BY <2>1, SagaAssumption DEF OverlayTerms
<1>4. OverlayCalls
  <2>1. \A n \in Node : branch[n].term = 0 /\ (db[n] = "hosted" => held[n] = 1)
    BY DEF NoBranch
  <2>2. \A n \in Node : ~Live(n)
    <3>1. 0 # 1
      BY SMTT(60)
    <3> QED  BY <2>1, <3>1 DEF Live
  <2> QED  BY <2>2, Idle DEF OverlayCalls
<1>5. Behind
  BY SagaAssumption DEF Behind, Absent, Terminal
<1>6. Kept
  BY SagaAssumption, Idle DEF Kept
<1>7. Carried
  BY DEF Carried
<1> QED  BY <1>1, <1>2, <1>3, <1>4, <1>5, <1>6, <1>7 DEF OInv

(***************************************************************************)
(* A step that writes no entry, no step and no answer of a step: at most   *)
(* it drops a database, an overlay, a step or a call, moves the deadline,  *)
(* or answers an end that is whole.                                        *)
(***************************************************************************)
SameLogs ==
  /\ owner' = owner /\ term' = term /\ held' = held /\ wrote' = wrote
  /\ blog' = blog /\ bterm' = bterm /\ acked' = acked
  /\ reg'.status = reg.status /\ reg'.merged = reg.merged /\ reg'.steps = reg.steps
DropsDb == \A m \in Node : db'[m] # "none" => db'[m] = db[m]
SameMem ==
  \A m \in Node : db'[m] = "hosted" =>
    /\ mem'[m].status = mem[m].status /\ mem'[m].merged = mem[m].merged
    /\ mem'[m].steps = mem[m].steps /\ (mem[m] = reg => mem'[m] = reg')
DropsBranch ==
  \A m \in Node : branch'[m] # NoBranch =>
    /\ branch[m] # NoBranch
    /\ branch'[m].term = branch[m].term /\ branch'[m].steps = branch[m].steps
DropsStep ==
  \A m \in Node : step'[m] # NoStep =>
    step'[m] = step[m] /\ (branch[m] # NoBranch => branch'[m] # NoBranch)
DropsOp ==
  \A m \in Node : /\ op'[m].onBranch => op[m].onBranch /\ branch'[m] # NoBranch
                  /\ op'[m].kind = "committed" => op'[m].onBranch
                  /\ op'[m] = NoOp \/ op'[m].pc \in {"parent", "fence"}
Tells == told' # {} => told # {} \/ (reg.merged => acked \subseteq reg.steps)

LEMMA CalmStep ==
  ASSUME SInv, OInv, SInv', SameLogs, DropsDb, SameMem, DropsBranch, DropsStep, DropsOp, Tells
  PROVE  OInv'
<1> USE DEF OInv
<1>0. owner \in Node
  BY Shapes
<1>1. Bystanders'
  BY DEF Bystanders, SameLogs, DropsDb, DropsBranch, DropsStep
<1>2. Passed'
  BY DEF Passed, OneHandover, SameLogs, DropsDb
<1>3. OverlayTerms'
  BY <1>0 DEF OverlayTerms, SameLogs, DropsDb, DropsBranch
<1>4. \A m \in Node : Live(m)' => branch'[m] # NoBranch
  <2>1. \A m \in Node : db'[m] # "none" => held'[m] # 0
    BY DEF SInv, Parts, Terms
  <2> QED  BY <2>1, Idle DEF Live
<1>5. \A m \in Node : Live(m)' => Live(m) /\ db'[m] = "hosted"
  BY <1>4 DEF Live, SameLogs, DropsDb, DropsBranch
<1>6. OverlayCalls'
  <2>1. \A m \in Node : step'[m] # NoStep => branch'[m] # NoBranch
    BY DEF OverlayCalls, DropsStep
  <2>2. \A m \in Node : Live(m)' => mem'[m].status # "absent"
    BY <1>5 DEF OverlayCalls, SameMem
  <2>3. \A m \in Node : op'[m].onBranch => step'[m] = NoStep /\ branch'[m] # NoBranch
    BY DEF OverlayCalls, DropsStep, DropsOp
  <2>4. \A m \in Node : Live(m)' /\ step'[m] # NoStep => ~mem'[m].merged
    BY <1>5 DEF OverlayCalls, DropsStep, SameMem
  <2> QED  BY <2>1, <2>2, <2>3, <2>4 DEF OverlayCalls, DropsOp
<1>7. Behind'
  BY <1>0 DEF Behind, SameLogs, DropsDb, SameMem
<1>8. \A s : Some(s)' => Some(s)
  BY DEF Some, Writes, SameLogs, DropsDb, SameMem
<1>9. Kept'
  <2>1. \A m \in Node : step'[m].pc = "fence" => step'[m] = step[m] /\ step[m] # NoStep
    BY Idle DEF DropsStep
  <2>2. step'[owner].pc = "fence" => branch'[owner] # NoBranch
    BY <1>0, <2>1, Idle DEF OverlayCalls, DropsStep
  <2> QED  BY <1>0, <1>8, <2>1, <2>2 DEF Kept, SameLogs, DropsBranch
<1>10. Carried'
  BY <1>0 DEF Carried, SameLogs, DropsDb, SameMem, Tells
<1> QED  BY <1>1, <1>2, <1>3, <1>6, <1>7, <1>9, <1>10

LEMMA AcquireO ==
  ASSUME SInv, OInv, SInv', OneHandover', NEW n \in Node, Acquire(n)
  PROVE  OInv'
<1> USE DEF OInv
<1>1. /\ owner' = n /\ term' = term + 1 /\ step' = step /\ op' = op /\ branch' = branch /\ blog' = blog
      /\ bterm' = bterm /\ reg' = reg /\ wrote' = wrote /\ mem' = mem /\ told' = told /\ acked' = acked
      /\ db[n] = "none"
  BY DEF Acquire, log, disk, answers
<1>2. \A m \in Node : /\ held'[m] = IF m = n THEN term + 1 ELSE held[m]
                      /\ db'[m] = IF m = n THEN "opening" ELSE db[m]
  BY Shapes DEF Acquire
<1>3. term = 1
  <2>1. term \in Nat /\ term >= 1
    BY Constants, SMTT(60) DEF SInv, TypeOK
  <2> QED  BY <1>1, <2>1, SMTT(60) DEF OneHandover
<1>4. term' = 2 /\ term + 1 = 2
  BY <1>1, <1>3, SMTT(60)
<1>5. owner = First /\ held[First] = 1
  BY <1>3 DEF Passed, SInv, Parts, Terms
<1>6. \A m \in Node : held[m] \in Nat /\ branch[m].term \in Nat /\ held[m] <= 1
  BY <1>3, Standing, Nums DEF SInv
<1>7. Bystanders'
  BY <1>1, <1>2, <1>5 DEF Bystanders
<1>8. Passed'
  <2>1. ~(term = 2)
    BY <1>3, SMTT(60)
  <2>2. \A m \in Node : db'[m] = "opening" => m = n
    BY <1>2, <2>1 DEF Passed
  <2>3. owner' # First => held'[First] = 1
    BY <1>1, <1>2, <1>5, SagaAssumption
  <2>4. ~(term' = 1)
    BY <1>4, SMTT(60)
  <2> QED  BY <1>1, <1>4, <2>2, <2>3, <2>4 DEF Passed
<1>9. ASSUME NEW m \in Node, branch[m] # NoBranch
      PROVE  branch[m].term <= 1 /\ branch[m].term < 2 /\ m = owner
  <2>1. branch[m].term <= held[m] /\ m = owner
    BY <1>5, <1>9 DEF OverlayTerms, Bystanders
  <2> QED  BY <1>6, <2>1, SMTT(60)
<1>10. OverlayTerms'
  <2>1. bterm < 2 /\ bterm <= 2
    <3>1. bterm \in Nat /\ bterm <= 1
      BY <1>3, Standing DEF OverlayTerms
    <3> QED  BY <3>1, SMTT(60)
  <2>2. ASSUME NEW m \in Node, branch[m] # NoBranch
        PROVE  1 <= branch[m].term /\ branch[m].term <= held'[m]
    <3>1. 1 <= branch[m].term /\ branch[m].term <= held[m]
      BY <2>2 DEF OverlayTerms
    <3>2. branch[m].term <= 2
      BY <1>6, <1>9, <2>2, SMTT(60)
    <3> QED  BY <1>2, <1>4, <3>1, <3>2
  <2>3. branch[n] # NoBranch => bterm <= branch[n].term
    BY <1>9 DEF OverlayTerms
  <2>4. \A m \in Node : db'[m] = "opening" => m = n
    BY <1>1, <1>4, <1>8 DEF Passed
  <2> QED  BY <1>1, <1>2, <1>4, <1>9, <2>1, <2>2, <2>3, <2>4 DEF OverlayTerms
<1>11. OverlayCalls'
  BY <1>1, <1>2 DEF OverlayCalls, Live
<1>12. Behind'
  BY <1>1, <1>2 DEF Behind
<1>13. \A s : Some(s)' => Some(s)
  BY <1>1, <1>2 DEF Some, Writes
<1>14. Kept'
  <2>1. ~(step[n].pc = "fence" /\ branch[n].term = 2)
    <3>1. step[n].pc = "fence" => branch[n] # NoBranch
      BY Idle DEF OverlayCalls
    <3>2. branch[n] # NoBranch => branch[n].term <= 1 /\ branch[n].term \in Nat
      BY <1>6, <1>9
    <3> QED  BY <3>1, <3>2, SMTT(60)
  <2> QED  BY <1>1, <1>4, <1>13, <2>1 DEF Kept
<1>15. Carried'
  BY <1>1, <1>2, <1>3 DEF Carried
<1> QED  BY <1>7, <1>8, <1>10, <1>11, <1>12, <1>14, <1>15

LEMMA OpenO ==
  ASSUME SInv, OInv, SInv', NEW n \in Node, Open(n)
  PROVE  OInv'
<1> USE DEF OInv
<1>1. /\ owner' = owner /\ term' = term /\ held' = held /\ step' = step /\ op' = op /\ branch' = branch
      /\ blog' = blog /\ bterm' = bterm /\ reg' = reg /\ wrote' = wrote /\ told' = told /\ acked' = acked
      /\ db[n] = "opening"
  BY DEF Open, log, lease, disk, answers
<1>2. \A m \in Node : /\ db'[m] = IF m = n THEN "hosted" ELSE db[m]
                      /\ mem'[m] = IF m = n THEN reg ELSE mem[m]
  BY Shapes DEF Open
<1>3. n = owner /\ term = 2
  BY <1>1 DEF Passed
<1>4. Bystanders' /\ Passed' /\ Behind'
  BY <1>1, <1>2, <1>3 DEF Bystanders, Passed, OneHandover, Behind
<1>5. OverlayTerms'
  BY <1>1, <1>2, <1>3 DEF OverlayTerms
<1>6. OverlayCalls'
  <2>1. ~Live(n)'
    <3>1. db'[n] # "none" => held'[n] # 0
      BY DEF SInv, Parts, Terms
    <3>2. Live(n)' => branch[n] # NoBranch
      BY <1>1, <1>2, <3>1, Idle DEF Live
    <3>3. branch[n] # NoBranch => branch[n].term # held[n]
      <4>1. branch[n].term \in Nat /\ held[n] \in Nat
        BY Standing, Nums DEF SInv
      <4>2. branch[n] # NoBranch => branch[n].term < held[n]
        BY <1>1 DEF OverlayTerms
      <4> QED  BY <4>1, <4>2, SMTT(60)
    <3> QED  BY <1>1, <3>2, <3>3 DEF Live
  <2>2. \A m \in Node : Live(m)' => Live(m) /\ m # n
    BY <1>1, <1>2, <2>1 DEF Live
  <2> QED  BY <1>1, <1>2, <2>2 DEF OverlayCalls
<1>7. \A s : Some(s)' => Some(s)
  BY <1>1, <1>2 DEF Some, Writes
<1>8. Kept'
  BY <1>1, <1>7 DEF Kept
<1>9. Carried'
  <2>1. term # 1
    BY <1>3, SMTT(60)
  <2> QED  BY <1>1, <1>2, <1>3, <2>1 DEF Carried
<1> QED  BY <1>4, <1>5, <1>6, <1>8, <1>9

(***************************************************************************)
(* A node that hosts the database appends an entry.  The merge is the one  *)
(* that carries steps: those of an overlay that its call has locked.       *)
(***************************************************************************)
LEMMA WriteO ==
  ASSUME SInv, OInv, SInv', NEW n \in Node, NEW e \in Entry, db[n] = "hosted", Appended(n, e),
         UNCHANGED <<lease, db, disk, branch, step, answers>>,
         mem[n].status \in Terminal => e = mem[n],
         e.status = "absent" => mem[n].status = "absent",
         e.status = "open" => mem[n].status \in {"absent", "open"},
         e.merged => \/ mem[n].merged /\ e.steps = mem[n].steps
                     \/ mem[n].status = "open" /\ op[n].onBranch /\ e.steps = branch[n].steps,
         \A m \in Node : /\ op'[m].onBranch = op[m].onBranch /\ op'[m].kind = op[m].kind
                         /\ op'[m] = op[m] \/ op'[m].pc = "fence"
  PROVE  OInv'
<1> USE DEF OInv
<1>1. /\ owner' = owner /\ term' = term /\ held' = held /\ db' = db /\ blog' = blog /\ bterm' = bterm
      /\ branch' = branch /\ step' = step /\ acked' = acked /\ told' = told /\ owner \in Node
  BY Shapes DEF lease, disk, answers
<1>2. /\ mem' = [mem EXCEPT ![n] = e]
      /\ held[n] < wrote => reg' = reg /\ wrote' = wrote
      /\ ~(held[n] < wrote) => reg' = e /\ wrote' = held[n]
  BY AppendedFacts DEF SInv
<1>3. \A m \in Node : mem'[m] = IF m = n THEN e ELSE mem[m]
  BY <1>2, Shapes
<1>4. Writes(n) <=> ~(held[n] < wrote)
  BY DEF Writes
<1>5. \A m \in Node : Writes(m)' => Writes(m)
  <2>1. wrote \in Nat /\ \A m \in Node : held[m] \in Nat
    BY Nums DEF SInv
  <2>2. ASSUME NEW m \in Node, ~(held[m] < wrote') PROVE ~(held[m] < wrote)
    <3>1. CASE held[n] < wrote
      BY <1>2, <2>2, <3>1
    <3>2. CASE ~(held[n] < wrote)
      BY <1>2, <2>1, <2>2, <3>2, SMTT(60)
    <3> QED  BY <3>1, <3>2
  <2> QED  BY <1>1, <2>2 DEF Writes
<1>6. Bystanders' /\ Passed' /\ OverlayTerms'
  BY <1>1 DEF Bystanders, Passed, OneHandover, OverlayTerms
<1>7. OverlayCalls'
  <2>1. \A m \in Node : Live(m)' <=> Live(m)
    BY <1>1 DEF Live
  <2>2. Live(n) => e.status # "absent"
    BY DEF OverlayCalls
  <2>3. Live(n) /\ step[n] # NoStep => ~e.merged
    BY DEF OverlayCalls
  <2>4. \A m \in Node : Live(m)' => mem'[m].status # "absent"
    BY <1>3, <2>1, <2>2 DEF OverlayCalls
  <2>5. \A m \in Node : Live(m)' /\ step'[m] # NoStep => ~mem'[m].merged
    BY <1>1, <1>3, <2>1, <2>3 DEF OverlayCalls
  <2>6. \A m \in Node : op'[m].onBranch => step'[m] = NoStep /\ branch'[m] # NoBranch
    BY <1>1 DEF OverlayCalls
  <2>7. \A m \in Node : op'[m] = NoOp \/ op'[m].pc \in {"parent", "fence"}
    BY DEF OverlayCalls
  <2>8. \A m \in Node : op'[m].kind = "committed" => op'[m].onBranch
    BY DEF OverlayCalls
  <2> QED  BY <1>1, <2>4, <2>5, <2>6, <2>7, <2>8 DEF OverlayCalls
<1>8. n # owner /\ Writes(n) => mem[n] = reg
  BY Standing
<1>9. Writes(owner) \/ db[owner] # "hosted"
  BY Standing
<1>10. Behind'
  <2>1. CASE n = owner
    BY <1>1, <1>2, <1>3, <1>4, <1>9, <2>1 DEF Behind
  <2>2. CASE n # owner /\ ~Writes(n)
    BY <1>1, <1>2, <1>3, <1>4, <2>2 DEF Behind
  <2>3. CASE n # owner /\ Writes(n)
    BY <1>1, <1>2, <1>3, <1>4, <1>8, <2>3 DEF Behind
  <2> QED  BY <2>1, <2>2, <2>3
<1>11. ASSUME NEW s, Some(s)' PROVE Some(s) \/ (Writes(n) /\ e.status = s)
  <2>1. CASE reg'.status = s
    BY <1>2, <1>4, <2>1 DEF Some
  <2>2. ASSUME NEW m \in Node, Writes(m)', mem'[m].status = s
        PROVE  Some(s) \/ (Writes(n) /\ e.status = s)
    BY <1>3, <1>5, <2>2 DEF Some
  <2> QED  BY <1>11, <2>1, <2>2 DEF Some
<1>12. Some("absent")' => Some("absent")
  BY <1>11 DEF Some
<1>13. Some("open")' => Some("open") \/ Some("absent")
  BY <1>11 DEF Some
<1>14. Kept'
  BY <1>1, <1>12, <1>13 DEF Kept
<1>15. ASSUME Writes(n), op[n].onBranch, mem[n].status = "open", n = owner \/ db[owner] = "opening"
       PROVE  acked \subseteq branch[n].steps
  <2>1. Some("open") /\ branch[n] # NoBranch
    BY <1>15 DEF Some, OverlayCalls
  <2>2. bterm <= branch[n].term
    <3>1. CASE n = owner
      BY <2>1, <3>1 DEF OverlayTerms
    <3>2. CASE db[owner] = "opening"
      <4>1. bterm < 2 /\ 1 <= branch[n].term
        BY <1>1, <2>1, <3>2 DEF OverlayTerms, Passed
      <4>2. bterm \in Nat /\ branch[n].term \in Nat
        BY Standing
      <4> QED  BY <4>1, <4>2, SMTT(60)
    <3> QED  BY <1>15, <3>1, <3>2
  <2> QED  BY <2>1, <2>2 DEF Kept
<1>16. Carried'
  <2>1. n = owner /\ e.merged => acked \subseteq e.steps
    BY <1>9, <1>15 DEF Carried
  <2>2. n # owner => term = 2
    BY Standing
  <2>3. ~(term = 2 /\ term = 1)
    BY SMTT(60)
  <2>4. db[owner] = "hosted" /\ mem'[owner].merged => acked \subseteq mem'[owner].steps
    <3>1. CASE n = owner
      BY <1>3, <2>1, <3>1
    <3>2. CASE n # owner
      <4>1. mem'[owner] = mem[owner]
        BY <1>1, <1>3, <3>2
      <4> QED  BY <4>1 DEF Carried
    <3> QED  BY <3>1, <3>2
  <2>5. ASSUME term = 1 \/ db[owner] = "opening", reg'.merged PROVE acked \subseteq reg'.steps
    <3>1. CASE ~Writes(n)
      BY <1>2, <1>4, <2>5, <3>1 DEF Carried
    <3>2. CASE Writes(n) /\ n = owner
      BY <1>2, <1>4, <2>1, <2>5, <3>2
    <3>3. CASE Writes(n) /\ n # owner
      <4>1. db[owner] = "opening" /\ reg' = e /\ mem[n] = reg
        BY <1>2, <1>4, <1>8, <2>2, <2>3, <2>5, <3>3
      <4> QED  BY <1>15, <2>5, <3>3, <4>1 DEF Carried
    <3> QED  BY <3>1, <3>2, <3>3
  <2>6. told # {} => reg' = reg
    BY <1>2, <1>4 DEF SInv, Parts, Ended
  <2> QED  BY <1>1, <2>4, <2>5, <2>6 DEF Carried
<1> QED  BY <1>6, <1>7, <1>10, <1>14, <1>16

LEMMA Resolved ==
  ASSUME TypeOK, NEW n \in Node, saga_branch(n)
  PROVE  /\ \A m \in Node : m # n => branch'[m] = branch[m]
         /\ \/ branch[n] # NoBranch /\ branch'[n] = branch[n]
            \/ /\ branch[n] = NoBranch /\ db[n] = "hosted" /\ mem[n].status # "absent"
               /\ branch'[n].steps = blog /\ branch'[n].term = held[n]
<1>1. branch \in [Node -> Overlay]
  BY DEF TypeOK
<1>2. CASE branch[n] # NoBranch
  BY <1>2 DEF saga_branch
<1>3. CASE branch[n] = NoBranch
  <2>1. /\ db[n] = "hosted" /\ mem[n].status # "absent"
        /\ branch' = [branch EXCEPT ![n] = [steps |-> blog, term |-> held[n], saw |-> "absent"]]
    BY <1>3 DEF saga_branch
  <2> QED  BY <1>1, <1>3, <2>1
<1> QED  BY <1>2, <1>3

(***************************************************************************)
(* A call resolves the branch, in the node's map or from the root and the  *)
(* log, with no step and no other call on it: a step is prepared, or a     *)
(* merge or an ending takes the lock.                                      *)
(***************************************************************************)
LEMMA BranchStep ==
  ASSUME SInv, OInv, SInv', NEW n \in Node, saga_branch(n), BranchFree(n),
         UNCHANGED <<lease, db, log, mem, disk, answers>>,
         \A m \in Node : m # n => op'[m] = op[m] /\ step'[m] = step[m],
         \/ op'[n] = op[n] /\ step'[n].pc # "fence" /\ (Live(n)' => mem[n].status = "open")
         \/ step'[n] = step[n] /\ op'[n].onBranch /\ op'[n].pc = "parent"
  PROVE  OInv'
<1> USE DEF OInv
<1>1. /\ owner' = owner /\ term' = term /\ held' = held /\ db' = db /\ blog' = blog /\ bterm' = bterm
      /\ reg' = reg /\ wrote' = wrote /\ mem' = mem /\ acked' = acked /\ told' = told /\ owner \in Node
  BY Shapes DEF lease, log, disk, answers
<1>2. step[n] = NoStep /\ ~op[n].onBranch
  BY Idle DEF BranchFree, OverlayCalls
<1>3. \A m \in Node : m # n => branch'[m] = branch[m]
  BY Resolved DEF SInv
<1>4. \/ branch[n] # NoBranch /\ branch'[n] = branch[n]
      \/ /\ branch[n] = NoBranch /\ db[n] = "hosted" /\ mem[n].status # "absent"
         /\ branch'[n].steps = blog /\ branch'[n].term = held[n]
  BY Resolved DEF SInv
<1>5. \A m \in Node : db[m] = "hosted" => held[m] # 0
  BY DEF SInv, Parts, Terms
<1>6. branch'[n] # NoBranch
  BY <1>4, <1>5, Idle
<1>7. n = owner \/ n = First
  BY <1>4 DEF Bystanders
<1>8. Bystanders' /\ Passed' /\ Behind'
  <2>1. \A m \in Node : m # owner /\ m # First => branch'[m] = branch[m] /\ step'[m] = step[m]
    BY <1>3, <1>7
  <2>2. Bystanders'
    BY <1>1, <2>1 DEF Bystanders
  <2> QED  BY <1>1, <2>2 DEF Passed, OneHandover, Behind
<1>9. OverlayTerms'
  <2>1. 1 <= branch'[n].term /\ branch'[n].term <= held[n]
    <3>1. held[n] \in Nat
      BY Nums DEF SInv
    <3>2. held[n] # 0 => 1 <= held[n] /\ held[n] <= held[n]
      BY <3>1, SMTT(60)
    <3> QED  BY <1>4, <1>5, <3>2 DEF OverlayTerms
  <2>2. n = owner => bterm <= branch'[n].term
    BY <1>4 DEF OverlayTerms, SInv, Parts, Terms
  <2>3. db[n] = "opening" => branch'[n].term < held[n]
    BY <1>4 DEF OverlayTerms
  <2>4. \A m \in Node : branch'[m] # NoBranch => 1 <= branch'[m].term /\ branch'[m].term <= held[m]
    BY <1>3, <2>1 DEF OverlayTerms
  <2>5. branch'[owner] # NoBranch => bterm <= branch'[owner].term
    BY <1>1, <1>3, <2>2 DEF OverlayTerms
  <2>6. \A m \in Node : db[m] = "opening" /\ branch'[m] # NoBranch => branch'[m].term < held[m]
    BY <1>3, <2>3 DEF OverlayTerms
  <2> QED  BY <1>1, <2>4, <2>5, <2>6 DEF OverlayTerms
<1>10. OverlayCalls'
  <2>1. \A m \in Node : m # n => (Live(m)' <=> Live(m))
    BY <1>1, <1>3 DEF Live
  <2>2. Live(n)' => mem[n].status # "absent"
    BY <1>1, <1>4 DEF Live, OverlayCalls
  <2>3. Live(n)' /\ step'[n] # NoStep => ~mem[n].merged
    BY <1>2 DEF SInv, Parts, Entries, Sound, Terminal
  <2>4. op'[n].onBranch => step'[n] = NoStep
    BY <1>2
  <2>5. op'[n].kind = "committed" => op'[n].onBranch
    BY DEF OverlayCalls
  <2>6. op'[n] = NoOp \/ op'[n].pc \in {"parent", "fence"}
    BY DEF OverlayCalls
  <2>7. \A m \in Node : step'[m] # NoStep => branch'[m] # NoBranch
    BY <1>3, <1>6 DEF OverlayCalls
  <2>8. \A m \in Node : Live(m)' => mem'[m].status # "absent"
    BY <1>1, <2>1, <2>2 DEF OverlayCalls
  <2>9. \A m \in Node : op'[m].onBranch => step'[m] = NoStep /\ branch'[m] # NoBranch
    BY <1>3, <1>6, <2>4 DEF OverlayCalls
  <2>10. \A m \in Node : op'[m].kind = "committed" => op'[m].onBranch
    BY <2>5 DEF OverlayCalls
  <2>11. \A m \in Node : Live(m)' /\ step'[m] # NoStep => ~mem'[m].merged
    BY <1>1, <2>1, <2>3 DEF OverlayCalls
  <2>12. \A m \in Node : op'[m] = NoOp \/ op'[m].pc \in {"parent", "fence"}
    BY <2>6 DEF OverlayCalls
  <2> QED  BY <2>7, <2>8, <2>9, <2>10, <2>11, <2>12 DEF OverlayCalls
<1>11. \A s : Some(s)' <=> Some(s)
  BY <1>1 DEF Some, Writes
<1>12. Kept'
  <2>1. step'[n].pc # "fence"
    BY <1>2, Idle
  <2>2. step'[owner].pc = "fence" => owner # n
    BY <2>1
  <2>3. Some("open") /\ bterm <= branch'[n].term => acked \subseteq branch'[n].steps
    BY <1>4 DEF Kept
  <2>4. \A m \in Node : Some("open") /\ branch'[m] # NoBranch /\ bterm <= branch'[m].term
                          => acked \subseteq branch'[m].steps
    BY <1>3, <2>3 DEF Kept
  <2>5. step'[owner].pc = "fence" => step'[owner] = step[owner] /\ branch'[owner] = branch[owner]
    BY <1>1, <1>3, <2>2
  <2> QED  BY <1>1, <1>11, <2>4, <2>5 DEF Kept
<1>13. Carried'
  BY <1>1 DEF Carried
<1> QED  BY <1>8, <1>9, <1>10, <1>12, <1>13

LEMMA AppendedStep ==
  ASSUME TypeOK, NEW n \in Node, StepAppend(n)
  PROVE  /\ \A m \in Node : /\ m # n => branch'[m] = branch[m] /\ step'[m] = step[m]
                            /\ branch'[m].term = branch[m].term
                            /\ branch[m].steps \subseteq branch'[m].steps
         /\ branch'[n].steps = branch[n].steps \cup {step[n].id}
         /\ step'[n].id = step[n].id
<1>1. branch \in [Node -> Overlay] /\ step \in [Node -> StepState]
  BY DEF TypeOK
<1>2. /\ branch' = [branch EXCEPT ![n] = [branch[n] EXCEPT !.steps = @ \cup {step[n].id}]]
      /\ step' = [step EXCEPT ![n] = [step[n] EXCEPT !.pc = "fence"]]
  BY DEF StepAppend
<1>3. \A m \in Node : m # n => branch'[m] = branch[m] /\ step'[m] = step[m]
  BY <1>1, <1>2
<1>4. /\ branch'[n] = [branch[n] EXCEPT !.steps = branch[n].steps \cup {step[n].id}]
      /\ step'[n] = [step[n] EXCEPT !.pc = "fence"]
  BY <1>1, <1>2
<1>5. branch[n] \in Overlay /\ step[n] \in StepState
  BY <1>1
<1>6. branch'[n].term = branch[n].term /\ branch'[n].steps = branch[n].steps \cup {step[n].id}
  BY <1>4, <1>5 DEF Overlay
<1>7. step'[n].id = step[n].id
  BY <1>4, <1>5 DEF StepState
<1>8. \A m \in Node : branch'[m].term = branch[m].term /\ branch[m].steps \subseteq branch'[m].steps
  BY <1>3, <1>6
<1> QED  BY <1>3, <1>6, <1>7, <1>8

LEMMA StepAppendO ==
  ASSUME SInv, OInv, SInv', NEW n \in Node, StepAppend(n)
  PROVE  OInv'
<1> USE DEF OInv
<1>1. /\ owner' = owner /\ term' = term /\ held' = held /\ db' = db /\ reg' = reg /\ wrote' = wrote
      /\ mem' = mem /\ op' = op /\ acked' = acked /\ told' = told /\ owner \in Node
  BY Shapes DEF StepAppend, lease, log, answers
<1>2. step[n].pc = "append" /\ step[n] # NoStep /\ branch[n] # NoBranch
  BY Idle DEF StepAppend, OverlayCalls
<1>3. \A m \in Node : /\ m # n => branch'[m] = branch[m] /\ step'[m] = step[m]
                      /\ branch'[m].term = branch[m].term
                      /\ branch[m].steps \subseteq branch'[m].steps
  BY AppendedStep DEF SInv
<1>4. branch'[n].steps = branch[n].steps \cup {step[n].id}
  BY AppendedStep DEF SInv
<1>5. step'[n].id = step[n].id
  BY AppendedStep DEF SInv
<1>6. bterm \in Nat /\ term \in Nat /\ \A m \in Node : branch[m].term \in Nat /\ held[m] \in Nat
  BY Standing, Nums DEF SInv
<1>7. 1 <= branch[n].term /\ branch[n].term <= held[n] /\ held[n] <= term
  BY <1>2, Standing DEF OverlayTerms
<1>8. /\ bterm' = IF bterm < branch[n].term THEN branch[n].term ELSE bterm
      /\ blog' = IF branch[n].term < bterm THEN blog ELSE branch'[n].steps
  BY <1>6, MaxOf DEF StepAppend
<1>9. branch'[n] # NoBranch
  <2>1. branch[n].term # 0
    BY <1>6, <1>7, SMTT(60)
  <2> QED  BY <1>3, <2>1, Idle
<1>10. \A m \in Node : branch'[m] # NoBranch <=> branch[m] # NoBranch
  BY <1>2, <1>3, <1>9
<1>11. bterm <= bterm'
  BY <1>6, <1>8, SMTT(60)
<1>12. Bystanders' /\ Passed' /\ Behind'
  <2>1. n = owner \/ n = First
    BY <1>2 DEF Bystanders
  <2>2. \A m \in Node : m # owner /\ m # First => branch'[m] = branch[m] /\ step'[m] = step[m]
    BY <1>3, <2>1
  <2>3. Bystanders'
    BY <1>1, <2>2 DEF Bystanders
  <2> QED  BY <1>1, <2>3 DEF Passed, OneHandover, Behind
<1>13. OverlayTerms'
  <2>1. bterm' <= term
    <3>1. bterm <= term
      BY DEF OverlayTerms
    <3> QED  BY <1>6, <1>7, <1>8, <3>1, SMTT(60)
  <2>2. ASSUME branch[owner] # NoBranch PROVE bterm' <= branch[owner].term
    <3>1. bterm <= branch[owner].term /\ 1 <= branch[owner].term
      BY <1>1, <2>2 DEF OverlayTerms
    <3>2. n = owner \/ held[n] <= 1
      BY Standing
    <3> QED  BY <1>1, <1>6, <1>7, <1>8, <3>1, <3>2, SMTT(60)
  <2>3. ASSUME db[owner] = "opening" PROVE bterm' < term
    <3>1. bterm < term /\ term = 2 /\ held[owner] = term
      BY <1>1, <2>3 DEF OverlayTerms, Passed, SInv, Parts, Terms
    <3>2. n = owner => branch[n].term < held[n]
      BY <1>2, <2>3 DEF OverlayTerms
    <3>3. n = owner \/ held[n] <= 1
      BY Standing
    <3> QED  BY <1>1, <1>6, <1>7, <1>8, <3>1, <3>2, <3>3, SMTT(60)
  <2> QED  BY <1>1, <1>3, <1>10, <2>1, <2>2, <2>3 DEF OverlayTerms
<1>14. OverlayCalls'
  <2>1. \A m \in Node : Live(m)' <=> Live(m)
    BY <1>1, <1>3 DEF Live
  <2>2. ~op[n].onBranch
    BY <1>2 DEF OverlayCalls
  <2>3. \A m \in Node : step'[m] # NoStep => step[m] # NoStep
    BY <1>2, <1>3
  <2>4. \A m \in Node : op[m].onBranch => step'[m] = NoStep /\ branch'[m] # NoBranch
    BY <1>3, <2>2 DEF OverlayCalls
  <2> QED  BY <1>1, <1>10, <2>1, <2>3, <2>4 DEF OverlayCalls
<1>15. \A s : Some(s)' <=> Some(s)
  BY <1>1 DEF Some, Writes
<1>16. Kept'
  <2>1. ASSUME Some("open") PROVE acked \subseteq blog'
    <3>1. ~(branch[n].term < bterm) => bterm <= branch[n].term
      BY <1>6, Ordering
    <3> QED  BY <1>2, <1>3, <1>8, <2>1, <3>1 DEF Kept
  <2>2. ASSUME Some("open"), NEW m \in Node, branch'[m] # NoBranch, bterm' <= branch'[m].term
        PROVE  acked \subseteq branch'[m].steps
    <3>1. bterm' \in Nat
      BY <1>6, <1>8
    <3>2. bterm <= branch[m].term
      <4>1. bterm' <= branch[m].term
        BY <1>3, <2>2
      <4> QED  BY <1>6, <1>11, <3>1, <4>1, SMTT(60)
    <3>3. branch[m] # NoBranch
      BY <1>10, <2>2
    <3> QED  BY <1>3, <2>2, <3>2, <3>3 DEF Kept
  <2>3. ASSUME step'[owner].pc = "fence", branch'[owner].term = term
        PROVE  bterm' = term /\ step'[owner].id \in blog' /\ step'[owner].id \in branch'[owner].steps
    <3>1. CASE n = owner
      <4>1. branch[n].term = term /\ bterm <= term
        BY <1>3, <2>3, <3>1 DEF OverlayTerms
      <4>2. bterm' = term /\ ~(branch[n].term < bterm)
        BY <1>6, <1>8, <4>1, SMTT(60)
      <4> QED  BY <1>4, <1>5, <1>8, <3>1, <4>2
    <3>2. CASE n # owner
      <4>1. step'[owner] = step[owner] /\ branch'[owner] = branch[owner]
        BY <1>1, <1>3, <3>2
      <4>2. bterm = term /\ step[owner].id \in blog /\ step[owner].id \in branch[owner].steps
        BY <2>3, <4>1 DEF Kept
      <4>3. held[n] < term
        BY <3>2, Standing
      <4>4. branch[n].term < bterm /\ ~(bterm < branch[n].term)
        BY <1>6, <1>7, <4>2, <4>3, SMTT(60)
      <4> QED  BY <1>8, <4>1, <4>2, <4>4
    <3> QED  BY <3>1, <3>2
  <2>4. acked' = acked /\ owner' = owner /\ term' = term
    BY <1>1
  <2> QED  BY <1>15, <2>1, <2>2, <2>3, <2>4 DEF Kept
<1>17. Carried'
  BY <1>1 DEF Carried
<1> QED  BY <1>12, <1>13, <1>14, <1>16, <1>17

(* The fence of a step finds the lease, and the step is acknowledged. *)
LEMMA AckO ==
  ASSUME SInv, OInv, SInv', NEW n \in Node, StepFence(n), Live(n), Owns(n)
  PROVE  OInv'
<1> USE DEF OInv
<1>1. /\ owner' = owner /\ term' = term /\ held' = held /\ db' = db /\ reg' = reg /\ wrote' = wrote
      /\ mem' = mem /\ op' = op /\ told' = told /\ branch' = branch /\ blog' = blog /\ bterm' = bterm
      /\ acked' = acked \cup {step[n].id} /\ step[n].pc = "fence"
  BY DEF StepFence, lease, log, disk
<1>2. \A m \in Node : step'[m] = IF m = n THEN NoStep ELSE step[m]
  BY Shapes DEF StepFence
<1>3. n = owner /\ db[n] = "hosted" /\ branch[n].term = held[n] /\ held[n] = term
  BY DEF Live, Owns, SInv, Parts, Terms
<1>4. bterm = term /\ step[n].id \in blog /\ step[n].id \in branch[n].steps
  BY <1>1, <1>3 DEF Kept
<1>5. step[n] # NoStep /\ ~mem[n].merged /\ mem[n].status # "absent"
  BY <1>1, Idle DEF OverlayCalls
<1>6. Bystanders' /\ Passed' /\ OverlayTerms' /\ Behind'
  BY <1>1, <1>2 DEF Bystanders, Passed, OneHandover, OverlayTerms, Behind
<1>7. OverlayCalls'
  <2>1. \A m \in Node : Live(m)' <=> Live(m)
    BY <1>1 DEF Live
  <2> QED  BY <1>1, <1>2, <2>1 DEF OverlayCalls
<1>8. \A s : Some(s)' <=> Some(s)
  BY <1>1 DEF Some, Writes
<1>9. ~Some("absent")
  <2>1. reg.status # "absent"
    BY <1>3, <1>5 DEF Behind
  <2>2. \A m \in Node : m # owner /\ Writes(m) => mem[m] = reg
    BY Standing
  <2> QED  BY <1>3, <1>5, <2>1, <2>2 DEF Some
<1>10. Kept'
  <2>1. ASSUME NEW m \in Node, branch[m] # NoBranch, bterm <= branch[m].term PROVE m = n
    <3>1. branch[m].term <= held[m] /\ (m # owner => held[m] < term)
      BY <2>1, Standing DEF OverlayTerms
    <3>2. bterm \in Nat /\ branch[m].term \in Nat /\ held[m] \in Nat
      BY Standing, Nums DEF SInv
    <3> QED  BY <1>3, <1>4, <2>1, <3>1, <3>2, SMTT(60)
  <2>2. step'[owner].pc # "fence"
    BY <1>2, <1>3, Idle
  <2>3. Some("open") => acked' \subseteq blog
    BY <1>1, <1>4 DEF Kept
  <2>4. \A m \in Node : Some("open") /\ branch[m] # NoBranch /\ bterm <= branch[m].term
                          => acked' \subseteq branch[m].steps
    BY <1>1, <1>4, <2>1 DEF Kept
  <2>5. blog' = blog /\ branch' = branch /\ bterm' = bterm /\ owner' = owner
    BY <1>1
  <2> QED  BY <1>8, <1>9, <2>2, <2>3, <2>4, <2>5 DEF Kept
<1>11. Carried'
  <2>1. term = 1 => mem[n] = reg
    <3>1. wrote \in Nat \ {0} /\ wrote <= term
      BY DEF SInv, TypeOK, Parts, Terms
    <3>2. term = 1 => held[n] = wrote
      BY <1>3, <3>1, SMTT(60)
    <3> QED  BY <1>3, <3>2 DEF SInv, Parts, Written
  <2>2. told # {} => mem[n] = reg
    <3>1. Writes(n)
      BY <1>3, Standing
    <3> QED  BY <3>1 DEF SInv, Parts, Ended
  <2> QED  BY <1>1, <1>3, <1>5, <2>1, <2>2 DEF Carried
<1> QED  BY <1>6, <1>7, <1>10, <1>11

LEMMA DiscardO ==
  ASSUME SInv, OInv, SInv', NEW n \in Node, DiscardBranch(n)
  PROVE  OInv'
<1> USE DEF OInv
<1>1. /\ owner' = owner /\ term' = term /\ held' = held /\ db' = db /\ reg' = reg /\ wrote' = wrote
      /\ mem' = mem /\ op' = op /\ step' = step /\ told' = told /\ acked' = acked /\ bterm' = 0
  BY DEF DiscardBranch, lease, log, answers
<1>2. /\ n = owner /\ db[n] = "hosted" /\ step[n] = NoStep /\ op[n] = NoOp
      /\ mem[n].status \in Terminal /\ \A m \in Node : m # n => db[m] = "none"
  BY DEF DiscardBranch, Owns
<1>3. \A m \in Node : branch'[m] = IF m = n THEN NoBranch ELSE branch[m]
  BY Shapes DEF DiscardBranch
<1>4. Bystanders' /\ Passed' /\ Behind'
  BY <1>1, <1>2, <1>3 DEF Bystanders, Passed, OneHandover, Behind
<1>5. OverlayTerms'
  <2>1. 0 <= term
    <3>1. term \in Nat
      BY Nums DEF SInv
    <3> QED  BY <3>1, SMTT(60)
  <2> QED  BY <1>1, <1>2, <1>3, <2>1 DEF OverlayTerms
<1>6. OverlayCalls'
  <2>1. \A m \in Node : Live(m)' => Live(m)
    <3>1. db[n] = "hosted" => held[n] # 0
      BY DEF SInv, Parts, Terms
    <3>2. ~Live(n)'
      BY <1>1, <1>2, <1>3, <3>1, Idle DEF Live
    <3> QED  BY <1>1, <1>3, <3>2 DEF Live
  <2>2. \A m \in Node : step[m] # NoStep \/ op[m].onBranch => branch'[m] = branch[m]
    BY <1>2, <1>3, Idle
  <2> QED  BY <1>1, <2>1, <2>2 DEF OverlayCalls
<1>7. ~Some("absent")' /\ ~Some("open")'
  <2>1. reg = mem[n]
    BY <1>2 DEF Behind
  <2>2. mem[n].status # "absent" /\ mem[n].status # "open"
    BY <1>2 DEF Terminal
  <2>3. \A m \in Node : Writes(m)' => m = n
    BY <1>1, <1>2 DEF Writes
  <2> QED  BY <1>1, <2>1, <2>2, <2>3 DEF Some
<1>8. Kept'
  BY <1>1, <1>2, <1>7, Idle DEF Kept
<1>9. Carried'
  BY <1>1 DEF Carried
<1> QED  BY <1>4, <1>5, <1>6, <1>8, <1>9

-----------------------------------------------------------------------------
(* Every step, while the lease has passed at most once *)

(* The calls that write nothing to the logs, and what they leave. *)
LEMMA LoseO ==
  ASSUME SInv, OInv, SInv', NEW n \in Node, Depose(n) \/ Forget(n),
         UNCHANGED <<lease, log, disk, acked, told>>
  PROVE  OInv'
<1>1. SameLogs /\ Tells
  BY DEF SameLogs, Tells, lease, log, disk
<1>2. \A m \in Node :
        /\ db'[m] = IF m = n THEN "none" ELSE db[m]
        /\ mem'[m] = IF m = n THEN Absent ELSE mem[m]
        /\ op'[m] = IF m = n THEN NoOp ELSE op[m]
  <2>1. /\ db' = [db EXCEPT ![n] = "none"] /\ mem' = [mem EXCEPT ![n] = Absent]
        /\ op' = [op EXCEPT ![n] = NoOp]
    BY DEF Depose, Forget
  <2> QED  BY <2>1, Shapes
<1>3. DropsDb /\ SameMem
  BY <1>2 DEF DropsDb, SameMem, log
<1>4. \/ /\ branch' = [branch EXCEPT ![n] = NoBranch] /\ step' = [step EXCEPT ![n] = NoStep]
      \/ /\ step' = step
         /\ branch' = [branch EXCEPT ![n] = IF @ = NoBranch THEN @ ELSE [@ EXCEPT !.saw = mem[n].status]]
  BY DEF Depose, Forget
<1>5. branch \in [Node -> Overlay] /\ step \in [Node -> StepState] /\ branch[n] \in Overlay
  BY Shapes
<1>6. \A b \in Overlay : /\ [b EXCEPT !.saw = mem[n].status].term = b.term
                         /\ [b EXCEPT !.saw = mem[n].status].steps = b.steps
  BY DEF Overlay
<1>7. CASE branch' = [branch EXCEPT ![n] = NoBranch] /\ step' = [step EXCEPT ![n] = NoStep]
  <2>1. \A m \in Node : /\ branch'[m] = IF m = n THEN NoBranch ELSE branch[m]
                        /\ step'[m] = IF m = n THEN NoStep ELSE step[m]
    BY <1>5, <1>7
  <2>2. DropsBranch /\ DropsStep
    BY <2>1 DEF DropsBranch, DropsStep
  <2>3. DropsOp
    BY <1>2, <2>1, Idle DEF DropsOp, OInv, OverlayCalls
  <2> QED  BY <1>1, <1>3, <2>2, <2>3, CalmStep
<1>8. CASE branch' = [branch EXCEPT ![n] = IF @ = NoBranch THEN @ ELSE [@ EXCEPT !.saw = mem[n].status]]
           /\ step' = step
  <2>1. /\ \A m \in Node : m # n => branch'[m] = branch[m]
        /\ branch'[n] = IF branch[n] = NoBranch THEN branch[n]
                        ELSE [branch[n] EXCEPT !.saw = mem[n].status]
    BY <1>5, <1>8
  <2>2. branch[n] = NoBranch => branch'[n] = NoBranch
    BY <2>1
  <2>3. branch[n] # NoBranch =>
          branch'[n].term = branch[n].term /\ branch'[n].steps = branch[n].steps /\ branch'[n] # NoBranch
    <3>1. ASSUME branch[n] # NoBranch
          PROVE  branch'[n].term = branch[n].term /\ branch'[n].steps = branch[n].steps
      BY <1>5, <1>6, <2>1, <3>1
    <3>2. branch[n] # NoBranch => branch[n].term # 0
      <4>1. branch[n].term \in Nat
        BY Standing
      <4>2. branch[n] # NoBranch => 1 <= branch[n].term
        BY DEF OInv, OverlayTerms
      <4> QED  BY <4>1, <4>2, SMTT(60)
    <3> QED  BY <3>1, <3>2, Idle
  <2>4. DropsBranch /\ DropsStep
    BY <1>8, <2>1, <2>2, <2>3 DEF DropsBranch, DropsStep
  <2>5. DropsOp
    BY <1>2, <2>1, Idle DEF DropsOp, OInv, OverlayCalls
  <2> QED  BY <1>1, <1>3, <2>4, <2>5, CalmStep
<1> QED  BY <1>4, <1>7, <1>8

(* The branch, the registry and the hosting stay as they are; a step or a  *)
(* call may end, and a call may begin that does not take the branch.       *)
LEMMA QuietO ==
  ASSUME SInv, OInv, SInv', UNCHANGED <<lease, db, log, mem, blog, bterm, branch, acked>>, Tells,
         NEW n \in Node, \A m \in Node : m # n => step'[m] = step[m] /\ op'[m] = op[m],
         step'[n] \in {step[n], NoStep},
         \/ op'[n] \in {op[n], NoOp}
         \/ ~op'[n].onBranch /\ op'[n].kind # "committed" /\ op'[n].pc = "parent"
  PROVE  OInv'
<1>1. SameLogs /\ DropsDb /\ SameMem
  BY DEF SameLogs, DropsDb, SameMem, lease, log
<1>2. \A m \in Node : step'[m] \in {step[m], NoStep}
  OBVIOUS
<1>3. DropsBranch /\ DropsStep
  BY <1>2 DEF DropsBranch, DropsStep
<1>4. DropsOp
  BY Idle DEF DropsOp, OInv, OverlayCalls
<1> QED  BY <1>1, <1>3, <1>4, CalmStep

LEMMA ExpiresO ==
  ASSUME SInv, OInv, SInv', Expires
  PROVE  OInv'
<1> DEFINE Late(e) == [e EXCEPT !.late = (e.status = "open")]
<1>1. reg' = Late(reg) /\ \A m \in Node : mem'[m] = Late(mem[m])
  BY DEF Expires
<1>2. \A e \in Entry : Late(e).status = e.status /\ Late(e).merged = e.merged /\ Late(e).steps = e.steps
  BY DEF Entry
<1>3. reg \in Entry /\ \A m \in Node : mem[m] \in Entry
  BY Shapes
<1> HIDE DEF Late
<1>4. /\ UNCHANGED <<lease, wrote, disk, acked, told>>
      /\ db' = db /\ branch' = branch /\ step' = step /\ op' = op
  BY DEF Expires, answers
<1>5. SameLogs
  BY <1>1, <1>2, <1>3, <1>4 DEF SameLogs, lease, disk
<1>6. DropsDb /\ DropsBranch /\ DropsStep /\ Tells
  BY <1>4 DEF DropsDb, DropsBranch, DropsStep, Tells
<1>7. SameMem
  BY <1>1, <1>2, <1>3 DEF SameMem
<1>8. DropsOp
  BY <1>4 DEF DropsOp, OInv, OverlayCalls
<1> QED  BY <1>5, <1>6, <1>7, <1>8, CalmStep

LEMMA TransactO ==
  ASSUME SInv, OInv, SInv', NEW n \in Node,
         OpenSaga(n) \/ OtherTx(n) \/ ExtendSaga(n)
           \/ \E s \in {"committed", "aborted"} : FlipStatus(n, s)
  PROVE  OInv'
<1>1. mem[n] \in Entry /\ Absent \in Entry
  BY AbsentTypes, Shapes
<1>2. ASSUME NEW e \in Entry, Transact(n, e),
             \/ ~e.merged /\ e.status # "absent"
             \/ /\ e.merged = mem[n].merged /\ e.steps = mem[n].steps
                /\ e.status = mem[n].status \/ e.status \in Terminal
      PROVE  OInv'
  <2>1. /\ db[n] = "hosted" /\ Appended(n, e) /\ UNCHANGED <<lease, db, disk, branch, step, answers>>
        /\ op' = op /\ validate(mem[n], e)
    BY <1>2 DEF Transact
  <2>2. /\ mem[n].status \in Terminal => e = mem[n]
        /\ e.status = "open" => mem[n].status \in {"absent", "open"}
    BY <2>1 DEF validate, Terminal
  <2>3. e.status = "absent" => mem[n].status = "absent"
    BY <1>2 DEF Terminal
  <2>4. e.merged => mem[n].merged /\ e.steps = mem[n].steps
    BY <1>2
  <2> QED  BY <1>2, <2>1, <2>2, <2>3, <2>4, WriteO
<1>3. CASE OpenSaga(n)
  <2>1. [Absent EXCEPT !.status = "open"].status = "open" /\ ~[Absent EXCEPT !.status = "open"].merged
    BY DEF Absent
  <2> QED  BY <1>2, <1>3, <2>1, AbsentTypes DEF OpenSaga
<1>4. CASE OtherTx(n)
  BY <1>1, <1>2, <1>4 DEF OtherTx
<1>5. CASE ExtendSaga(n)
  <2> DEFINE e == [mem[n] EXCEPT !.late = FALSE]
  <2>1. e \in Entry /\ e.merged = mem[n].merged /\ e.steps = mem[n].steps /\ e.status = mem[n].status
    BY <1>1, EntryTypes DEF Entry
  <2>2. Transact(n, e)
    BY <1>5 DEF ExtendSaga
  <2> HIDE DEF e
  <2> QED  BY <1>2, <2>1, <2>2
<1>6. ASSUME NEW s \in {"committed", "aborted"}, FlipStatus(n, s) PROVE OInv'
  <2> DEFINE e == [mem[n] EXCEPT !.status = s, !.late = FALSE]
  <2>1. s \in Terminal
    BY DEF Terminal
  <2>2. e \in Entry
    BY <1>1, <2>1, EntryTypes
  <2>3. e.merged = mem[n].merged /\ e.steps = mem[n].steps /\ e.status = s
    BY <1>1 DEF Entry
  <2>4. Transact(n, e)
    BY <1>6 DEF FlipStatus
  <2> HIDE DEF e
  <2> QED  BY <1>2, <2>1, <2>2, <2>3, <2>4
<1> QED  BY <1>3, <1>4, <1>5, <1>6

(* The call of node n waits for its fence. *)
LEMMA Waiting ==
  ASSUME TypeOK, NEW n \in Node, op' = [op EXCEPT ![n].pc = "fence"]
  PROVE  \A m \in Node : /\ op'[m].onBranch = op[m].onBranch /\ op'[m].kind = op[m].kind
                         /\ op'[m] = op[m] \/ op'[m].pc = "fence"
<1>1. op \in [Node -> OpState] /\ op[n] \in OpState
  BY DEF TypeOK
<1>2. \A o \in OpState : /\ [o EXCEPT !.pc = "fence"].onBranch = o.onBranch
                         /\ [o EXCEPT !.pc = "fence"].kind = o.kind
                         /\ [o EXCEPT !.pc = "fence"].pc = "fence"
  BY DEF OpState
<1>3. op' = [op EXCEPT ![n] = [op[n] EXCEPT !.pc = "fence"]]
  OBVIOUS
<1>4. op'[n] = [op[n] EXCEPT !.pc = "fence"] /\ \A m \in Node : m # n => op'[m] = op[m]
  BY <1>1, <1>3
<1>5. op'[n].onBranch = op[n].onBranch /\ op'[n].kind = op[n].kind /\ op'[n].pc = "fence"
  BY <1>1, <1>2, <1>4
<1> QED  BY <1>4, <1>5

LEMMA CommitO ==
  ASSUME SInv, OInv, SInv', NEW n \in Node, CommitAppend(n)
  PROVE  OInv'
<1>1. /\ UNCHANGED <<lease, db, disk, branch, step, answers>> /\ mem[n].status = "open"
      /\ op[n].pc = "parent" /\ op[n].kind = "committed" /\ op' = [op EXCEPT ![n].pc = "fence"]
      /\ Appended(n, Merge(mem[n], branch[n])) \/ Appended(n, mem[n])
  BY DEF CommitAppend
<1>2. \A m \in Node : /\ op'[m].onBranch = op[m].onBranch /\ op'[m].kind = op[m].kind
                      /\ op'[m] = op[m] \/ op'[m].pc = "fence"
  BY <1>1, Waiting DEF SInv
<1>3. db[n] = "hosted" /\ op[n].onBranch /\ mem[n].status \notin Terminal
  BY <1>1, Idle DEF SInv, Parts, Hosting, Terminal, OInv, OverlayCalls
<1>4. mem[n] \in Entry /\ Sound(mem[n]) /\ branch[n] \in Overlay
  BY DEF SInv, Parts, Entries, TypeOK
<1>5. CASE Appended(n, mem[n])
  BY <1>1, <1>2, <1>3, <1>4, <1>5, WriteO
<1>6. CASE Appended(n, Merge(mem[n], branch[n]))
  <2>1. Merge(mem[n], branch[n]) \in Entry
    BY <1>1, <1>4, NewEntries
  <2>2. /\ Merge(mem[n], branch[n]).status = "committed"
        /\ Merge(mem[n], branch[n]).steps = branch[n].steps
    BY <1>4 DEF Merge, Entry
  <2> QED  BY <1>1, <1>2, <1>3, <1>6, <2>1, <2>2, WriteO
<1> QED  BY <1>1, <1>5, <1>6

LEMMA FinishAppendO ==
  ASSUME SInv, OInv, SInv', NEW n \in Node, FinishAppend(n)
  PROVE  OInv'
<1>1. /\ UNCHANGED <<lease, db, disk, branch, step, answers>> /\ mem[n].status = "open"
      /\ op[n].pc = "parent" /\ op[n].kind \in Terminal
  BY DEF FinishAppend, Terminal
<1>2. db[n] = "hosted" /\ mem[n].status \notin Terminal
  BY <1>1, Idle DEF SInv, Parts, Hosting, Terminal
<1>3. mem[n] \in Entry
  BY Shapes
<1>4. CASE UNCHANGED <<log, mem>> /\ op' = [op EXCEPT ![n] = NoOp]
  <2>1. \A m \in Node : op'[m] = IF m = n THEN NoOp ELSE op[m]
    BY <1>4, Shapes
  <2> QED  BY <1>1, <1>4, <2>1, QuietO DEF disk, answers, Tells
<1>5. ASSUME NEW c \in BOOLEAN, op' = [op EXCEPT ![n].pc = "fence"],
             Appended(n, [mem[n] EXCEPT !.status = op[n].kind, !.late = FALSE, !.comp = c])
      PROVE  OInv'
  <2> DEFINE e == [mem[n] EXCEPT !.status = op[n].kind, !.late = FALSE, !.comp = c]
  <2>1. \A m \in Node : /\ op'[m].onBranch = op[m].onBranch /\ op'[m].kind = op[m].kind
                        /\ op'[m] = op[m] \/ op'[m].pc = "fence"
    BY <1>5, Waiting DEF SInv
  <2>2. e \in Entry
    BY <1>1, <1>3, EntryTypes
  <2>3. e.status = op[n].kind /\ e.merged = mem[n].merged /\ e.steps = mem[n].steps
    BY <1>3 DEF Entry
  <2>4. Appended(n, e)
    BY <1>5
  <2> HIDE DEF e
  <2>5. e.status # "absent" /\ e.status # "open"
    BY <1>1, <2>3 DEF Terminal
  <2> QED  BY <1>1, <1>2, <2>1, <2>2, <2>3, <2>4, <2>5, WriteO
<1> QED  BY <1>4, <1>5 DEF FinishAppend

LEMMA FenceO ==
  ASSUME SInv, OInv, SInv', NEW n \in Node, TxFence(n) \/ OpFence(n)
  PROVE  OInv'
<1>1. UNCHANGED <<lease, log, disk, acked>>
  BY DEF TxFence, OpFence
<1>2. CASE ~Owns(n)
  BY <1>1, <1>2, LoseO DEF TxFence, OpFence
<1>3. CASE Owns(n)
  <2>1. /\ UNCHANGED <<db, mem, branch, step>> /\ Unfenced(n)
        /\ op' = op \/ op' = [op EXCEPT ![n] = NoOp]
    BY <1>3 DEF TxFence, OpFence, Unfenced
  <2>2. \A m \in Node : (m # n => op'[m] = op[m]) /\ op'[m] \in {op[m], NoOp}
    BY <2>1, Shapes
  <2>3. n = owner /\ db[n] = "hosted" /\ held[n] = term
    BY <1>3, <2>1, Idle DEF SInv, Parts, Hosting, Unfenced, Owns, Terms
  <2>4. held[n] = wrote
    <3>1. held[n] <= wrote /\ wrote <= term
      BY <2>1 DEF SInv, Parts, Written, Terms
    <3>2. term \in Nat /\ wrote \in Nat
      BY Nums DEF SInv
    <3> QED  BY <2>3, <3>1, <3>2, SMTT(60)
  <2>5. mem[n] = reg
    BY <2>3, <2>4 DEF SInv, Parts, Written
  <2>6. Tells
    BY <2>3, <2>5 DEF Tells, OInv, Carried
  <2> QED  BY <1>1, <2>1, <2>2, <2>6, QuietO DEF disk
<1> QED  BY <1>2, <1>3

LEMMA StepPrepareO ==
  ASSUME SInv, OInv, SInv', NEW n \in Node, StepPrepare(n)
  PROVE  OInv'
<1>1. /\ saga_branch(n) /\ BranchFree(n) /\ step_rules(n) /\ op' = op
      /\ UNCHANGED <<lease, db, log, mem, disk, answers>>
  BY DEF StepPrepare
<1>2. /\ \A m \in Node : m # n => step'[m] = step[m]
      /\ step'[n].pc = "append"
  BY Shapes DEF StepPrepare
<1>3. Live(n)' => mem[n].status = "open"
  BY <1>1 DEF Live, step_rules, lease
<1> QED  BY <1>1, <1>2, <1>3, BranchStep

LEMMA CommitLockO ==
  ASSUME SInv, OInv, SInv', NEW n \in Node, CommitLock(n)
  PROVE  OInv'
<1>1. /\ saga_branch(n) /\ BranchFree(n) /\ step' = step
      /\ UNCHANGED <<lease, db, log, mem, disk, answers>>
  BY DEF CommitLock
<1>2. /\ \A m \in Node : m # n => op'[m] = op[m]
      /\ op'[n] = [NoOp EXCEPT !.kind = "committed", !.pc = "parent", !.onBranch = TRUE]
  BY Shapes DEF CommitLock
<1>3. op'[n].onBranch /\ op'[n].pc = "parent"
  BY <1>2 DEF NoOp
<1> QED  BY <1>1, <1>2, <1>3, BranchStep

LEMMA FinishO ==
  ASSUME SInv, OInv, SInv', NEW n \in Node, Abort(n) \/ SweepExpire(n) \/ LivenessPass(n)
  PROVE  OInv'
<1>1. UNCHANGED <<lease, db, log, mem, disk, answers>> /\ step' = step
  BY DEF Abort, SweepExpire, LivenessPass, Finish
<1>2. Tells
  BY <1>1 DEF Tells, answers
<1>3. CASE op' = op /\ branch' = branch
  BY <1>1, <1>2, <1>3, QuietO DEF disk, answers
<1>4. ASSUME NEW s \in {"aborted", "expired"}, NEW f,
             op' = [op EXCEPT ![n] = Ending(n, s, f)], op'[n] = Ending(n, s, f),
             IF Ending(n, s, f).onBranch THEN BranchFree(n) /\ saga_branch(n) ELSE branch' = branch
      PROVE  OInv'
  <2>1. \A m \in Node : m # n => op'[m] = op[m]
    BY <1>4, Shapes
  <2>2. op'[n].pc = "parent" /\ op'[n].kind # "committed"
    BY <1>4 DEF Ending, NoOp
  <2>3. CASE op'[n].onBranch
    BY <1>1, <1>4, <2>1, <2>2, <2>3, BranchStep
  <2>4. CASE ~op'[n].onBranch
    BY <1>1, <1>2, <1>4, <2>1, <2>2, <2>4, QuietO DEF disk, answers
  <2> QED  BY <2>3, <2>4
<1> QED  BY <1>3, <1>4, FinishShape

LEMMA StepFenceO ==
  ASSUME SInv, OInv, SInv', NEW n \in Node, StepFence(n)
  PROVE  OInv'
<1>1. CASE Live(n) /\ Owns(n)
  BY <1>1, AckO
<1>2. CASE ~(Live(n) /\ Owns(n)) /\ ~ha
  BY <1>2, LoseO DEF StepFence
<1>3. CASE ~(Live(n) /\ Owns(n)) /\ ha
  <2>1. /\ UNCHANGED <<lease, db, log, mem, disk, branch, acked, told, op>>
        /\ step' = [step EXCEPT ![n] = NoStep]
    BY <1>3 DEF StepFence
  <2>2. \A m \in Node : step'[m] = IF m = n THEN NoStep ELSE step[m]
    BY <2>1, Shapes
  <2> QED  BY <2>1, <2>2, QuietO DEF disk, Tells
<1> QED  BY <1>1, <1>2, <1>3

LEMMA OtherO ==
  ASSUME SInv, OInv, SInv', NEW n \in Node, EnsureBranchMeta(n) \/ EndedAlready(n)
  PROVE  OInv'
<1>1. /\ UNCHANGED <<lease, db, log, mem, blog, bterm, branch, acked, told, step>>
      /\ op' = op \/ op' = [op EXCEPT ![n] = NoOp]
  BY DEF EnsureBranchMeta, EndedAlready, disk, answers
<1>2. \A m \in Node : (m # n => op'[m] = op[m]) /\ op'[m] \in {op[m], NoOp}
  BY <1>1, Shapes
<1> QED  BY <1>1, <1>2, QuietO DEF Tells

LEMMA NextO == SInv /\ OInv /\ SInv' /\ OneHandover' /\ [Next]_vars => OInv'
<1> SUFFICES ASSUME SInv, OInv, SInv', OneHandover', [Next]_vars PROVE OInv'
  OBVIOUS
<1>1. ASSUME NEW n \in Node, RenewLost(n) \/ Crash(n) PROVE OInv'
  BY <1>1, LoseO DEF RenewLost, Crash, answers
<1>2. CASE ForkDb \/ UNCHANGED vars
  <2>1. UNCHANGED <<lease, db, log, mem, disk, branch, answers, step, op>>
    BY <1>2 DEF ForkDb, vars, lease, log, disk, answers
  <2>2. First \in Node
    BY SagaAssumption
  <2> QED  BY <2>1, <2>2, QuietO DEF disk, answers, Tells
<1> QED
  BY <1>1, <1>2, AcquireO, OpenO, ExpiresO, TransactO, CommitO, FinishAppendO, FenceO, StepPrepareO,
     StepAppendO, StepFenceO, CommitLockO, FinishO, OtherO, DiscardO DEF Next

(* The second inductive invariant holds while the lease has passed once. *)
THEOREM OInvHolds == Spec /\ []OneHandover => []OInv
<1>1. Init => OInv
  BY InitO
<1>2. SInv /\ OInv /\ SInv' /\ OneHandover' /\ [Next]_vars => OInv'
  BY NextO
<1> QED  BY <1>1, <1>2, SInvHolds, PTL DEF Spec

(***************************************************************************)
(* saga_commit freezes the branch before it reads it.  While the lease has *)
(* passed from one holder to the next at most once, a merge whose caller   *)
(* was answered carries every step that was acknowledged, whichever of the *)
(* two holders wrote the steps and whichever merged them.  With a third    *)
(* term it need not: a node that gets the lease back keeps the overlay of  *)
(* its first term in its branches map.                                     *)
(***************************************************************************)
THEOREM MergeIsWhole == Spec /\ []OneHandover => []MergeCarriesAcked
<1>1. OInv => MergeCarriesAcked
  BY DEF OInv, Carried, MergeCarriesAcked
<1> QED  BY <1>1, OInvHolds, PTL

(***************************************************************************)
(* The fence of a step is the parent's lease, and a step is acknowledged   *)
(* after it.  While the lease has passed at most once, the branch log of   *)
(* an open saga holds every acknowledged step for the next node that opens *)
(* the branch: an append of the first holder that comes after the second   *)
(* one's is not read.                                                      *)
(***************************************************************************)
THEOREM AckedAreKept == Spec /\ []OneHandover => []AckedStepsKept
<1>1. OInv => AckedStepsKept
  BY DEF OInv, Kept, Some, AckedStepsKept
<1> QED  BY <1>1, OInvHolds, PTL

(***************************************************************************)
(* The registry that the holder of the lease serves shows no merge without *)
(* an acknowledged step, as long as the lease has passed at most once.     *)
(***************************************************************************)
THEOREM ServedIsWhole == Spec /\ []OneHandover => []ServedMergeComplete
<1>1. OInv => ServedMergeComplete
  BY DEF OInv, Carried, Owns, ServedMergeComplete
<1> QED  BY <1>1, OInvHolds, PTL
=============================================================================
