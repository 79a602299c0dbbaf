--------------------------- MODULE HaCommitProofs ---------------------------
(***************************************************************************)
(* What holds of the commit path for every number of processes, writers,   *)
(* transactions, lease versions, batches, faults and index passes.         *)
(***************************************************************************)
EXTENDS HaCommit, TLAPS

(* Leaves are for Zenon unless they say otherwise. *)
USE ZenonT(60)

(***************************************************************************)
(* The inductive invariant behind AckedDurable.                            *)
(***************************************************************************)

(* Lease versions in use, by a writer or by a record, have been granted. *)
VersionsGranted ==
  /\ \A w \in Writers : ver[w] <= root.version
  /\ \A s \in log : s.v <= root.version

(* A flush prepares records of its writer's version, with distinct t. *)
BatchWellFormed ==
  \A w \in Writers :
    /\ phase[w] \in {"free", "leased", "opened", "rooted"} => batch[w] = {}
    /\ \A r \in batch[w] : r.v = ver[w]
    /\ \A r, s \in batch[w] : r.t = s.t => r = s

(* How much of its batch a writer has made durable. *)
BatchProgress ==
  \A w \in Writers :
    /\ phase[w] = "installed" => batch[w] \subseteq log
    /\ phase[w] = "appending" => \A r \in batch[w] : r.t < next[w] => r \in log
    /\ phase[w] = "dead" => \A r \in batch[w] : next[w] <= r.t

(* A writer that can still append does so above what earlier versions acked. *)
AppendsAboveAcked ==
  \A w \in Writers, r \in acked :
    /\ phase[w] \in {"opened", "rooted"} \cup Serving \/ batch[w] # {}
    /\ r.v < ver[w]
    => r.t < next[w]

(* Acknowledged records are durable, below every record of a later version. *)
AckedBelowLater ==
  /\ acked \subseteq log
  /\ \A r \in acked, s \in log : r.v < s.v => r.t < s.t

IInv ==
  /\ TypeOK
  /\ VersionsGranted
  /\ BatchWellFormed
  /\ BatchProgress
  /\ AppendsAboveAcked
  /\ AckedBelowLater

-----------------------------------------------------------------------------
(* Init establishes the type invariant. *)
LEMMA InitType == Init => TypeOK
  BY ConstantsAssumption, SMTT(60) DEF Init, TypeOK, Versions, Times, Record, Phases

(* Every action of the commit path preserves the type invariant. *)
LEMMA NextType == TypeOK /\ [Next]_vars => TypeOK'
<1> SUFFICES ASSUME TypeOK, [Next]_vars PROVE TypeOK'
  OBVIOUS
<1> USE ConstantsAssumption DEF TypeOK, rootVars, logVars, handleVars,
        flushVars, pubVars, nodeVars, clientVars
<1>1. ASSUME NEW w \in Writers, NEW o \in Owners, Acquire(w, o) PROVE TypeOK'
  BY <1>1, SMTT(60) DEF Acquire, Versions, Phases
<1>2. ASSUME NEW w \in Writers, OpenLog(w) PROVE TypeOK'
  BY <1>2, SMTT(60) DEF OpenLog, Phases
<1>3. ASSUME NEW w \in Writers, ReadRoot(w) PROVE TypeOK'
  BY <1>3 DEF ReadRoot, Phases
<1>4. ASSUME NEW w \in Writers, Replay(w) PROVE TypeOK'
  BY <1>4, SMTT(60) DEF Replay, ReplayOf, Phases, Tail, Merged
<1>5. ASSUME NEW w \in Writers, OpenFails(w) PROVE TypeOK'
  BY <1>5 DEF OpenFails, Phases
<1>6. ASSUME NEW w \in Writers, NEW x \in Txs, Route(x, w) PROVE TypeOK'
  BY <1>6, SMTT(60) DEF Route
<1>7. ASSUME NEW w \in Writers, NEW x \in Txs, Prepare(w, x) PROVE TypeOK'
  BY <1>7, SMTT(60) DEF Prepare, Phases, Record, Times
<1>8. ASSUME NEW w \in Writers, NEW r \in batch[w], FileAppend(w, r) PROVE TypeOK'
  BY <1>8, SMTT(60) DEF FileAppend, Install, Phases, FileAccepts, Record, Times
<1>9. ASSUME NEW w \in Writers, NEW r \in batch[w], FileReject(w, r) PROVE TypeOK'
  BY <1>9 DEF FileReject, EndFlush, Answer, Phases
<1>10. ASSUME NEW w \in Writers, NEW r \in batch[w], FileError(w, r) PROVE TypeOK'
  BY <1>10, SMTT(60) DEF FileError, EndFlush, Answer, OneFault, Phases
<1>11. ASSUME NEW w \in Writers, NEW k \in Versions \X Times, PutBatch(w, k) PROVE TypeOK'
  BY <1>11, SMTT(60) DEF PutBatch, Land, Install, Phases, Times
<1>12. ASSUME NEW w \in Writers, NEW k \in Versions \X Times, PutError(w, k) PROVE TypeOK'
  BY <1>12, SMTT(60) DEF PutError, Land, EndFlush, Answer, OneFault, Phases
<1>13. ASSUME NEW w \in Writers, NEW k \in Versions \X Times, LatePut(w, k) PROVE TypeOK'
  BY <1>13 DEF LatePut, Land
<1>14. ASSUME NEW w \in Writers, PutReject(w) PROVE TypeOK'
  BY <1>14 DEF PutReject, EndFlush, Answer, Phases
<1>15. ASSUME NEW w \in Writers, FenceOk(w) PROVE TypeOK'
  BY <1>15 DEF FenceOk, EndFlush, Answer, Phases
<1>16. ASSUME NEW w \in Writers, FenceLost(w) PROVE TypeOK'
  BY <1>16 DEF FenceLost, Depose, EndFlush, Answer, Phases
<1>17. ASSUME NEW w \in Writers, FenceError(w) PROVE TypeOK'
  BY <1>17, SMTT(60) DEF FenceError, EndFlush, Answer, OneFault, Phases
<1>18. ASSUME NEW w \in Writers, RenewLost(w) PROVE TypeOK'
  BY <1>18 DEF RenewLost, Depose
<1>19. ASSUME NEW w \in Writers, Release(w) PROVE TypeOK'
  BY <1>19 DEF Release, Depose
<1>20. ASSUME NEW w \in Writers, BeginPass(w) PROVE TypeOK'
  BY <1>20, SMTT(60) DEF BeginPass
<1>21. ASSUME NEW w \in Writers, InstallRoot(w) PROVE TypeOK'
  BY <1>21 DEF InstallRoot, Publish
<1>22. ASSUME NEW w \in Writers, PassFenced(w) PROVE TypeOK'
  BY <1>22 DEF PassFenced, Depose
<1>23. ASSUME NEW o \in Owners, Crash(o) PROVE TypeOK'
  BY <1>23, SMTT(60) DEF Crash, Answer, OneFault, Phases
<1>24. CASE UNCHANGED vars
  BY <1>24 DEF vars
<1> QED
  BY <1>1, <1>2, <1>3, <1>4, <1>5, <1>6, <1>7, <1>8, <1>9, <1>10, <1>11, <1>12,
     <1>13, <1>14, <1>15, <1>16, <1>17, <1>18, <1>19, <1>20, <1>21, <1>22, <1>23,
     <1>24, Zenon DEF Next

(* Every reachable state of the commit path is well typed. *)
THEOREM TypeCorrect == Spec => []TypeOK
  BY InitType, NextType, PTL DEF Spec

-----------------------------------------------------------------------------
(* The parts of IInv other than the type invariant. *)
Parts == VersionsGranted /\ BatchWellFormed /\ BatchProgress
           /\ AppendsAboveAcked /\ AckedBelowLater

(* Every action of the commit path preserves the inductive invariant. *)
LEMMA NextParts == IInv /\ [Next]_vars => Parts'
<1> SUFFICES ASSUME IInv, [Next]_vars PROVE Parts'
  OBVIOUS
<1> USE ConstantsAssumption DEF IInv, TypeOK, rootVars, logVars, handleVars,
        flushVars, pubVars, nodeVars, clientVars, Parts, VersionsGranted,
        BatchWellFormed, BatchProgress, AppendsAboveAcked, AckedBelowLater
<1>1. ASSUME NEW w \in Writers, NEW o \in Owners, Acquire(w, o) PROVE Parts'
  BY <1>1, SMTT(60) DEF Acquire, Versions, Phases, Serving, Record
<1>2. ASSUME NEW w \in Writers, OpenLog(w) PROVE Parts'
  <2>1. VersionsGranted'
    BY <1>2 DEF OpenLog, Merged, IsLast, Serving, Record, Times, Versions
  <2>2. BatchWellFormed'
    BY <1>2 DEF OpenLog, Merged, IsLast, Serving, Record, Times, Versions
  <2>3. BatchProgress'
    BY <1>2, SMTT(60) DEF OpenLog, Merged, IsLast, Serving, Record, Times, Versions
  <2>4. AppendsAboveAcked'
    BY <1>2, SMTT(60) DEF OpenLog, Merged, IsLast, Serving, Record, Times, Versions
  <2>5. AckedBelowLater'
    BY <1>2 DEF OpenLog, Merged, IsLast, Serving, Record, Times, Versions
  <2> QED
    BY <2>1, <2>2, <2>3, <2>4, <2>5 DEF Parts
<1>3. ASSUME NEW w \in Writers, ReadRoot(w) PROVE Parts'
  BY <1>3, SMTT(60) DEF ReadRoot, Phases, Serving
<1>4. ASSUME NEW w \in Writers, Replay(w) PROVE Parts'
  BY <1>4 DEF Replay, ReplayOf, Phases, Serving
<1>5. ASSUME NEW w \in Writers, OpenFails(w) PROVE Parts'
  BY <1>5, SMTT(60) DEF OpenFails, Phases, Serving
<1>6. ASSUME NEW w \in Writers, NEW x \in Txs, Route(x, w) PROVE Parts'
  BY <1>6 DEF Route
<1>7. ASSUME NEW w \in Writers, NEW x \in Txs, Prepare(w, x) PROVE Parts'
  BY <1>7, SMTT(60) DEF Prepare, Phases, Record, Times, IsLast, Serving
<1>8. ASSUME NEW w \in Writers, NEW r \in batch[w], FileAppend(w, r) PROVE Parts'
  <2>1. VersionsGranted'
    BY <1>8, SMTT(60) DEF FileAppend, Install, Upcoming, FileAccepts, Record, Times, Versions, Serving
  <2>2. BatchWellFormed'
    BY <1>8, SMTT(60) DEF FileAppend, Install, Upcoming, FileAccepts, Record, Times, Versions, Serving
  <2>3. BatchProgress'
    <3>1. \A s \in batch[w] : s.t <= r.t => s \in log \cup {r}
      BY <1>8, SMTT(60) DEF FileAppend, Upcoming, FileAccepts, Record, Times
    <3>2. CASE \A s \in batch[w] : s.t <= r.t
      BY <1>8, <3>1, <3>2, SMTT(60) DEF FileAppend, Install, Record, Times
    <3>3. CASE ~ \A s \in batch[w] : s.t <= r.t
      <4>1. r.t = next[w] /\ next' = [next EXCEPT ![w] = @ + 1] /\ log' = log \cup {r}
            /\ phase' = [phase EXCEPT ![w] = "appending"] /\ batch' = batch
        BY <1>8, <3>3 DEF FileAppend, FileAccepts
      <4>2. \A s \in batch[w] : s.t < next'[w] => s \in log'
        BY <3>1, <4>1, SMTT(60) DEF Record, Times
      <4> QED
        BY <4>1, <4>2
    <3> QED
      BY <3>2, <3>3
  <2>4. AppendsAboveAcked'
    BY <1>8, SMTT(60) DEF FileAppend, Install, Upcoming, FileAccepts, Record, Times, Versions, Serving
  <2>5. AckedBelowLater'
    BY <1>8, SMTT(60) DEF FileAppend, Install, Upcoming, FileAccepts, Record, Times, Versions, Serving
  <2> QED
    BY <2>1, <2>2, <2>3, <2>4, <2>5 DEF Parts
<1>9. ASSUME NEW w \in Writers, NEW r \in batch[w], FileReject(w, r) PROVE Parts'
  BY <1>9 DEF FileReject, EndFlush, Phases, Upcoming, Serving
<1>10. ASSUME NEW w \in Writers, NEW r \in batch[w], FileError(w, r) PROVE Parts'
  BY <1>10, SMTT(60) DEF FileError, EndFlush, Phases, FileAccepts, Upcoming, Serving
<1>11. ASSUME NEW w \in Writers, NEW k \in Versions \X Times, PutBatch(w, k) PROVE Parts'
  <2>1. VersionsGranted'
    BY <1>11 DEF PutBatch, Land, Install, StartsAtNext, IsKey, IsLast, Record, Times, Versions, Serving
  <2>2. BatchWellFormed'
    BY <1>11 DEF PutBatch, Land, Install, StartsAtNext, IsKey, IsLast, Record, Times, Versions, Serving
  <2>3. BatchProgress'
    BY <1>11 DEF PutBatch, Land, Install, StartsAtNext, IsKey, IsLast, Record, Times, Versions, Serving
  <2>4. AppendsAboveAcked'
    BY <1>11, SMTT(60) DEF PutBatch, Land, Install, StartsAtNext, IsKey, IsLast, Record, Times, Versions, Serving
  <2>5. AckedBelowLater'
    BY <1>11, SMTT(60) DEF PutBatch, Land, Install, StartsAtNext, IsKey, IsLast, Record, Times, Versions, Serving
  <2> QED
    BY <2>1, <2>2, <2>3, <2>4, <2>5 DEF Parts
<1>12. ASSUME NEW w \in Writers, NEW k \in Versions \X Times, PutError(w, k) PROVE Parts'
  <2>1. VersionsGranted'
    BY <1>12 DEF PutError, Land, EndFlush, StartsAtNext, Record, Times, Versions, Serving
  <2>2. BatchWellFormed'
    BY <1>12 DEF PutError, Land, EndFlush, StartsAtNext, Record, Times, Versions, Serving
  <2>3. BatchProgress'
    BY <1>12 DEF PutError, Land, EndFlush, StartsAtNext, Record, Times, Versions, Serving
  <2>4. AppendsAboveAcked'
    BY <1>12 DEF PutError, Land, EndFlush, StartsAtNext, Record, Times, Versions, Serving
  <2>5. AckedBelowLater'
    BY <1>12, SMTT(60) DEF PutError, Land, EndFlush, StartsAtNext, Record, Times, Versions, Serving
  <2> QED
    BY <2>1, <2>2, <2>3, <2>4, <2>5 DEF Parts
<1>13. ASSUME NEW w \in Writers, NEW k \in Versions \X Times, LatePut(w, k) PROVE Parts'
  <2>1. VersionsGranted'
    BY <1>13 DEF LatePut, Land, Record, Times, Versions, Serving
  <2>2. BatchWellFormed'
    BY <1>13 DEF LatePut, Land, Record, Times, Versions, Serving
  <2>3. BatchProgress'
    BY <1>13 DEF LatePut, Land, Record, Times, Versions, Serving
  <2>4. AppendsAboveAcked'
    BY <1>13 DEF LatePut, Land, Record, Times, Versions, Serving
  <2>5. AckedBelowLater'
    BY <1>13, SMTT(60) DEF LatePut, Land, Record, Times, Versions, Serving
  <2> QED
    BY <2>1, <2>2, <2>3, <2>4, <2>5 DEF Parts
<1>14. ASSUME NEW w \in Writers, PutReject(w) PROVE Parts'
  BY <1>14 DEF PutReject, EndFlush, Phases, Serving
<1>15. ASSUME NEW w \in Writers, FenceOk(w) PROVE Parts'
  <2>1. VersionsGranted'
    BY <1>15 DEF FenceOk, EndFlush, Owns, Record, Times, Versions, Serving
  <2>2. BatchWellFormed'
    BY <1>15 DEF FenceOk, EndFlush, Owns, Record, Times, Versions, Serving
  <2>3. BatchProgress'
    BY <1>15 DEF FenceOk, EndFlush, Owns, Record, Times, Versions, Serving
  <2>4. AppendsAboveAcked'
    BY <1>15, SMTT(60) DEF FenceOk, EndFlush, Owns, Record, Times, Versions, Serving
  <2>5. AckedBelowLater'
    BY <1>15, SMTT(60) DEF FenceOk, EndFlush, Owns, Record, Times, Versions, Serving
  <2> QED
    BY <2>1, <2>2, <2>3, <2>4, <2>5 DEF Parts
<1>16. ASSUME NEW w \in Writers, FenceLost(w) PROVE Parts'
  BY <1>16 DEF FenceLost, EndFlush, Phases, Serving
<1>17. ASSUME NEW w \in Writers, FenceError(w) PROVE Parts'
  BY <1>17 DEF FenceError, EndFlush, Phases, Serving
<1>18. ASSUME NEW w \in Writers, RenewLost(w) PROVE Parts'
  BY <1>18 DEF RenewLost
<1>19. ASSUME NEW w \in Writers, Release(w) PROVE Parts'
  BY <1>19 DEF Release
<1>20. ASSUME NEW w \in Writers, BeginPass(w) PROVE Parts'
  BY <1>20 DEF BeginPass
<1>21. ASSUME NEW w \in Writers, InstallRoot(w) PROVE Parts'
  BY <1>21 DEF InstallRoot, Publish
<1>22. ASSUME NEW w \in Writers, PassFenced(w) PROVE Parts'
  BY <1>22 DEF PassFenced
<1>23. ASSUME NEW o \in Owners, Crash(o) PROVE Parts'
  BY <1>23 DEF Crash, Phases, StartsAtNext, Serving
<1>24. CASE UNCHANGED vars
  BY <1>24 DEF vars
<1> QED
  BY <1>1, <1>2, <1>3, <1>4, <1>5, <1>6, <1>7, <1>8, <1>9, <1>10, <1>11, <1>12,
     <1>13, <1>14, <1>15, <1>16, <1>17, <1>18, <1>19, <1>20, <1>21, <1>22, <1>23,
     <1>24, Zenon DEF Next

(* The inductive invariant holds in every reachable state. *)
LEMMA IInvHolds == Spec => []IInv
<1>1. Init => IInv
  <2> SUFFICES ASSUME Init PROVE IInv
    OBVIOUS
  <2>1. TypeOK
    BY InitType
  <2>2. Parts
    BY SMTT(60) DEF Init, Parts, VersionsGranted, BatchWellFormed, BatchProgress,
           AppendsAboveAcked, AckedBelowLater, Serving
  <2> QED
    BY <2>1, <2>2 DEF IInv, Parts
<1>2. IInv /\ [Next]_vars => IInv'
  BY NextType, NextParts DEF IInv, Parts
<1> QED
  BY <1>1, <1>2, PTL DEF Spec

(***************************************************************************)
(* No acknowledged transaction is ever lost, for any number of takeovers,  *)
(* stale appends, crashes and I/O errors: the ownership fence after the    *)
(* durable append (flush_commit_batch) and the cutoff of the merged log    *)
(* (version_cutoffs) together keep every acknowledged record.              *)
(***************************************************************************)
THEOREM AckedNeverLost == Spec => []AckedDurable
<1>1. IInv => AckedDurable
  BY DEF IInv, TypeOK, AckedBelowLater, AckedDurable, Merged
<1> QED
  BY <1>1, IInvHolds, PTL

(***************************************************************************)
(* Only FenceOk acknowledges, and what it acknowledges is in the merged    *)
(* log then: its records have the granted version, so no record of a later *)
(* version can have cut them off.                                          *)
(***************************************************************************)
LEMMA AckStep ==
  IInv /\ [Next]_vars =>
    \/ acked' = acked
    \/ log' = log /\ acked \subseteq acked' /\ acked' \subseteq Merged(log)
<1> SUFFICES ASSUME IInv, [Next]_vars
             PROVE  \/ acked' = acked
                    \/ log' = log /\ acked \subseteq acked' /\ acked' \subseteq Merged(log)
  OBVIOUS
<1>1. acked' = acked \/ \E w \in Writers : FenceOk(w)
  <2> USE DEF clientVars
  <2>1. ASSUME NEW w \in Writers, NEW o \in Owners, Acquire(w, o)
        PROVE  acked' = acked
    BY <2>1 DEF Acquire
  <2>2. ASSUME NEW w \in Writers,
               OpenLog(w) \/ ReadRoot(w) \/ Replay(w) \/ OpenFails(w)
        PROVE  acked' = acked
    BY <2>2 DEF OpenLog, ReadRoot, Replay, ReplayOf, OpenFails
  <2>3. ASSUME NEW w \in Writers, NEW x \in Txs, Route(x, w) \/ Prepare(w, x)
        PROVE  acked' = acked
    BY <2>3 DEF Route, Prepare
  <2>4. ASSUME NEW w \in Writers, NEW r \in batch[w],
               FileAppend(w, r) \/ FileReject(w, r) \/ FileError(w, r)
        PROVE  acked' = acked
    BY <2>4 DEF FileAppend, FileReject, FileError
  <2>5. ASSUME NEW w \in Writers, NEW k \in Versions \X Times,
               PutBatch(w, k) \/ PutError(w, k) \/ LatePut(w, k)
        PROVE  acked' = acked
    BY <2>5 DEF PutBatch, PutError, LatePut
  <2>6. ASSUME NEW w \in Writers, PutReject(w) \/ FenceLost(w) \/ FenceError(w)
        PROVE  acked' = acked
    BY <2>6 DEF PutReject, FenceLost, FenceError
  <2>7. ASSUME NEW w \in Writers,
               RenewLost(w) \/ Release(w) \/ BeginPass(w) \/ InstallRoot(w) \/ PassFenced(w)
        PROVE  acked' = acked
    BY <2>7 DEF RenewLost, Release, BeginPass, InstallRoot, PassFenced
  <2>8. ASSUME NEW o \in Owners, Crash(o) PROVE acked' = acked
    BY <2>8 DEF Crash
  <2>9. CASE UNCHANGED vars
    BY <2>9 DEF vars
  <2> QED
    BY <2>1, <2>2, <2>3, <2>4, <2>5, <2>6, <2>7, <2>8, <2>9 DEF Next
<1>2. ASSUME NEW w \in Writers, FenceOk(w)
      PROVE  log' = log /\ acked \subseteq acked' /\ acked' \subseteq Merged(log)
  <2>1. log' = log /\ acked' = acked \cup batch[w] /\ phase[w] = "installed"
        /\ ver[w] = root.version
    BY <1>2 DEF FenceOk, Owns, logVars
  <2>2. batch[w] \subseteq Merged(log)
    BY <2>1, <1>2, SMTT(60) DEF IInv, TypeOK, BatchProgress, BatchWellFormed, VersionsGranted, Merged,
                 Record, Versions
  <2>3. acked \subseteq Merged(log)
    BY DEF IInv, TypeOK, AckedBelowLater, Merged
  <2> QED
    BY <2>1, <2>2, <2>3
<1> QED
  BY <1>1, <1>2

(***************************************************************************)
(* The commit path implements DurableLog, for any number of processes,     *)
(* takeovers, stale appends, crashes and I/O errors: every step is an      *)
(* acknowledgement of committed records, or a change of the log that keeps *)
(* all the acknowledged ones (flush_commit_batch, version_cutoffs).        *)
(***************************************************************************)
THEOREM Implements == Spec => ImplementsDurableLog
<1>1. Init => Durable!Init
  BY DEF Init, Durable!Init, Merged
<1>2. IInv /\ IInv' /\ [Next]_vars => [Durable!Next]_(Durable!vars)
  <2> SUFFICES ASSUME IInv, IInv', [Next]_vars PROVE [Durable!Next]_(Durable!vars)
    OBVIOUS
  <2>1. acked' \subseteq Merged(log')
    BY DEF IInv, TypeOK, AckedBelowLater, Merged
  <2>2. CASE acked' = acked
    BY <2>1, <2>2 DEF Durable!Next, Durable!Change
  <2>3. CASE log' = log /\ acked \subseteq acked' /\ acked' \subseteq Merged(log)
    BY <2>3 DEF Durable!Next, Durable!Acknowledge, Merged
  <2> QED
    BY AckStep, <2>2, <2>3
<1> QED
  BY <1>1, <1>2, IInvHolds, PTL DEF Spec, ImplementsDurableLog, Durable!Spec

(***************************************************************************)
(* Only InstallRoot changes the published index, and only for a pass whose *)
(* version is the granted one, which is what Superseded compares under.    *)
(***************************************************************************)
LEMMA IndexStep == IInv /\ [Next]_vars => ~Newer(root.index, root'.index)
<1> SUFFICES ASSUME IInv, [Next]_vars PROVE ~Newer(root.index, root'.index)
  OBVIOUS
<1>1. \A r \in root.index : r.t \in Int
  BY SMTT(60) DEF IInv, TypeOK, Record, Times
<1>2. root'.index = root.index \/ \E w \in Writers : InstallRoot(w)
  <2> USE DEF rootVars
  <2>1. ASSUME NEW w \in Writers, NEW o \in Owners, Acquire(w, o)
        PROVE  root'.index = root.index
    BY <2>1 DEF Acquire
  <2>2. ASSUME NEW w \in Writers,
               OpenLog(w) \/ ReadRoot(w) \/ Replay(w) \/ OpenFails(w)
        PROVE  root' = root
    BY <2>2 DEF OpenLog, ReadRoot, Replay, ReplayOf, OpenFails
  <2>3. ASSUME NEW w \in Writers, NEW x \in Txs, Route(x, w) \/ Prepare(w, x)
        PROVE  root' = root
    BY <2>3 DEF Route, Prepare
  <2>4. ASSUME NEW w \in Writers, NEW r \in batch[w],
               FileAppend(w, r) \/ FileReject(w, r) \/ FileError(w, r)
        PROVE  root' = root
    BY <2>4 DEF FileAppend, FileReject, FileError
  <2>5. ASSUME NEW w \in Writers, NEW k \in Versions \X Times,
               PutBatch(w, k) \/ PutError(w, k) \/ LatePut(w, k)
        PROVE  root' = root
    BY <2>5 DEF PutBatch, PutError, LatePut
  <2>6. ASSUME NEW w \in Writers,
               PutReject(w) \/ FenceOk(w) \/ FenceLost(w) \/ FenceError(w)
        PROVE  root' = root
    BY <2>6 DEF PutReject, FenceOk, FenceLost, FenceError
  <2>7. ASSUME NEW w \in Writers,
               RenewLost(w) \/ Release(w) \/ BeginPass(w) \/ PassFenced(w)
        PROVE  root' = root
    BY <2>7 DEF RenewLost, Release, BeginPass, PassFenced
  <2>8. ASSUME NEW o \in Owners, Crash(o) PROVE root' = root
    BY <2>8 DEF Crash
  <2>9. CASE UNCHANGED vars
    BY <2>9 DEF vars
  <2> QED
    BY <2>1, <2>2, <2>3, <2>4, <2>5, <2>6, <2>7, <2>8, <2>9 DEF Next
<1>3. CASE root'.index = root.index
  BY <1>1, <1>3, SMTT(60) DEF Newer
<1>4. ASSUME NEW w \in Writers, InstallRoot(w) PROVE ~Newer(root.index, root'.index)
  <2>1. root.version = ver[w]
    BY <1>4, SMTT(60) DEF InstallRoot, IInv, TypeOK, VersionsGranted, Versions
  <2>2. CASE Superseded(w)
    <3>1. root' = root
      BY <1>4, <2>2 DEF InstallRoot
    <3> QED
      BY <1>3, <3>1
  <2>3. CASE ~Superseded(w)
    <3>1. root'.index = pub[w]
      BY <1>4, <2>3 DEF InstallRoot, Publish
    <3> QED
      BY <2>1, <2>3, <3>1 DEF Superseded
  <2> QED
    BY <2>2, <2>3
<1> QED
  BY <1>2, <1>3, <1>4

(***************************************************************************)
(* Index publication is monotone in the basis for any number of publishers *)
(* and takeovers: a pass of a fenced writer installs nothing and a pass of *)
(* the current one never replaces a newer index (publish_root_pinned).     *)
(***************************************************************************)
THEOREM IndexMonotone == Spec => IndexNeverRollsBack
  BY IInvHolds, IndexStep, PTL DEF Spec, IndexNeverRollsBack

-----------------------------------------------------------------------------
(***************************************************************************)
(* Takeover.  A value read from the index misses nothing acknowledged      *)
(* earlier at or below its basis; a value that is served misses nothing    *)
(* acknowledged earlier.                                                   *)
(***************************************************************************)
SnapshotCovers ==
  \A w \in Writers : phase[w] = "rooted" =>
    \A r \in acked : r.v < ver[w] /\ (\E s \in value[w] : r.t <= s.t) => r \in value[w]

(* What most steps do to the values: nothing, or a batch more. *)
ValuesGrow ==
  /\ acked' = acked
  /\ \A w \in Writers : phase'[w] = "rooted" \/ phase'[w] \in Serving =>
       ver'[w] = ver[w] /\ value[w] \subseteq value'[w]
  /\ \A w \in Writers : phase'[w] = "rooted" => phase[w] = "rooted" /\ value'[w] = value[w]
  /\ \A w \in Writers : phase'[w] \in Serving => phase[w] \in Serving

LEMMA ValueSteps ==
  ASSUME TypeOK, [Next]_vars
  PROVE  \/ ValuesGrow
         \/ \E w \in Writers : ReadRoot(w) \/ Replay(w) \/ FenceOk(w)
<1> USE DEF TypeOK, ValuesGrow, Serving, rootVars, logVars, handleVars, flushVars,
            pubVars, nodeVars, clientVars
<1>1. ASSUME NEW w \in Writers, NEW o \in Owners, Acquire(w, o) PROVE ValuesGrow
  BY <1>1 DEF Acquire
<1>2. ASSUME NEW w \in Writers, OpenLog(w) PROVE ValuesGrow
  BY <1>2 DEF OpenLog
<1>3. ASSUME NEW w \in Writers, OpenFails(w) PROVE ValuesGrow
  BY <1>3 DEF OpenFails
<1>4. ASSUME NEW w \in Writers, NEW x \in Txs, Route(x, w) \/ Prepare(w, x) PROVE ValuesGrow
  BY <1>4 DEF Route, Prepare
<1>5. ASSUME NEW w \in Writers, NEW r \in batch[w], FileAppend(w, r) PROVE ValuesGrow
  BY <1>5, SMTT(60) DEF FileAppend, Install, Upcoming
<1>6. ASSUME NEW w \in Writers, NEW r \in batch[w], FileReject(w, r) \/ FileError(w, r)
      PROVE  ValuesGrow
  BY <1>6 DEF FileReject, FileError, EndFlush, Upcoming
<1>7. ASSUME NEW w \in Writers, NEW k \in Versions \X Times, PutBatch(w, k) PROVE ValuesGrow
  BY <1>7 DEF PutBatch, Install
<1>8. ASSUME NEW w \in Writers, NEW k \in Versions \X Times, PutError(w, k) \/ LatePut(w, k)
      PROVE  ValuesGrow
  BY <1>8 DEF PutError, LatePut, EndFlush
<1>9. ASSUME NEW w \in Writers, PutReject(w) \/ FenceLost(w) \/ FenceError(w)
      PROVE  ValuesGrow
  BY <1>9 DEF PutReject, FenceLost, FenceError, EndFlush
<1>10. ASSUME NEW w \in Writers, RenewLost(w) \/ Release(w) PROVE ValuesGrow
  BY <1>10 DEF RenewLost, Release
<1>11. ASSUME NEW w \in Writers, BeginPass(w) \/ InstallRoot(w) \/ PassFenced(w)
       PROVE  ValuesGrow
  BY <1>11 DEF BeginPass, InstallRoot, PassFenced
<1>12. ASSUME NEW o \in Owners, Crash(o) PROVE ValuesGrow
  BY <1>12 DEF Crash
<1>13. CASE UNCHANGED vars
  BY <1>13 DEF vars
<1> HIDE DEF TypeOK, ValuesGrow
<1> QED
  BY <1>1, <1>2, <1>3, <1>4, <1>5, <1>6, <1>7, <1>8, <1>9, <1>10, <1>11, <1>12,
     <1>13, Zenon DEF Next

(* The versions that the lease and the nodes carry are numbers. *)
LEMMA VersionTypes ==
  ASSUME TypeOK
  PROVE  root.version \in Int /\ \A u \in Writers : ver[u] \in Int
<1>1. root.version \in Versions /\ \A u \in Writers : ver[u] \in Versions
  BY DEF TypeOK
<1>2. Versions \subseteq Int
  BY SMTT(60) DEF Versions
<1> QED  BY <1>1, <1>2

(* The t of every record is a number. *)
LEMMA RecordTimes ==
  ASSUME NEW R \in SUBSET Record
  PROVE  \A r \in R : r.t \in Int
BY SMTT(60) DEF Record, Times

LEMMA TakeoverStep ==
  ASSUME IInv, IndexCoversAcked, SnapshotCovers, SuccessorComplete, [Next]_vars
  PROVE  SnapshotCovers' /\ SuccessorComplete'
<1>1. CASE ValuesGrow
  BY <1>1 DEF ValuesGrow, SnapshotCovers, SuccessorComplete
<1>2. ASSUME NEW w \in Writers, ReadRoot(w)
      PROVE  SnapshotCovers' /\ SuccessorComplete'
  <2>1. /\ acked' = acked /\ ver' = ver
        /\ value' = [value EXCEPT ![w] = root.index]
        /\ phase' = [phase EXCEPT ![w] = "rooted"]
    BY <1>2 DEF ReadRoot, nodeVars, clientVars
  <2>2. value \in [Writers -> SUBSET Record] /\ phase \in [Writers -> Phases]
    BY DEF IInv, TypeOK
  <2>3. SnapshotCovers'
    BY <2>1, <2>2 DEF SnapshotCovers, IndexCoversAcked
  <2>4. SuccessorComplete'
    BY <2>1, <2>2 DEF SuccessorComplete, Serving
  <2> QED
    BY <2>3, <2>4
<1>3. ASSUME NEW w \in Writers, Replay(w)
      PROVE  SnapshotCovers' /\ SuccessorComplete'
  <2>1. PICK rs : /\ rs \in {value[w] \cup Tail(Merged(log), value[w]), Merged(log)}
                  /\ ReplayOf(w, rs)
    BY <1>3 DEF Replay
  <2>2. /\ phase[w] = "rooted" /\ acked' = acked /\ ver' = ver
        /\ value' = [value EXCEPT ![w] = rs]
        /\ phase' = [phase EXCEPT ![w] = "idle"]
    BY <2>1 DEF ReplayOf, clientVars
  <2>3. value \in [Writers -> SUBSET Record] /\ phase \in [Writers -> Phases]
    BY DEF IInv, TypeOK
  <2>4. acked \subseteq Merged(log)
    BY DEF IInv, TypeOK, AckedBelowLater, Merged
  <2>5. \A r \in acked : r.v < ver[w] => r \in rs
    <3> SUFFICES ASSUME NEW r \in acked, r.v < ver[w],
                        rs = value[w] \cup Tail(Merged(log), value[w])
                 PROVE  r \in rs
      BY <2>1, <2>4
    <3>1. CASE \E s \in value[w] : r.t <= s.t
      BY <2>2, <3>1 DEF SnapshotCovers
    <3>2. CASE \A s \in value[w] : s.t < r.t
      BY <2>4, <3>2 DEF Tail
    <3>3. r.t \in Int /\ \A s \in value[w] : s.t \in Int
      <4>1. acked \in SUBSET Record /\ value[w] \in SUBSET Record
        BY DEF IInv, TypeOK
      <4> QED
        BY <4>1, RecordTimes
    <3> QED
      BY <3>1, <3>2, <3>3, SMTT(60)
  <2>6. SnapshotCovers'
    BY <2>2, <2>3 DEF SnapshotCovers
  <2>7. SuccessorComplete'
    BY <2>2, <2>3, <2>5 DEF SuccessorComplete
  <2> QED
    BY <2>6, <2>7
<1>4. ASSUME NEW w \in Writers, FenceOk(w)
      PROVE  SnapshotCovers' /\ SuccessorComplete'
  <2>1. /\ acked' = acked \cup batch[w] /\ ver' = ver /\ value' = value
        /\ phase' = [phase EXCEPT ![w] = "idle"] /\ phase[w] = "installed"
    BY <1>4 DEF FenceOk, EndFlush, nodeVars
  <2>2. phase \in [Writers -> Phases]
    BY DEF IInv, TypeOK
  <2>3. \A r \in batch[w], u \in Writers : ~(r.v < ver[u])
    <3>1. \A r \in batch[w] : r.v = root.version
      BY <1>4 DEF FenceOk, Owns, IInv, BatchWellFormed
    <3>2. \A u \in Writers : ver[u] <= root.version
      BY DEF IInv, VersionsGranted
    <3>3. root.version \in Int /\ \A u \in Writers : ver[u] \in Int
      BY VersionTypes DEF IInv
    <3> QED
      BY <3>1, <3>2, <3>3, SMTT(60)
  <2>4. SnapshotCovers'
    BY <2>1, <2>2, <2>3 DEF SnapshotCovers
  <2>5. SuccessorComplete'
    BY <2>1, <2>2, <2>3 DEF SuccessorComplete, Serving
  <2> QED
    BY <2>4, <2>5
<1> QED
  BY <1>1, <1>2, <1>3, <1>4, ValueSteps DEF IInv

(***************************************************************************)
(* Takeover loses nothing, for any number of takeovers, stale appends and  *)
(* crashes: as long as the published indexes miss no acknowledged record   *)
(* at or below their basis, every value recovered from an index and the    *)
(* tail of the log, or from all of the log (recover_transactor), has every *)
(* transaction acknowledged under an earlier version.                      *)
(***************************************************************************)
THEOREM TakeoverComplete == Spec /\ []IndexCoversAcked => []SuccessorComplete
<1>1. Init => SnapshotCovers /\ SuccessorComplete
  BY DEF Init, SnapshotCovers, SuccessorComplete, Serving
<1> QED
  BY <1>1, IInvHolds, TakeoverStep, PTL DEF Spec

=============================================================================
