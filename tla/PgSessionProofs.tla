--------------------------- MODULE PgSessionProofs ---------------------------
(***************************************************************************)
(* Proofs about PgSession, for any sessions, statements and bounds; what   *)
(* prepare makes of a transaction's forms does not matter to them.         *)
(***************************************************************************)
EXTENDS PgSession, TLAPS

(* Leaves are for Zenon unless they say otherwise. *)
USE ZenonT(60)

Fields == {"failed", "in_transaction", "transaction_failed", "transaction", "todo", "extended",
           "plan"}

(***************************************************************************)
(* A session: it is aborted only within a block, stages only in a block,   *)
(* and submits a statement of its own only outside of one.                 *)
(***************************************************************************)
Consistent(r) ==
  /\ DOMAIN r = Fields
  /\ r.transaction_failed => r.in_transaction
  /\ r.transaction # None => r.in_transaction
  /\ r.plan # None => ~r.in_transaction

(* A block that was answered an error is aborted until it is rolled back. *)
Told(r, b) == b => r.in_transaction /\ r.transaction_failed

PInv ==
  /\ sess = [s \in Sessions |-> sess[s]] /\ spoilt = [s \in Sessions |-> spoilt[s]]
  /\ \A s \in Sessions : Consistent(sess[s]) /\ Told(sess[s], spoilt[s])

-----------------------------------------------------------------------------
(* What the operations make of a session *)

(* The fields that a change leaves alone, but for what is staged. *)
Same(r, q) ==
  /\ DOMAIN q = Fields
  /\ q.in_transaction = r.in_transaction /\ q.transaction_failed = r.transaction_failed

LEMMA Answered ==
  ASSUME NEW r, DOMAIN r = Fields, NEW x
  PROVE  LET d == [r EXCEPT !.todo = x, !.plan = None]
         IN  Same(r, d) /\ d.plan = None /\ d.transaction = r.transaction
  BY SMTT(60) DEF Fields, Same

LEMMA Reported ==
  ASSUME NEW r, DOMAIN r = Fields
  PROVE  LET d == [r EXCEPT !.todo = <<>>, !.plan = None, !.failed = r.extended,
                            !.transaction_failed = @ \/ r.in_transaction]
         IN  /\ DOMAIN d = Fields /\ d.in_transaction = r.in_transaction
             /\ d.plan = None /\ d.transaction = r.transaction
             /\ d.transaction_failed = (r.transaction_failed \/ r.in_transaction)
  BY SMTT(60) DEF Fields

LEMMA Staged ==
  ASSUME NEW r, DOMAIN r = Fields, NEW x
  PROVE  LET d == [r EXCEPT !.transaction = x] IN Same(r, d) /\ d.plan = r.plan /\ d.todo = r.todo
  BY SMTT(60) DEF Fields, Same

(* A snapshot pins a value in a block and leaves the rest. *)
LEMMA Pinned ==
  ASSUME NEW r, Consistent(r)
  PROVE  Consistent(snapshot(r)) /\ Same(r, snapshot(r)) /\ snapshot(r).plan = r.plan
  <1>1. CASE r.in_transaction /\ r.transaction = None
    <2> DEFINE x == [base |-> peer, db |-> At(peer).db, seq |-> At(peer).seq,
                     forms |-> <<>>, n |-> 0]
               d == [r EXCEPT !.transaction = x]
    <2>1. snapshot(r) = d BY <1>1 DEF snapshot
    <2> HIDE DEF x
    <2>2. DOMAIN r = Fields BY DEF Consistent
    <2>3. Same(r, d) /\ d.plan = r.plan BY <2>2, Staged
    <2> HIDE DEF d
    <2>4. Consistent(d) BY <1>1, <2>3 DEF Consistent, Same
    <2> QED BY <2>1, <2>3, <2>4
  <1>2. CASE ~(r.in_transaction /\ r.transaction = None)
    BY <1>2 DEF snapshot, Same, Consistent
  <1> QED BY <1>1, <1>2

LEMMA Begun ==
  ASSUME NEW r, Consistent(r), r.plan = None, ~r.transaction_failed
  PROVE  Consistent(begin_transaction(r))
  <1>1. CASE r.in_transaction BY <1>1 DEF begin_transaction
  <1>2. CASE ~r.in_transaction
    <2> DEFINE d == [r EXCEPT !.in_transaction = TRUE, !.transaction_failed = FALSE,
                              !.transaction = None]
    <2>1. /\ DOMAIN d = Fields /\ d.in_transaction = TRUE /\ d.transaction_failed = FALSE
          /\ d.plan = r.plan
      BY SMTT(60) DEF Consistent, Fields
    <2>2. begin_transaction(r) = d BY <1>2 DEF begin_transaction
    <2> HIDE DEF d
    <2> QED BY <2>1, <2>2 DEF Consistent
  <1> QED BY <1>1, <1>2

LEMMA Ended ==
  ASSUME NEW r, Consistent(r)
  PROVE  LET d == end_transaction(r)
         IN  /\ DOMAIN d = Fields /\ d.in_transaction = FALSE /\ d.transaction_failed = FALSE
             /\ d.transaction = None /\ d.plan = r.plan
  BY SMTT(60) DEF Consistent, Fields, end_transaction

-----------------------------------------------------------------------------
(* Steps of a session *)

(* A step of one session keeps the invariant if the session's state does. *)
LEMMA Moves ==
  ASSUME PInv, NEW s \in Sessions, NEW q, sess' = [sess EXCEPT ![s] = q], Consistent(q),
         spoilt' = spoilt \/ (\E b : spoilt' = [spoilt EXCEPT ![s] = b]), Told(q, spoilt'[s])
  PROVE  PInv'
  <1>1. \A m \in Sessions : sess'[m] = IF m = s THEN q ELSE sess[m] BY DEF PInv
  <1>2. \A m \in Sessions : m # s => spoilt'[m] = spoilt[m] BY DEF PInv
  <1>3. sess' = [m \in Sessions |-> sess'[m]] BY DEF PInv
  <1>4. spoilt' = [m \in Sessions |-> spoilt'[m]] BY DEF PInv
  <1> QED BY <1>1, <1>2, <1>3, <1>4 DEF PInv

(* One answered statement. *)
LEMMA DoneStep ==
  ASSUME PInv, NEW s \in Sessions, NEW r, Done(s, r), Consistent(r),
         spoilt' = spoilt \/ (\E b : spoilt' = [spoilt EXCEPT ![s] = b]), Told(r, spoilt'[s])
  PROVE  PInv'
  <1> DEFINE x == IF r.todo = <<>> THEN r.todo ELSE Tail(r.todo)
             d == [r EXCEPT !.todo = x, !.plan = None]
  <1>1. sess' = [sess EXCEPT ![s] = d] BY DEF Done
  <1>4. DOMAIN r = Fields BY DEF Consistent
  <1> HIDE DEF x
  <1>2. Same(r, d) /\ d.plan = None /\ d.transaction = r.transaction BY <1>4, Answered
  <1> HIDE DEF d
  <1>3. Consistent(d) /\ Told(d, spoilt'[s]) BY <1>2 DEF Consistent, Same, Told
  <1> QED BY <1>1, <1>3, Moves

(* An error answered, which aborts the block there is. *)
LEMMA ReportStep ==
  ASSUME PInv, NEW s \in Sessions, NEW r, report_dispatch(s, r), Consistent(r),
         spoilt' = spoilt \/ (\E b : spoilt' = [spoilt EXCEPT ![s] = b]),
         spoilt'[s] => r.in_transaction
  PROVE  PInv'
  <1> DEFINE d == [r EXCEPT !.todo = <<>>, !.plan = None, !.failed = r.extended,
                            !.transaction_failed = @ \/ r.in_transaction]
  <1>1. sess' = [sess EXCEPT ![s] = d] BY DEF report_dispatch
  <1>2. /\ DOMAIN d = Fields /\ d.in_transaction = r.in_transaction
        /\ d.plan = None /\ d.transaction = r.transaction
        /\ d.transaction_failed = (r.transaction_failed \/ r.in_transaction)
    BY Reported DEF Consistent
  <1> HIDE DEF d
  <1>3. Consistent(d) BY <1>2 DEF Consistent
  <1>4. Told(d, spoilt'[s]) BY <1>2 DEF Told
  <1> QED BY <1>1, <1>3, <1>4, Moves

LEMMA SendStep ==
  ASSUME PInv, NEW s \in Sessions, NEW stmts, NEW ext, Send(s, stmts, ext)
  PROVE  PInv'
  <1> DEFINE d == [sess[s] EXCEPT !.todo = stmts, !.extended = ext]
  <1>1. sess' = [sess EXCEPT ![s] = d] /\ spoilt' = spoilt BY DEF Send, client
  <1>2. Consistent(sess[s]) /\ Told(sess[s], spoilt[s]) BY DEF PInv
  <1>3. DOMAIN sess[s] = Fields BY <1>2 DEF Consistent
  <1>4. Same(sess[s], d) /\ d.plan = sess[s].plan /\ d.transaction = sess[s].transaction
    BY <1>3, SMTT(60) DEF Same, Fields
  <1> HIDE DEF d
  <1>5. Consistent(d) /\ Told(d, spoilt'[s]) BY <1>1, <1>2, <1>4 DEF Consistent, Same, Told
  <1> QED BY <1>1, <1>5, Moves

LEMMA SyncStep ==
  ASSUME PInv, NEW s \in Sessions, Sync(s)
  PROVE  PInv'
  <1> DEFINE d == [sess[s] EXCEPT !.failed = FALSE]
  <1>1. sess' = [sess EXCEPT ![s] = d] /\ spoilt' = spoilt BY DEF Sync, client
  <1>2. Consistent(sess[s]) /\ Told(sess[s], spoilt[s]) BY DEF PInv
  <1>3. DOMAIN sess[s] = Fields BY <1>2 DEF Consistent
  <1>4. Same(sess[s], d) /\ d.plan = sess[s].plan /\ d.transaction = sess[s].transaction
    BY <1>3, SMTT(60) DEF Same, Fields
  <1> HIDE DEF d
  <1>5. Consistent(d) /\ Told(d, spoilt'[s]) BY <1>1, <1>2, <1>4 DEF Consistent, Same, Told
  <1> QED BY <1>1, <1>5, Moves

(* An error outside a statement spoils and aborts the block alike. *)
LEMMA FailExtendedStep ==
  ASSUME PInv, NEW s \in Sessions, fail_extended(s)
  PROVE  PInv'
  <1> DEFINE r == sess[s]
             d == [r EXCEPT !.failed = TRUE, !.transaction_failed = @ \/ r.in_transaction]
  <1>1. sess' = [sess EXCEPT ![s] = d] BY DEF fail_extended
  <1>2. spoilt' = [spoilt EXCEPT ![s] = spoilt[s] \/ r.in_transaction]
    BY DEF fail_extended, Spoil
  <1>3. Consistent(r) /\ Told(r, spoilt[s]) BY DEF PInv
  <1>4. spoilt'[s] => r.in_transaction BY <1>2, <1>3 DEF PInv, Told
  <1> HIDE DEF r
  <1>5. DOMAIN r = Fields BY <1>3 DEF Consistent
  <1>6. /\ DOMAIN d = Fields /\ d.in_transaction = r.in_transaction
        /\ d.plan = r.plan /\ d.transaction = r.transaction
        /\ d.transaction_failed = (r.transaction_failed \/ r.in_transaction)
    BY <1>5, SMTT(60) DEF Fields
  <1> HIDE DEF d
  <1>7. Consistent(d) BY <1>3, <1>6 DEF Consistent
  <1>8. Told(d, spoilt'[s]) BY <1>4, <1>6 DEF Told
  <1>9. \E b : spoilt' = [spoilt EXCEPT ![s] = b] BY <1>2
  <1> QED BY <1>1, <1>7, <1>8, <1>9, Moves

LEMMA RefuseStep ==
  ASSUME PInv, NEW s \in Sessions, Refuse(s)
  PROVE  PInv'
  <1>1. report_dispatch(s, sess[s]) /\ spoilt' = spoilt BY DEF Refuse, client
  <1>2. Consistent(sess[s]) /\ Told(sess[s], spoilt[s]) BY DEF PInv
  <1>3. spoilt'[s] => sess[s].in_transaction BY <1>1, <1>2 DEF Told
  <1> QED BY <1>1, <1>2, <1>3, ReportStep

LEMMA BeginStep ==
  ASSUME PInv, NEW s \in Sessions, Begin(s)
  PROVE  PInv'
  <1>1. /\ Done(s, begin_transaction(sess[s])) /\ spoilt' = spoilt
        /\ sess[s].plan = None /\ ~sess[s].transaction_failed
    BY DEF Begin, Running, Usable
  <1>2. Consistent(sess[s]) /\ Told(sess[s], spoilt[s]) BY DEF PInv
  <1>3. Consistent(begin_transaction(sess[s])) BY <1>1, <1>2, Begun
  <1>4. ~spoilt'[s] BY <1>1, <1>2 DEF Told
  <1>5. Told(begin_transaction(sess[s]), spoilt'[s]) BY <1>4 DEF Told
  <1> QED BY <1>1, <1>3, <1>5, DoneStep

LEMMA RollbackStep ==
  ASSUME PInv, NEW s \in Sessions, Rollback(s)
  PROVE  PInv'
  <1> DEFINE over == end_transaction(sess[s])
  <1>1. /\ Done(s, over) /\ sess[s].plan = None
        /\ spoilt' = [spoilt EXCEPT ![s] = FALSE]
    BY DEF Rollback, Running
  <1>2. Consistent(sess[s]) BY DEF PInv
  <1>3. /\ DOMAIN over = Fields /\ over.in_transaction = FALSE
        /\ over.transaction_failed = FALSE /\ over.transaction = None /\ over.plan = sess[s].plan
    BY <1>2, Ended
  <1> HIDE DEF over
  <1>4. Consistent(over) BY <1>1, <1>3 DEF Consistent
  <1>5. ~spoilt'[s] BY <1>1 DEF PInv
  <1>6. Told(over, spoilt'[s]) BY <1>5 DEF Told
  <1>7. \E b : spoilt' = [spoilt EXCEPT ![s] = b] BY <1>1
  <1> QED BY <1>1, <1>4, <1>6, <1>7, DoneStep

(* An error of a statement, after its snapshot. *)
LEMMA ErrorStep ==
  ASSUME PInv, NEW s \in Sessions, report_dispatch(s, snapshot(sess[s])), Spoil(s)
  PROVE  PInv'
  <1>1. spoilt' = [spoilt EXCEPT ![s] = spoilt[s] \/ sess[s].in_transaction] BY DEF Spoil
  <1>2. Consistent(sess[s]) /\ Told(sess[s], spoilt[s]) BY DEF PInv
  <1>3. Consistent(snapshot(sess[s])) /\ Same(sess[s], snapshot(sess[s])) BY <1>2, Pinned
  <1>4. spoilt'[s] => sess[s].in_transaction BY <1>1, <1>2 DEF PInv, Told
  <1>5. spoilt'[s] => snapshot(sess[s]).in_transaction BY <1>3, <1>4 DEF Same
  <1>6. \E b : spoilt' = [spoilt EXCEPT ![s] = b] BY <1>1
  <1> QED BY <1>3, <1>5, <1>6, ReportStep

LEMMA ReadStep ==
  ASSUME PInv, NEW s \in Sessions, Read(s)
  PROVE  PInv'
  <1>1. Done(s, snapshot(sess[s])) /\ spoilt' = spoilt BY DEF Read
  <1>2. Consistent(sess[s]) /\ Told(sess[s], spoilt[s]) BY DEF PInv
  <1>3. Consistent(snapshot(sess[s])) /\ Same(sess[s], snapshot(sess[s])) BY <1>2, Pinned
  <1>4. Told(snapshot(sess[s]), spoilt'[s]) BY <1>1, <1>2, <1>3 DEF Told, Same
  <1> QED BY <1>1, <1>3, <1>4, DoneStep

LEMMA StageStep ==
  ASSUME PInv, NEW s \in Sessions, Stage(s)
  PROVE  PInv'
  <1>1. \/ spoilt' = spoilt /\ \E x : Done(s, [snapshot(sess[s]) EXCEPT !.transaction = x])
        \/ report_dispatch(s, snapshot(sess[s])) /\ Spoil(s)
    BY DEF Stage
  <1>2. sess[s].in_transaction /\ sess[s].plan = None BY DEF Stage, Mutation
  <1>3. CASE spoilt' = spoilt /\ \E x : Done(s, [snapshot(sess[s]) EXCEPT !.transaction = x])
    <2> DEFINE r == snapshot(sess[s])
    <2>1. Consistent(sess[s]) /\ Told(sess[s], spoilt[s]) BY DEF PInv
    <2>2. Consistent(r) /\ Same(sess[s], r) /\ r.plan = None BY <1>2, <2>1, Pinned
    <2> HIDE DEF r
    <2>3. PICK x : Done(s, [r EXCEPT !.transaction = x]) BY <1>3 DEF r
    <2> DEFINE d == [r EXCEPT !.transaction = x]
    <2>4. DOMAIN r = Fields BY <2>2 DEF Consistent
    <2>5. Same(r, d) /\ d.plan = r.plan BY <2>4, Staged
    <2> HIDE DEF d
    <2>6. Consistent(d) /\ Told(d, spoilt'[s])
      BY <1>2, <1>3, <2>1, <2>2, <2>5 DEF Consistent, Same, Told
    <2>7. Done(s, d) BY <2>3 DEF d
    <2> QED BY <1>3, <2>6, <2>7, DoneStep
  <1>4. CASE report_dispatch(s, snapshot(sess[s])) /\ Spoil(s) BY <1>4, ErrorStep
  <1> QED BY <1>1, <1>3, <1>4

LEMMA PlanStep ==
  ASSUME PInv, NEW s \in Sessions, Plan(s)
  PROVE  PInv'
  <1>1. /\ Done(s, sess[s]) \/ \E x : sess' = [sess EXCEPT ![s].plan = x]
        /\ spoilt' = spoilt /\ ~sess[s].in_transaction
    BY DEF Plan, client
  <1>2. Consistent(sess[s]) /\ Told(sess[s], spoilt[s]) BY DEF PInv
  <1>3. CASE Done(s, sess[s])
    <2>1. Told(sess[s], spoilt'[s]) BY <1>1, <1>2
    <2> QED BY <1>1, <1>2, <1>3, <2>1, DoneStep
  <1>4. CASE \E x : sess' = [sess EXCEPT ![s].plan = x]
    <2>1. PICK x : sess' = [sess EXCEPT ![s].plan = x] BY <1>4
    <2> DEFINE d == [sess[s] EXCEPT !.plan = x]
    <2>2. DOMAIN sess[s] = Fields BY <1>2 DEF Consistent
    <2>3. Same(sess[s], d) /\ d.transaction = sess[s].transaction
      BY <2>2, SMTT(60) DEF Same, Fields
    <2>4. sess' = [sess EXCEPT ![s] = d] BY <2>1
    <2> HIDE DEF d
    <2>5. Consistent(d) /\ Told(d, spoilt'[s]) BY <1>1, <1>2, <2>3 DEF Consistent, Same, Told
    <2> QED BY <1>1, <2>4, <2>5, Moves
  <1> QED BY <1>1, <1>3, <1>4

LEMMA SubmitStep ==
  ASSUME PInv, NEW s \in Sessions, Submit(s)
  PROVE  PInv'
  <1>1. (Done(s, sess[s]) \/ report_dispatch(s, sess[s])) /\ spoilt' = spoilt
    BY DEF Submit, client
  <1>2. Consistent(sess[s]) /\ Told(sess[s], spoilt[s]) BY DEF PInv
  <1>3. Told(sess[s], spoilt'[s]) BY <1>1, <1>2
  <1>4. spoilt'[s] => sess[s].in_transaction BY <1>3 DEF Told
  <1> QED BY <1>1, <1>2, <1>3, <1>4, DoneStep, ReportStep

LEMMA CommitStep ==
  ASSUME PInv, NEW s \in Sessions, commit_transaction(s)
  PROVE  PInv'
  <1> DEFINE over == end_transaction(sess[s])
  <1>1. (Done(s, over) \/ report_dispatch(s, over)) /\ spoilt' = spoilt
    BY DEF commit_transaction
  <1>2. sess[s].plan = None /\ ~sess[s].transaction_failed
    BY DEF commit_transaction, Running, Usable
  <1>3. Consistent(sess[s]) /\ Told(sess[s], spoilt[s]) BY DEF PInv
  <1>4. /\ DOMAIN over = Fields /\ over.in_transaction = FALSE
        /\ over.transaction_failed = FALSE /\ over.transaction = None /\ over.plan = sess[s].plan
    BY <1>3, Ended
  <1> HIDE DEF over
  <1>5. Consistent(over) BY <1>2, <1>4 DEF Consistent
  <1>6. ~spoilt'[s] BY <1>1, <1>2, <1>3 DEF Told
  <1>7. Told(over, spoilt'[s]) BY <1>6 DEF Told
  <1> QED BY <1>1, <1>5, <1>6, <1>7, DoneStep, ReportStep

-----------------------------------------------------------------------------
(* The theorems *)

LEMMA PInvInit == ASSUME Init PROVE PInv
  <1>1. /\ sess = [s \in Sessions |-> NewSession] /\ spoilt = [s \in Sessions |-> FALSE]
    BY DEF Init
  <1>2. Consistent(NewSession)
    <2>1. DOMAIN NewSession = Fields BY SMTT(60) DEF NewSession, Fields
    <2>2. /\ NewSession.transaction_failed = FALSE /\ NewSession.transaction = None
          /\ NewSession.plan = None
      BY DEF NewSession
    <2> QED BY <2>1, <2>2 DEF Consistent
  <1>3. \A s \in Sessions : sess[s] = NewSession /\ spoilt[s] = FALSE BY <1>1
  <1> QED BY <1>1, <1>2, <1>3 DEF PInv, Told

LEMMA PInvNext == ASSUME PInv, [Next]_vars PROVE PInv'
  <1>1. CASE UNCHANGED vars \/ PeerAdvance \/ OpenSaga \/ EndSaga
    <2>1. sess' = sess /\ spoilt' = spoilt
      BY <1>1 DEF vars, PeerAdvance, OpenSaga, EndSaga, client
    <2> QED BY <2>1 DEF PInv
  <1>2. ASSUME NEW s \in Sessions,
               \/ simple_query(s) \/ Execute(s) \/ Sync(s) \/ fail_extended(s)
               \/ Refuse(s) \/ Begin(s) \/ Rollback(s) \/ Bad(s) \/ Read(s)
               \/ Stage(s) \/ Plan(s) \/ Submit(s) \/ commit_transaction(s)
        PROVE PInv'
    <2>1. CASE simple_query(s) \/ Execute(s) BY <2>1, SendStep DEF simple_query, Execute
    <2>2. CASE Bad(s) BY <2>2, ErrorStep DEF Bad
    <2> QED BY <1>2, <2>1, <2>2, SyncStep, FailExtendedStep, RefuseStep, BeginStep,
               RollbackStep, ReadStep, StageStep, PlanStep, SubmitStep, CommitStep
  <1> QED BY <1>1, <1>2 DEF Next

(* A session is aborted, and has staged writes, only within a block, and   *)
(* its block is aborted from the error it is answered to the rollback      *)
(* (pgwire lib.rs begin_transaction, report_dispatch, fail_extended): for  *)
(* any sessions and messages, in either protocol.                          *)
THEOREM PInvHolds == Spec => []PInv
  BY PInvInit, PInvNext, PTL DEF Spec

(* Only a submission of the session changes the log in a step of it. *)
LEMMA SubmitsOnly ==
  ASSUME PInv, [Next]_vars, NEW s \in Sessions, Submits(s)
  PROVE  (sess[s].plan # None) \/ ~sess[s].transaction_failed
  <1>1. hist' # hist /\ sess'[s] # sess[s] BY DEF Submits
  <1>2. CASE UNCHANGED vars \/ PeerAdvance \/ OpenSaga \/ EndSaga
    <2>1. sess' = sess BY <1>2 DEF vars, PeerAdvance, OpenSaga, EndSaga
    <2> QED BY <1>1, <2>1
  <1>3. ASSUME NEW m \in Sessions,
               \/ simple_query(m) \/ Execute(m) \/ Sync(m) \/ fail_extended(m)
               \/ Refuse(m) \/ Begin(m) \/ Rollback(m) \/ Bad(m) \/ Read(m)
               \/ Stage(m) \/ Plan(m)
        PROVE FALSE
    <2>1. hist' = hist
      BY <1>3 DEF simple_query, Execute, Send, Sync, fail_extended, Refuse, Begin, Rollback, Bad,
                  Read, Stage, Plan, node
    <2> QED BY <1>1, <2>1
  <1>4. ASSUME NEW m \in Sessions, Submit(m) \/ commit_transaction(m)
        PROVE (sess[s].plan # None) \/ ~sess[s].transaction_failed
    <2>1. \E q : sess' = [sess EXCEPT ![m] = q]
      BY <1>4 DEF Submit, commit_transaction, Done, report_dispatch
    <2>2. m = s BY <1>1, <2>1 DEF PInv
    <2>3. CASE Submit(m) BY <2>2, <2>3 DEF Submit
    <2>4. CASE commit_transaction(m) BY <2>2, <2>4 DEF commit_transaction, Usable
    <2> QED BY <1>4, <2>3, <2>4
  <1> QED BY <1>2, <1>3, <1>4 DEF Next

(* Nothing of a block commits once a message of the block was answered an  *)
(* error: commit_transaction runs only in a block that is not aborted, and *)
(* a statement of its own is submitted only outside of a block.            *)
THEOREM AbortedStaysOut == Spec => AbortedNeverCommits
  <1>1. ASSUME PInv, [Next]_vars PROVE \A s \in Sessions : Submits(s) => ~spoilt[s]
    <2>1. ASSUME NEW s \in Sessions, Submits(s) PROVE ~spoilt[s]
      <3>1. Consistent(sess[s]) /\ Told(sess[s], spoilt[s]) BY <1>1 DEF PInv
      <3>2. (sess[s].plan # None) \/ ~sess[s].transaction_failed BY <1>1, <2>1, SubmitsOnly
      <3> QED BY <3>1, <3>2 DEF Consistent, Told
    <2> QED BY <2>1
  <1>2. PInv /\ [Next]_vars => [\A s \in Sessions : Submits(s) => ~spoilt[s]]_vars BY <1>1
  <1> QED BY <1>2, PInvHolds, PTL DEF Spec, AbortedNeverCommits
=============================================================================
