------------------------------ MODULE PgSession ------------------------------
(***************************************************************************)
(* SQL transactions over the PostgreSQL wire (corium-pgwire lib.rs,        *)
(* corium-sql mutation.rs, corium-cli pg_catalog.rs): sessions of one      *)
(* server share a peer connection whose value may lag behind the           *)
(* transactor.  A BEGIN block pins a value, stages each mutation on it as  *)
(* transaction forms and submits the forms as one transaction guarded by   *)
(* the pinned basis.                                                       *)
(*                                                                         *)
(* The table has a key column (a unique identity) and a value column.  A   *)
(* message is a simple query, which may hold several statements, or an     *)
(* Execute of the extended protocol, after which errors skip to Sync.      *)
(***************************************************************************)
EXTENDS Tx

CONSTANTS
  None,
  Sessions,
  Block,        \* length of a block of ids leased to a saga
  Deployments   \* bounds: messages of each session, transactions (t), faults, sagas;
                \* rows at the start; the mutations [kind: insert, update or delete,
                \* key, v], the protocols (extended or not), and whether queries of
                \* two statements are sent

VARIABLES
  deploy,
  hist,      \* the value and derived next id at every t; t is Len(hist) - 1
  cursor,    \* the transactor's next_user
  leased,    \* the block leased to an open saga: a set of ids
  peer,      \* basis of the shared connection
  sess,      \* ConnectionSession
  acks,      \* the mutations answered in the session's block
  spoilt,    \* whether the session's block was answered an error
  saw,       \* what the block read since its last mutation, or None
  sent, faults, sagas

vars == <<deploy, hist, cursor, leased, peer, sess, acks, spoilt, saw, sent, faults, sagas>>
client == <<acks, spoilt, saw>>
bounds == <<deploy, faults, sagas>>
node == <<hist, cursor, leased>>

Key == 1
Val == 2
T == Len(hist) - 1
At(t) == hist[t + 1]
Head_ == hist[Len(hist)]

NewSession == [failed |-> FALSE, in_transaction |-> FALSE, transaction_failed |-> FALSE,
               transaction |-> None, todo |-> <<>>, extended |-> FALSE, plan |-> None]

Init ==
  /\ deploy \in Deployments
  /\ hist = <<[db |-> {<<i, Key, i>> : i \in 1..deploy.rows} \cup {<<i, Val, 0>> : i \in 1..deploy.rows},
               seq |-> deploy.rows + 1]>>
  /\ cursor = deploy.rows + 1 /\ leased = {} /\ peer = 0
  /\ sess = [s \in Sessions |-> NewSession]
  /\ acks = [s \in Sessions |-> <<>>] /\ spoilt = [s \in Sessions |-> FALSE]
  /\ saw = [s \in Sessions |-> None]
  /\ sent = [s \in Sessions |-> 0] /\ faults = 0 /\ sagas = 0

-----------------------------------------------------------------------------
(* Mutations become transaction forms *)

Op(op, e, a, v) == [op |-> op, e |-> e, a |-> a, v |-> <<"val", v>>, old |-> {}]
RowIds(db) == SetToSortSeq({f[1] : f \in db}, LAMBDA a, b : a < b)
OldOf(db, e, a, keep) == SetToSeq(values(db, e, a) \ keep)

\* The tempid of a statement's row, distinct from those of other statements.
namespace_tempids(statement) == <<"temp", statement>>

plan_insert(st, n) ==
  <<Op("add", namespace_tempids(n), Key, st.key), Op("add", namespace_tempids(n), Val, st.v)>>

plan_update(db, st) ==
  FlattenSeq([i \in DOMAIN RowIds(db) |->
    LET e == RowIds(db)[i]
        old == OldOf(db, e, Val, {st.v})
    IN [j \in DOMAIN old |-> Op("retract", <<"id", e>>, Val, old[j])]
       \o IF st.v \in values(db, e, Val) THEN <<>> ELSE <<Op("add", <<"id", e>>, Val, st.v)>>])

plan_delete(db, st) ==
  FlattenSeq([i \in DOMAIN RowIds(db) |->
    LET e == RowIds(db)[i]
        Gone(a) == LET old == OldOf(db, e, a, {})
                   IN [j \in DOMAIN old |-> Op("retract", <<"id", e>>, a, old[j])]
    IN IF st.key \in values(db, e, Key) THEN Gone(Key) \o Gone(Val) ELSE <<>>])

plan(db, st, n) ==
  CASE st.kind = "insert" -> plan_insert(st, n)
    [] st.kind = "update" -> plan_update(db, st)
    [] st.kind = "delete" -> plan_delete(db, st)

\* The value after a transaction, and the next id derived from its datoms.
With(db, seq, datoms) ==
  [db |-> apply_transaction(db, datoms),
   seq |-> Max0({seq} \cup {x.fact[1] + 1 : x \in {datoms[i] : i \in DOMAIN datoms}})]

-----------------------------------------------------------------------------
(* The transactor *)

\* Mutant: the guard on the basis is dropped.
TransactBlind(basis, forms) ==
  LET p == prepare(Head_.db, forms, cursor, <<>>)
  IN IF T < deploy.t /\ p.ok
     THEN [ok |-> TRUE, after |-> With(Head_.db, Head_.seq, p.datoms), next |-> p.next]
     ELSE [ok |-> FALSE]

\* transact_at: a basis other than the head's is a conflict; a transaction that
\* names a leased id, or that prepare refuses, is rejected.
transact_at(basis, forms) ==
  LET p == prepare(Head_.db, forms, cursor, <<>>)
  IN IF /\ T < deploy.t /\ basis = T /\ p.ok
        /\ \A i \in DOMAIN p.datoms : p.datoms[i].fact[1] \notin leased
     THEN [ok |-> TRUE, after |-> With(Head_.db, Head_.seq, p.datoms), next |-> p.next]
     ELSE [ok |-> FALSE]

Commits(r) == hist' = Append(hist, r.after) /\ cursor' = r.next /\ UNCHANGED leased

\* The peer's value follows the transactor's.
PeerAdvance ==
  /\ peer < T /\ peer' = peer + 1
  /\ UNCHANGED <<bounds, node, sess, client, sent>>

\* A saga's opening takes an id for its grant and leases the block after it.
OpenSaga ==
  /\ sagas < deploy.sagas /\ leased = {} /\ T < deploy.t
  /\ sagas' = sagas + 1
  /\ hist' = Append(hist, [db |-> Head_.db, seq |-> cursor + 1])
  /\ leased' = cursor + 1 .. cursor + Block
  /\ cursor' = cursor + 1 + Block
  /\ UNCHANGED <<deploy, faults, peer, sess, client, sent>>

\* It ends without merging: the block is a hole the allocator never revisits.
EndSaga ==
  /\ leased # {} /\ T < deploy.t
  /\ leased' = {} /\ hist' = Append(hist, Head_)
  /\ UNCHANGED <<bounds, cursor, peer, sess, client, sent>>

-----------------------------------------------------------------------------
(* A session *)

Idle(s) == sess[s].todo = <<>> /\ sess[s].plan = None

\* One answer: the statement is done, or an error ends the query string and, in
\* the extended protocol, skips what follows up to Sync.
Done(s, r) == sess' = [sess EXCEPT ![s] = [r EXCEPT !.todo = IF @ = <<>> THEN @ ELSE Tail(@),
                                                     !.plan = None]]

report_dispatch(s, r) ==
  sess' = [sess EXCEPT ![s] =
             [r EXCEPT !.todo = <<>>, !.plan = None, !.failed = r.extended,
                       !.transaction_failed = @ \/ r.in_transaction]]

Spoil(s) == spoilt' = [spoilt EXCEPT ![s] = @ \/ sess[s].in_transaction]

begin_transaction(r) ==
  IF r.in_transaction THEN r
  ELSE [r EXCEPT !.in_transaction = TRUE, !.transaction_failed = FALSE, !.transaction = None]

end_transaction(r) ==
  [r EXCEPT !.in_transaction = FALSE, !.transaction_failed = FALSE, !.transaction = None]

\* Mutant: a block reads the connection's value each time.
snapshot_fresh(r) ==
  IF r.in_transaction
  THEN [r EXCEPT !.transaction =
          [base |-> peer, db |-> At(peer).db, seq |-> At(peer).seq,
           forms |-> IF @ = None THEN <<>> ELSE @.forms, n |-> IF @ = None THEN 0 ELSE @.n]]
  ELSE r

\* The first statement of a block pins the connection's value.
snapshot(r) ==
  IF r.in_transaction /\ r.transaction = None
  THEN [r EXCEPT !.transaction = [base |-> peer, db |-> At(peer).db, seq |-> At(peer).seq,
                                  forms |-> <<>>, n |-> 0]]
  ELSE r

Send(s, stmts, ext) ==
  /\ Idle(s) /\ ~sess[s].failed /\ sent[s] < deploy.messages[s]
  /\ sent' = [sent EXCEPT ![s] = @ + 1]
  /\ sess' = [sess EXCEPT ![s].todo = stmts, ![s].extended = ext]
  /\ UNCHANGED <<bounds, node, peer, client>>

Kind == [kind : {"begin", "commit", "rollback", "read", "bad"}]
simple_query(s) ==
  /\ FALSE \in deploy.extended
  /\ \/ \E st \in deploy.stmts \cup Kind : Send(s, <<st>>, FALSE)
     \/ deploy.pairs /\ \E a, b \in deploy.stmts \cup Kind : Send(s, <<a, b>>, FALSE)

Execute(s) == TRUE \in deploy.extended /\ \E st \in deploy.stmts \cup Kind : Send(s, <<st>>, TRUE)

Sync(s) ==
  /\ Idle(s) /\ sess[s].failed
  /\ sess' = [sess EXCEPT ![s].failed = FALSE]
  /\ UNCHANGED <<bounds, node, peer, client, sent>>

\* Mutant: an error outside a statement leaves the block usable.
BindSkips(s) ==
  /\ TRUE \in deploy.extended /\ Idle(s) /\ ~sess[s].failed /\ sent[s] < deploy.messages[s]
  /\ sent' = [sent EXCEPT ![s] = @ + 1]
  /\ sess' = [sess EXCEPT ![s].failed = TRUE]
  /\ Spoil(s)
  /\ UNCHANGED <<bounds, node, peer, acks, saw>>

\* Parse, Bind, Describe or an unknown portal fails: fail_extended.
fail_extended(s) ==
  /\ TRUE \in deploy.extended /\ Idle(s) /\ ~sess[s].failed /\ sent[s] < deploy.messages[s]
  /\ sent' = [sent EXCEPT ![s] = @ + 1]
  /\ sess' = [sess EXCEPT ![s].failed = TRUE, ![s].transaction_failed = @ \/ sess[s].in_transaction]
  /\ Spoil(s)
  /\ UNCHANGED <<bounds, node, peer, acks, saw>>

Running(s, kind) == sess[s].todo # <<>> /\ sess[s].plan = None /\ Head(sess[s].todo).kind = kind
Usable(s) == ~sess[s].transaction_failed

\* In an aborted block every statement but ROLLBACK is refused.
Refuse(s) ==
  /\ sess[s].todo # <<>> /\ ~Usable(s) /\ ~Running(s, "rollback")
  /\ report_dispatch(s, sess[s])
  /\ UNCHANGED <<bounds, node, peer, client, sent>>

Begin(s) ==
  /\ Running(s, "begin") /\ Usable(s)
  /\ Done(s, begin_transaction(sess[s]))
  /\ acks' = [acks EXCEPT ![s] = IF sess[s].in_transaction THEN @ ELSE <<>>]
  /\ UNCHANGED <<bounds, node, peer, spoilt, saw, sent>>

Rollback(s) ==
  /\ Running(s, "rollback")
  /\ Done(s, end_transaction(sess[s]))
  /\ acks' = [acks EXCEPT ![s] = <<>>]
  /\ spoilt' = [spoilt EXCEPT ![s] = FALSE]
  /\ saw' = [saw EXCEPT ![s] = None]
  /\ UNCHANGED <<bounds, node, peer, sent>>

Bad(s) ==
  /\ Running(s, "bad") /\ Usable(s)
  /\ report_dispatch(s, snapshot(sess[s]))
  /\ Spoil(s)
  /\ UNCHANGED <<bounds, node, peer, acks, saw, sent>>

Read(s) ==
  /\ Running(s, "read") /\ Usable(s)
  /\ LET r == snapshot(sess[s])
     IN  /\ Done(s, r)
         /\ saw' = [saw EXCEPT ![s] = IF r.in_transaction THEN r.transaction.db ELSE None]
  /\ UNCHANGED <<bounds, node, peer, acks, spoilt, sent>>

Mutation(s) ==
  sess[s].todo # <<>> /\ sess[s].plan = None /\ Head(sess[s].todo) \in deploy.stmts /\ Usable(s)

\* A mutation of a block is prepared on its provisional value.
Stage(s) ==
  /\ Mutation(s) /\ sess[s].in_transaction
  /\ LET r == snapshot(sess[s])
         tx == r.transaction
         st == Head(r.todo)
         forms == plan(tx.db, st, tx.n)
         p == prepare(tx.db, forms, tx.seq, <<>>)
         after == With(tx.db, tx.seq, p.datoms)
     IN  IF p.ok
         THEN /\ Done(s, [r EXCEPT !.transaction =
                            IF forms = <<>> THEN tx
                            ELSE [base |-> tx.base, db |-> after.db, seq |-> after.seq,
                                  forms |-> tx.forms \o forms, n |-> tx.n + 1]])
              /\ acks' = [acks EXCEPT ![s] = Append(@, st)]
              /\ saw' = [saw EXCEPT ![s] = None]
              /\ UNCHANGED spoilt
         ELSE report_dispatch(s, r) /\ Spoil(s) /\ UNCHANGED <<acks, saw>>
  /\ UNCHANGED <<bounds, node, peer, sent>>

\* Outside a block it is planned on the connection's value and then submitted.
Plan(s) ==
  /\ Mutation(s) /\ ~sess[s].in_transaction
  /\ LET forms == plan(At(peer).db, Head(sess[s].todo), 0)
     IN  IF forms = <<>> THEN Done(s, sess[s])
         ELSE sess' = [sess EXCEPT ![s].plan = [basis |-> peer, forms |-> forms,
                                                st |-> Head(sess[s].todo)]]
  /\ UNCHANGED <<bounds, node, peer, client, sent>>

Fault == faults < deploy.faults /\ faults' = faults + 1

\* The outcome of a submission: acknowledged, refused, or an error that may
\* follow a commit.  The peer waits for what it committed.
Submit(s) ==
  /\ sess[s].plan # None
  /\ LET r == transact_at(sess[s].plan.basis, sess[s].plan.forms)
     IN  \/ r.ok /\ Commits(r) /\ Done(s, sess[s]) /\ peer' = T + 1 /\ UNCHANGED faults
         \/ ~r.ok /\ report_dispatch(s, sess[s]) /\ UNCHANGED <<node, peer, faults>>
         \/ r.ok /\ Fault /\ Commits(r) /\ report_dispatch(s, sess[s]) /\ UNCHANGED peer
         \/ Fault /\ report_dispatch(s, sess[s]) /\ UNCHANGED <<node, peer>>
  /\ UNCHANGED <<deploy, sagas, client, sent>>

\* The block ends whatever the outcome.
commit_transaction(s) ==
  /\ Running(s, "commit") /\ Usable(s)
  /\ LET tx == sess[s].transaction
         over == end_transaction(sess[s])
         r == transact_at(tx.base, tx.forms)
     IN  IF (IF tx = None THEN TRUE ELSE tx.forms = <<>>)
         THEN Done(s, over) /\ UNCHANGED <<node, peer, faults>>
         ELSE \/ r.ok /\ Commits(r) /\ Done(s, over) /\ peer' = T + 1 /\ UNCHANGED faults
              \/ ~r.ok /\ report_dispatch(s, over) /\ UNCHANGED <<node, peer, faults>>
              \/ r.ok /\ Fault /\ Commits(r) /\ report_dispatch(s, over) /\ UNCHANGED peer
              \/ Fault /\ report_dispatch(s, over) /\ UNCHANGED <<node, peer>>
  /\ acks' = [acks EXCEPT ![s] = <<>>]
  /\ saw' = [saw EXCEPT ![s] = None]
  /\ UNCHANGED <<deploy, sagas, spoilt, sent>>

Next ==
  \/ PeerAdvance \/ OpenSaga \/ EndSaga
  \/ \E s \in Sessions :
       \/ simple_query(s) \/ Execute(s) \/ Sync(s) \/ fail_extended(s)
       \/ Refuse(s) \/ Begin(s) \/ Rollback(s) \/ Bad(s) \/ Read(s)
       \/ Stage(s) \/ Plan(s) \/ Submit(s) \/ commit_transaction(s)

Spec == Init /\ [][Next]_vars

-----------------------------------------------------------------------------
(* Properties *)

\* Every variable stays in its type; staged writes belong to an open block.
TypeOK ==
  /\ deploy \in Deployments /\ peer \in 0..T /\ T <= deploy.t
  /\ cursor \in Nat /\ leased \subseteq Nat
  /\ \A s \in Sessions :
       /\ sess[s].failed \in BOOLEAN /\ sess[s].extended \in BOOLEAN
       /\ sess[s].transaction # None => sess[s].in_transaction
       /\ sess[s].transaction_failed => sess[s].in_transaction
       /\ sess[s].plan # None => ~sess[s].in_transaction
       /\ acks[s] \in Seq(deploy.stmts)

\* The table as SQL sees it, and what a statement means there.
Rows(db) == {<<values(db, e, Key), values(db, e, Val)>> : e \in {f[1] : f \in db}}
Effect(rows, st) ==
  CASE st.kind = "insert" -> {r \in rows : r[1] # {st.key}} \cup {<<{st.key}, {st.v}>>}
    [] st.kind = "update" -> {<<r[1], {st.v}>> : r \in rows}
    [] st.kind = "delete" -> {r \in rows : r[1] # {st.key}}

Submits(s) == hist' # hist /\ sess'[s] # sess[s]
Work(s) == IF sess[s].plan # None THEN <<sess[s].plan.st>> ELSE acks[s]
Serial(s) == Rows(hist'[Len(hist')].db) = FoldLeft(Effect, Rows(Head_.db), Work(s))

\* Transactions are serial: what commits is the effect of exactly the
\* statements the session was answered for, one after the other, on the value
\* the transactor holds at that moment, although they were planned on a value
\* that may have been stale and submitted as one set of forms
\* (pgwire lib.rs run_mutation and commit_transaction).  Without leased blocks.
CommitSerial ==
  [][deploy.sagas = 0 => \A s \in Sessions : Submits(s) => Serial(s)]_vars

\* The same whether or not a saga has leased ids.
CommitAsStaged ==
  [][\A s \in Sessions : Submits(s) => Serial(s)]_vars

\* Nothing of a block commits once any message of the block was answered an
\* error, in either protocol (pgwire lib.rs report_dispatch, fail_extended).
AbortedNeverCommits ==
  [][\A s \in Sessions : Submits(s) => ~spoilt[s]]_vars

\* A block reads the same value again whatever others commit, until it changes
\* the value itself (pgwire lib.rs snapshot).  The states are well typed.
RepeatableRead ==
  /\ []TypeOK
  /\ [][\A s \in Sessions : saw[s] # None /\ saw'[s] # None => saw'[s] = saw[s]]_vars
=============================================================================
