---------------------------- MODULE MCPgSession ----------------------------
(* PgSession under several sets of bounds, one chosen in the initial state. *)
EXTENDS PgSession

Insert(k, x) == [kind |-> "insert", key |-> k, v |-> x]
Update(x) == [kind |-> "update", key |-> 0, v |-> x]
Delete(k) == [kind |-> "delete", key |-> k, v |-> 0]

One(a, b) == [s \in Sessions |-> IF s = CHOOSE x \in Sessions : TRUE THEN a ELSE b]
Base == [messages |-> One(5, 1), t |-> 2, faults |-> 0, sagas |-> 0, rows |-> 1, pairs |-> FALSE,
         extended |-> {FALSE}, stmts |-> {Insert(2, 2), Update(1), Delete(1)}]

\* A block of three statements beside one autocommit.
Long == Base
\* Two blocks against each other.
Racing == [Base EXCEPT !.messages = One(3, 3), !.stmts = {Insert(2, 2), Update(1)}]
\* Both protocols, with failing Parse and Bind.
Piped == [Base EXCEPT !.messages = One(4, 0), !.extended = BOOLEAN, !.stmts = {Insert(2, 2)}]
\* Query strings of two statements, and submissions whose answer is lost.
Lost == [Base EXCEPT !.messages = One(2, 1), !.pairs = TRUE, !.faults = 1,
                     !.stmts = {Insert(1, 1), Update(2)}]
\* A saga leases ids between two blocks.
Leased == [Base EXCEPT !.messages = One(4, 0), !.t = 3, !.sagas = 1, !.stmts = {Insert(2, 2), Delete(2)}]

MCDeployments == {Long, Racing, Piped, Lost, Leased}
MCLeased == {Leased}
=============================================================================
