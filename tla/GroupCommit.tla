----------------------------- MODULE GroupCommit -----------------------------
(***************************************************************************)
(* Group commit inside one hosted database, and the naming dictionary its  *)
(* records are decoded against: the pending queue, the `commit` lock that  *)
(* every caller contends for, the flush its holder leads, and the metadata *)
(* root that must know a keyword before a record refers to it.             *)
(*                                                                         *)
(* A caller is a request handler: it queues its request, then leads        *)
(* flushes under the lock until its own request is answered.  A handler    *)
(* whose client goes away is dropped at the next await, also in the middle *)
(* of a flush it leads.  The lease is a single holder here and the append  *)
(* is atomic (module HaCommit has both in detail); what a deposed holder   *)
(* can still do to the metadata root, which is not fenced, is kept.        *)
(***************************************************************************)
EXTENDS Integers, Sequences, Functions

CONSTANTS
  Reqs,         \* client requests, each submitted once
  Keywords,     \* keyword values
  Uses,         \* the keyword value each request writes, or None
  Expects,      \* expected_basis_t of each request, or None
  None,
  MaxBatch,     \* NodeConfig::max_commit_batch
  MaxFaults,    \* bound on cancellations, crashes and store errors
  MaxTakeovers, \* bound on takeovers
  MayReject     \* whether validation may reject a request

ASSUME GroupAssumption ==
  /\ Uses \in [Reqs -> Keywords \cup {None}]
  /\ Expects \in [Reqs -> Nat \cup {None}]
  /\ None \notin Nat \cup Reqs \cup Keywords
  /\ MaxBatch \in Nat \ {0}
  /\ MaxFaults \in Nat /\ MaxTakeovers \in Nat
  /\ MayReject \in BOOLEAN

Stages == {"free", "preparing", "naming", "checked", "appending", "installed"}

VARIABLES
  meta,      \* the metadata root: keyword names, their position is the id
  log,       \* the durable log: [req, id], its position is the t
  interner,  \* Naming::interner of the hosted database
  pending,   \* DbState::pending
  leader,    \* the caller that holds DbState::commit, or None
  stage,     \* how far the flush it leads has come
  work,      \* requests drained by the flush, not yet prepared
  prep,      \* records prepared by the flush
  minted,    \* naming_changed
  caller,    \* where each request handler is
  resp,      \* the oneshot channel of each request
  snap,      \* metadata read by an open_db that has no lease yet, or None
  stale,     \* metadata a deposed leader is about to publish, or None
  arrived,   \* requests in the order they were queued
  up,        \* whether the database is hosted
  faults, takeovers

flush == <<leader, stage, work, prep, minted>>
naming == <<meta, interner, snap, stale>>
bounds == <<faults, takeovers>>
vars == <<meta, log, interner, pending, leader, stage, work, prep, minted,
          caller, resp, snap, stale, arrived, up, faults, takeovers>>

-----------------------------------------------------------------------------
Init ==
  /\ meta = <<>> /\ interner = <<>> /\ snap = None /\ stale = None
  /\ log = <<>> /\ pending = <<>> /\ arrived = <<>>
  /\ leader = None /\ stage = "free"
  /\ work = <<>> /\ prep = <<>> /\ minted = FALSE
  /\ caller = [r \in Reqs |-> "new"]
  /\ resp = [r \in Reqs |-> "none"]
  /\ up = TRUE
  /\ faults = 0 /\ takeovers = 0

(* KeywordInterner::intern: an unknown keyword gets the next id. *)
Interned(names, k) ==
  IF k = None \/ k \in Range(names) THEN names ELSE Append(names, k)

(* The id a record stores for k, 0 when it writes no keyword. *)
IdOf(names, k) ==
  IF k = None THEN 0 ELSE CHOOSE i \in DOMAIN names : names[i] = k

InWork == Range(work)
InPrep == {prep[i].req : i \in DOMAIN prep}

(* Every request of S is sent s on its channel. *)
Send(S, s) == resp' = [r \in Reqs |-> IF r \in S THEN s ELSE resp[r]]

(***************************************************************************)
(* The flush returns and the leader drops `commit`: it is done if its own  *)
(* request was answered and contends again otherwise.                      *)
(***************************************************************************)
EndFlush(S, s) ==
  /\ Send(S, s)
  /\ caller' = [caller EXCEPT ![leader] =
                  IF resp'[leader] = "open" THEN "waiting" ELSE "done"]
  /\ leader' = None /\ stage' = "free"
  /\ work' = <<>> /\ prep' = <<>> /\ minted' = FALSE

OneFault == faults < MaxFaults /\ faults' = faults + 1

-----------------------------------------------------------------------------
(* Callers. *)

(* transact_inner queues the request with its answer channel. *)
Submit(r) ==
  /\ up
  /\ caller[r] = "new"
  /\ pending' = Append(pending, r)
  /\ arrived' = Append(arrived, r)
  /\ caller' = [caller EXCEPT ![r] = "waiting"]
  /\ resp' = [resp EXCEPT ![r] = "open"]
  /\ UNCHANGED <<log, flush, naming, up, bounds>>

(* The lock is won, but an earlier leader has answered already. *)
Collect(r) ==
  /\ leader = None
  /\ caller[r] = "waiting" /\ resp[r] # "open"
  /\ caller' = [caller EXCEPT ![r] = "done"]
  /\ UNCHANGED <<log, pending, flush, naming, resp, arrived, up, bounds>>

(* The lock is won: lead a flush of everything that is pending. *)
Lead(r) ==
  /\ leader = None
  /\ caller[r] = "waiting" /\ resp[r] = "open"
  /\ leader' = r /\ stage' = "preparing"
  /\ work' = pending /\ pending' = <<>>
  /\ caller' = [caller EXCEPT ![r] = "leading"]
  /\ UNCHANGED <<log, prep, minted, naming, resp, arrived, up, bounds>>

(***************************************************************************)
(* The same, but the storage keys are fenced or the saga of a branch is    *)
(* over: everything that was pending is refused before preparation.        *)
(***************************************************************************)
LeadRefused(r) ==
  /\ leader = None
  /\ caller[r] = "waiting" /\ resp[r] = "open"
  /\ OneFault
  /\ Send(Range(pending), "refused")
  /\ pending' = <<>>
  /\ caller' = [caller EXCEPT ![r] = "done"]
  /\ UNCHANGED <<log, flush, naming, arrived, up, takeovers>>

(* Mutant: the channels stay open when a leader is dropped. *)
CancelKeepsOpen(r) ==
  /\ caller[r] \in {"waiting", "leading"}
  /\ OneFault
  /\ caller' = [caller EXCEPT ![r] = "gone"]
  /\ IF leader # r
       THEN UNCHANGED flush
       ELSE /\ leader' = None /\ stage' = "free"
            /\ work' = <<>> /\ prep' = <<>> /\ minted' = FALSE
  /\ UNCHANGED <<log, pending, naming, resp, arrived, up, takeovers>>

(***************************************************************************)
(* The handler is dropped: a waiting one leaves its request in the queue;  *)
(* a leading one drops the channels of its whole flush, whatever of it is  *)
(* durable by then.                                                        *)
(***************************************************************************)
Cancel(r) ==
  /\ caller[r] \in {"waiting", "leading"}
  /\ OneFault
  /\ caller' = [caller EXCEPT ![r] = "gone"]
  /\ IF leader # r
       THEN UNCHANGED <<flush, resp, meta>>
       ELSE /\ Send(InWork \cup InPrep, "closed")
            /\ meta' \in IF stage = "checked" THEN {meta, interner} ELSE {meta}
            /\ leader' = None /\ stage' = "free"
            /\ work' = <<>> /\ prep' = <<>> /\ minted' = FALSE
  /\ UNCHANGED <<log, pending, interner, snap, stale, arrived, up, takeovers>>

-----------------------------------------------------------------------------
(* flush_commit_batch. *)

(* Mutant: the basis of the installed value, without the batch so far. *)
InstalledBasis == Len(log)

(* The basis of the value the next request is prepared against. *)
CursorBasis == Len(log) + Len(prep)

MayPrepare(r) ==
  /\ stage = "preparing"
  /\ work # <<>> /\ r = Head(work)
  /\ Len(prep) < MaxBatch /\ ~minted

BasisHolds(r) == Expects[r] \in {None, CursorBasis}

(* The request is answered an error and the loop continues without it. *)
Refuse(r) ==
  /\ work' = Tail(work)
  /\ Send({r}, "refused")
  /\ UNCHANGED <<meta, log, pending, leader, stage, prep, minted, caller, snap,
                 stale, arrived, up, bounds>>

BasisMismatch(r) ==
  /\ MayPrepare(r)
  /\ ~BasisHolds(r)
  /\ Refuse(r)
  /\ UNCHANGED interner

(***************************************************************************)
(* Conversion or validation rejects the request; the keyword may have been *)
(* interned by then, and stays in the shared interner.                     *)
(***************************************************************************)
Reject(r) ==
  /\ MayPrepare(r)
  /\ MayReject
  /\ BasisHolds(r)
  /\ Refuse(r)
  /\ interner' \in {interner, Interned(interner, Uses[r])}

(* The request is prepared; one that mints a name ends the batch. *)
Prepare(r) ==
  /\ MayPrepare(r)
  /\ BasisHolds(r)
  /\ interner' = Interned(interner, Uses[r])
  /\ minted' = (interner' # interner)
  /\ prep' = Append(prep, [req |-> r, id |-> IdOf(interner', Uses[r])])
  /\ work' = Tail(work)
  /\ UNCHANGED <<meta, log, pending, leader, stage, caller, resp, snap, stale,
                 arrived, up, bounds>>

(* Where the unprepared remainder goes.  Mutant: to the back of the queue. *)
BackInLast == pending \o work
BackInFront == work \o pending

(***************************************************************************)
(* The batch is complete: nothing is left, a name was minted, or the count *)
(* or size limit is reached.  The remainder goes back in front.            *)
(***************************************************************************)
Requeue ==
  /\ stage = "preparing"
  /\ work = <<>> \/ prep # <<>>
  /\ pending' = BackInFront
  /\ IF prep = <<>>
       THEN EndFlush({}, "err")
       ELSE /\ work' = <<>>
            /\ stage' = IF minted THEN "naming" ELSE "appending"
            /\ UNCHANGED <<leader, prep, minted, caller, resp>>
  /\ UNCHANGED <<log, naming, arrived, up, bounds>>

(* New names: the lease is checked before the unfenced metadata write. *)
CheckLease ==
  /\ stage = "naming"
  /\ stage' = "checked"
  /\ UNCHANGED <<log, pending, leader, work, prep, minted, naming, caller, resp,
                 arrived, up, bounds>>

(* The compare-and-set loop overwrites whatever metadata is stored. *)
WriteMeta ==
  /\ stage = "checked"
  /\ meta' = interner
  /\ stage' = "appending"
  /\ UNCHANGED <<log, pending, leader, work, prep, minted, interner, snap, stale,
                 caller, resp, arrived, up, bounds>>

(* The lease or the metadata root cannot be read or written, or the append fails. *)
AbortBatch ==
  /\ stage \in {"naming", "checked", "appending"}
  /\ OneFault
  /\ EndFlush(InPrep, "err")
  /\ UNCHANGED <<log, pending, naming, arrived, up, takeovers>>

(* Mutant: the callers are answered before the append. *)
AnswerEarly ==
  /\ stage = "appending"
  /\ Send(InPrep, "ok")
  /\ stage' = "installed"
  /\ UNCHANGED <<log, pending, leader, work, prep, minted, naming, caller,
                 arrived, up, bounds>>

(* The durable append of the whole batch, and its installation. *)
AppendBatch ==
  /\ stage = "appending"
  /\ log' = log \o prep
  /\ stage' = "installed"
  /\ UNCHANGED <<pending, leader, work, prep, minted, naming, caller, resp,
                 arrived, up, bounds>>

(* The ownership fence, then one answer for each request of the batch. *)
AnswerBatch ==
  /\ stage = "installed"
  /\ EndFlush(InPrep, "ok")
  /\ UNCHANGED <<log, pending, naming, arrived, up, bounds>>

(* The lease cannot be read: the batch is durable, its callers get an error. *)
FenceError ==
  /\ stage = "installed"
  /\ OneFault
  /\ EndFlush(InPrep, "err")
  /\ UNCHANGED <<log, pending, naming, arrived, up, takeovers>>

-----------------------------------------------------------------------------
(* Crash, restart and takeover. *)

(* The hosted database is gone, with the calls that were in it. *)
Unhost ==
  /\ caller' = [r \in Reqs |-> IF caller[r] \in {"waiting", "leading"}
                                 THEN "gone" ELSE caller[r]]
  /\ resp' = [r \in Reqs |-> IF resp[r] = "open" THEN "closed" ELSE resp[r]]
  /\ pending' = <<>>
  /\ leader' = None /\ stage' = "free"
  /\ work' = <<>> /\ prep' = <<>> /\ minted' = FALSE

Crash ==
  /\ up
  /\ OneFault
  /\ up' = FALSE
  /\ Unhost
  /\ UNCHANGED <<log, naming, arrived, takeovers>>

(* open_db reads the metadata root before it has the lease. *)
ReadMeta ==
  /\ takeovers < MaxTakeovers
  /\ snap = None
  /\ snap' = meta
  /\ UNCHANGED <<log, pending, flush, meta, interner, stale, caller, resp,
                 arrived, up, bounds>>

(***************************************************************************)
(* open_db gets the lease and hosts the database under the names it has    *)
(* read; a deposed leader past its lease check still writes its own.       *)
(***************************************************************************)
TakeOver ==
  /\ snap # None
  /\ takeovers' = takeovers + 1
  /\ interner' = snap
  /\ snap' = None
  /\ stale' = IF stage = "checked" THEN interner ELSE stale
  /\ up' = TRUE
  /\ Unhost
  /\ UNCHANGED <<meta, log, arrived, faults>>

StaleWrite ==
  /\ stale # None
  /\ meta' = stale
  /\ stale' = None
  /\ UNCHANGED <<log, pending, flush, interner, snap, caller, resp, arrived, up,
                 bounds>>

-----------------------------------------------------------------------------
Next ==
  \/ \E r \in Reqs :
       \/ Submit(r) \/ Collect(r) \/ Lead(r) \/ LeadRefused(r) \/ Cancel(r)
       \/ BasisMismatch(r) \/ Reject(r) \/ Prepare(r)
  \/ Requeue \/ CheckLease \/ WriteMeta \/ AbortBatch
  \/ AppendBatch \/ AnswerBatch \/ FenceError
  \/ Crash \/ ReadMeta \/ TakeOver \/ StaleWrite

Spec == Init /\ [][Next]_vars

(***************************************************************************)
(* A flush runs to its end, and tokio's fair lock serves every waiter.     *)
(***************************************************************************)
FlushStep ==
  \/ \E r \in Reqs : BasisMismatch(r) \/ Prepare(r)
  \/ Requeue \/ CheckLease \/ WriteMeta \/ AppendBatch \/ AnswerBatch

FairSpec ==
  /\ Spec
  /\ WF_vars(FlushStep)
  /\ \A r \in Reqs : SF_vars(Lead(r) \/ Collect(r))
-----------------------------------------------------------------------------
(* Properties. *)

IsRecordSeq(s) == \A i \in DOMAIN s : s[i].req \in Reqs /\ s[i].id \in Nat

(* Every variable stays in its type, a batch in its limit, a flush in its lock. *)
TypeOK ==
  /\ Range(meta) \subseteq Keywords /\ Range(interner) \subseteq Keywords
  /\ IsRecordSeq(log)
  /\ IsRecordSeq(prep) /\ Len(prep) <= MaxBatch
  /\ Range(pending) \cup Range(work) \cup Range(arrived) \subseteq Reqs
  /\ leader \in Reqs \cup {None} /\ stage \in Stages
  /\ leader = None <=> stage = "free"
  /\ minted \in BOOLEAN /\ up \in BOOLEAN
  /\ caller \in [Reqs -> {"new", "waiting", "leading", "done", "gone"}]
  /\ resp \in [Reqs -> {"none", "open", "ok", "refused", "err", "closed"}]
  /\ faults \in 0 .. MaxFaults /\ takeovers \in 0 .. MaxTakeovers

(***************************************************************************)
(* Batching is invisible: requests commit at most once each, and in the    *)
(* order they were queued, although every flush drains the queue and may   *)
(* put a remainder back while new requests arrive (flush_commit_batch:     *)
(* "at the front of the queue, in order").                                 *)
(***************************************************************************)
CommitsInArrivalOrder ==
  \A i, j \in DOMAIN log : i < j =>
    \E a, b \in DOMAIN arrived :
      a < b /\ arrived[a] = log[i].req /\ arrived[b] = log[j].req

(***************************************************************************)
(* An answer tells the truth about durability: what was acknowledged is in *)
(* the log, what was refused before preparation never is.  Errors and      *)
(* dropped channels say nothing.  The states are well typed.               *)
(***************************************************************************)
AnswersTrue ==
  LET logged == {log[i].req : i \in DOMAIN log} IN
  /\ TypeOK
  /\ \A r \in Reqs :
       /\ resp[r] = "ok" => r \in logged
       /\ resp[r] = "refused" => r \notin logged

(***************************************************************************)
(* A conditional transaction commits directly on the basis it expected,    *)
(* with nothing of its own batch or of another in between (transact_at).   *)
(***************************************************************************)
ConditionalExact ==
  \A i \in DOMAIN log : Expects[log[i].req] \in {None, i - 1}

(***************************************************************************)
(* Every caller that is not dropped returns, also when the leader that     *)
(* took its request out of the queue was dropped in mid-flush.             *)
(***************************************************************************)
CallersReturn ==
  \A r \in Reqs : caller[r] = "waiting" ~> caller[r] \in {"done", "gone"}

(***************************************************************************)
(* "New keyword names must be durable before the datoms that reference     *)
(* them; recovery decodes the log against this meta" (flush_commit_batch): *)
(* the stored metadata gives the keyword of every record its name.         *)
(***************************************************************************)
NamesDurable ==
  \A i \in DOMAIN log :
    LET k == Uses[log[i].req] IN
    k # None => log[i].id \in DOMAIN meta /\ meta[log[i].id] = k

=============================================================================
