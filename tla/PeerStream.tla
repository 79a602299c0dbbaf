------------------------------ MODULE PeerStream ------------------------------
(***************************************************************************)
(* How a peer's database value follows the log: the transactor's           *)
(* subscription stream (register, snapshot, backfill, live reports, lag)   *)
(* and the peer's consume and reconnect loop, across one takeover.         *)
(*                                                                         *)
(* Server 1 hosts the database first and server 2 takes it over; a record  *)
(* is named by the server that wrote it, or Refused if that server had     *)
(* lost the lease by then, and its position is its t.  A flush is one      *)
(* record long.  Chains of more takeovers are in module HaCommit.          *)
(***************************************************************************)
EXTENDS Integers, Sequences, FiniteSetsExt

CONSTANTS
  Peers,
  MaxT,         \* bound on t
  Capacity,     \* capacity of DbState::broadcast (1024)
  Window,       \* items in flight on a stream before its sender waits (64)
  MaxFaults     \* bound on disconnects, crashes and errors

ASSUME StreamAssumption ==
  /\ MaxT \in Nat /\ MaxFaults \in Nat
  /\ Capacity \in Nat \ {0} /\ Window \in Nat \ {0}

Servers == {1, 2}
Refused == -1
Records == Servers \cup {Refused}
Ts == 1 .. MaxT

VARIABLES
  log,      \* the merged durable log
  holder,   \* the server the lease record names
  hosted,   \* whether each server hosts the database (and sends heartbeats)
  value,    \* the value each server has installed
  unfenced, \* whether its last record still awaits the fence
  chan,     \* the reports each server has broadcast
  acked,    \* acknowledged records: <<t, server>>
  conn,     \* the subscription of each peer, or Off
  pv,       \* the value of each peer: the record it has at each t, 0 if none
  faults

server == <<log, holder, hosted, value, unfenced, chan, acked>>
vars == <<log, holder, hosted, value, unfenced, chan, acked, conn, pv, faults>>

Off == [srv |-> 0, phase |-> "off", cursor |-> 0, basis |-> 0, last |-> 0,
        greeted |-> FALSE, wire |-> <<>>]

Init ==
  /\ log = <<>> /\ holder = 1
  /\ hosted = [s \in Servers |-> s = 1]
  /\ value = [s \in Servers |-> <<>>]
  /\ unfenced = [s \in Servers |-> FALSE]
  /\ chan = [s \in Servers |-> <<>>]
  /\ acked = {}
  /\ conn = [p \in Peers |-> Off]
  /\ pv = [p \in Peers |-> [t \in Ts |-> 0]]
  /\ faults = 0

(* The basis of the peer's value: the t of the last report it applied. *)
Basis(p) == Max({0} \cup {t \in Ts : pv[p][t] # 0})

OneFault == faults < MaxFaults /\ faults' = faults + 1

-----------------------------------------------------------------------------
(* The server: commits, fence and takeover. *)

(***************************************************************************)
(* A record is appended and installed, by a server that hosts the database *)
(* whether or not the lease still names it.  The first append of the       *)
(* holder cuts what a deposed server appended behind the holder's replay;  *)
(* later ones of that server are behind the cutoff at once.                *)
(***************************************************************************)
Install(s) ==
  /\ hosted[s] /\ ~unfenced[s]
  /\ Len(value[s]) < MaxT
  /\ LET v == Append(value[s], IF s = holder THEN s ELSE Refused) IN
       /\ value' = [value EXCEPT ![s] = v]
       /\ log' = IF s # holder /\ \E i \in DOMAIN log : log[i] = holder THEN log ELSE v
  /\ unfenced' = [unfenced EXCEPT ![s] = TRUE]
  /\ UNCHANGED <<holder, hosted, chan, acked, conn, pv, faults>>

(* Mutant: the callers are acknowledged, the report is not broadcast. *)
FenceOkSilent(s) ==
  /\ unfenced[s] /\ s = holder
  /\ unfenced' = [unfenced EXCEPT ![s] = FALSE]
  /\ acked' = acked \cup {<<Len(value[s]), s>>}
  /\ UNCHANGED <<log, holder, hosted, value, chan, conn, pv, faults>>

(* The lease still names the server: broadcast and acknowledge. *)
FenceOk(s) ==
  /\ unfenced[s] /\ s = holder
  /\ unfenced' = [unfenced EXCEPT ![s] = FALSE]
  /\ chan' = [chan EXCEPT ![s] = Append(chan[s], Len(value[s]))]
  /\ acked' = acked \cup {<<Len(value[s]), s>>}
  /\ UNCHANGED <<log, holder, hosted, value, conn, pv, faults>>

(* The lease names another server: neither, and the database is unhosted. *)
FenceLost(s) ==
  /\ unfenced[s] /\ s # holder
  /\ unfenced' = [unfenced EXCEPT ![s] = FALSE]
  /\ hosted' = [hosted EXCEPT ![s] = FALSE]
  /\ UNCHANGED <<log, holder, value, chan, acked, conn, pv, faults>>

(***************************************************************************)
(* The lease cannot be read, or the handler that leads the flush has been  *)
(* dropped: the record stays installed and is never broadcast.             *)
(***************************************************************************)
FenceError(s) ==
  /\ unfenced[s]
  /\ OneFault
  /\ unfenced' = [unfenced EXCEPT ![s] = FALSE]
  /\ UNCHANGED <<log, holder, hosted, value, chan, acked, conn, pv>>

(* The next renewal finds another owner; heartbeats stop. *)
RenewLost(s) ==
  /\ hosted[s] /\ s # holder
  /\ hosted' = [hosted EXCEPT ![s] = FALSE]
  /\ UNCHANGED <<log, holder, value, unfenced, chan, acked, conn, pv, faults>>

TakeOver ==
  /\ holder = 1
  /\ holder' = 2
  /\ hosted' = [hosted EXCEPT ![2] = TRUE]
  /\ value' = [value EXCEPT ![2] = log]
  /\ UNCHANGED <<log, unfenced, chan, acked, conn, pv, faults>>

(* Server 1 dies with its stream tasks; what they sent is in flight. *)
Crash ==
  /\ hosted[1]
  /\ OneFault
  /\ hosted' = [hosted EXCEPT ![1] = FALSE]
  /\ unfenced' = [unfenced EXCEPT ![1] = FALSE]
  /\ conn' = [p \in Peers |->
                IF conn[p].srv # 1 THEN conn[p]
                ELSE IF conn[p].phase = "registered" THEN Off
                ELSE [conn[p] EXCEPT !.phase = "ended"]]
  /\ UNCHANGED <<log, holder, value, chan, acked, pv>>

-----------------------------------------------------------------------------
(* subscription_stream, one task for each subscription. *)

(* The broadcast receiver is registered. *)
Subscribe(p, s) ==
  /\ conn[p].phase = "off" /\ hosted[s]
  /\ conn' = [conn EXCEPT ![p] =
       [Off EXCEPT !.srv = s, !.phase = "registered",
                   !.cursor = Len(chan[s]) + 1, !.last = Basis(p)]]
  /\ UNCHANGED <<server, pv, faults>>

(* Then the basis is read, and sent in the handshake. *)
Snapshot(p) ==
  /\ conn[p].phase = "registered"
  /\ conn' = [conn EXCEPT ![p] =
       [conn[p] EXCEPT !.phase = "backfill", !.basis = Len(value[conn[p].srv])]]
  /\ UNCHANGED <<server, pv, faults>>

(* The records tx_range(from + 1, basis + 1) finds in the log. *)
BackfillRange(c) == (c.last + 1) .. Min({c.basis, Len(log)})

Backfill(p) ==
  /\ conn[p].phase = "backfill"
  /\ LET from == conn[p].last
         to == Max({from} \cup BackfillRange(conn[p]))
     IN conn' = [conn EXCEPT ![p] = [conn[p] EXCEPT
          !.phase = "live",
          !.last = to,
          !.wire = [i \in 1 .. (to - from) |->
                      [t |-> from + i, rec |-> log[from + i]]]]]
  /\ UNCHANGED <<server, pv, faults>>

(* The log cannot be read or a record not encoded: the stream ends. *)
BackfillFails(p) ==
  /\ conn[p].phase = "backfill"
  /\ OneFault
  /\ conn' = [conn EXCEPT ![p] = [conn[p] EXCEPT !.phase = "ended"]]
  /\ UNCHANGED <<server, pv>>

IsLagged(c) == c.cursor <= Len(chan[c.srv]) - Capacity

Fresh(c, t) == t > c.last

(* The next report of the broadcast, dropped if the backfill had it. *)
Live(p) ==
  /\ conn[p].phase = "live"
  /\ conn[p].cursor \in DOMAIN chan[conn[p].srv]
  /\ ~IsLagged(conn[p])
  /\ Len(conn[p].wire) < Window
  /\ LET c == conn[p]
         t == chan[c.srv][c.cursor]
     IN conn' = [conn EXCEPT ![p] =
          IF Fresh(c, t)
            THEN [c EXCEPT !.cursor = c.cursor + 1, !.last = t,
                    !.wire = Append(c.wire, [t |-> t, rec |-> value[c.srv][t]])]
            ELSE [c EXCEPT !.cursor = c.cursor + 1]]
  /\ UNCHANGED <<server, pv, faults>>

(* Mutant: the receiver skips what it lost and continues. *)
LaggedSkips(p) ==
  /\ conn[p].phase = "live"
  /\ IsLagged(conn[p])
  /\ conn' = [conn EXCEPT ![p].cursor = Len(chan[conn[p].srv]) - Capacity + 1]
  /\ UNCHANGED <<server, pv, faults>>

(* The receiver fell behind the broadcast buffer: the stream ends. *)
Lagged(p) ==
  /\ conn[p].phase = "live"
  /\ IsLagged(conn[p])
  /\ conn' = [conn EXCEPT ![p] = [conn[p] EXCEPT !.phase = "ended"]]
  /\ UNCHANGED <<server, pv, faults>>

-----------------------------------------------------------------------------
(* The peer: pump_handshake, apply_item and run_loop. *)

(* A handshake below the local basis is refused. *)
Handshake(p) ==
  /\ conn[p].phase \in {"backfill", "live", "ended"}
  /\ ~conn[p].greeted
  /\ conn' = [conn EXCEPT ![p] = IF conn[p].basis < Basis(p) THEN Off
                                 ELSE [conn[p] EXCEPT !.greeted = TRUE]]
  /\ UNCHANGED <<server, pv, faults>>

(* The next report is applied, unless its t is not above the local basis. *)
ApplyItem(p) ==
  /\ conn[p].greeted
  /\ conn[p].wire # <<>>
  /\ LET item == Head(conn[p].wire) IN
       pv' = IF item.t <= Basis(p) THEN pv
             ELSE [pv EXCEPT ![p] = [pv[p] EXCEPT ![item.t] = item.rec]]
  /\ conn' = [conn EXCEPT ![p] = [conn[p] EXCEPT !.wire = Tail(conn[p].wire)]]
  /\ UNCHANGED <<server, faults>>

(* The end of the stream, or silence past the heartbeat deadline. *)
StreamEnds(p) ==
  /\ conn[p].greeted
  /\ conn[p].wire = <<>>
  /\ conn[p].phase = "ended" \/ ~hosted[conn[p].srv]
  /\ conn' = [conn EXCEPT ![p] = Off]
  /\ UNCHANGED <<server, pv, faults>>

(* The transport fails, with everything in flight. *)
Disconnect(p) ==
  /\ conn[p].phase # "off"
  /\ OneFault
  /\ conn' = [conn EXCEPT ![p] = Off]
  /\ UNCHANGED <<server, pv>>

-----------------------------------------------------------------------------
Next ==
  \/ \E s \in Servers : \/ Install(s) \/ FenceOk(s) \/ FenceLost(s)
                        \/ FenceError(s) \/ RenewLost(s)
  \/ TakeOver \/ Crash
  \/ \E p \in Peers :
       \/ \E s \in Servers : Subscribe(p, s)
       \/ Snapshot(p) \/ Backfill(p) \/ BackfillFails(p)
       \/ Live(p) \/ Lagged(p)
       \/ Handshake(p) \/ ApplyItem(p) \/ StreamEnds(p) \/ Disconnect(p)

Spec == Init /\ [][Next]_vars

(***************************************************************************)
(* Stream tasks and the peer's loop run, the loop retries its endpoints, a *)
(* deposed server notices at its next renewal, and a standby takes over    *)
(* from a server that is gone.  Commits and faults are not fair.           *)
(***************************************************************************)
FairSpec ==
  /\ Spec
  /\ \A s \in Servers : WF_vars(RenewLost(s))
  /\ WF_vars(~hosted[1] /\ TakeOver)
  /\ \A p \in Peers :
       /\ WF_vars(\E s \in Servers : Subscribe(p, s))
       /\ WF_vars(Snapshot(p) \/ Backfill(p) \/ Live(p) \/ Lagged(p))
       /\ WF_vars(Handshake(p) \/ ApplyItem(p) \/ StreamEnds(p))

-----------------------------------------------------------------------------
(* Properties. *)

Conns ==
  [srv : Servers \cup {0}, cursor : Nat, basis : 0 .. MaxT, last : 0 .. MaxT,
   phase : {"off", "registered", "backfill", "live", "ended"},
   greeted : BOOLEAN, wire : Seq([t : Ts, rec : Records])]

(* Every variable stays in its type, a receiver within what was broadcast. *)
TypeOK ==
  /\ log \in Seq(Records) /\ Len(log) <= MaxT
  /\ holder \in Servers
  /\ hosted \in [Servers -> BOOLEAN] /\ unfenced \in [Servers -> BOOLEAN]
  /\ value \in [Servers -> Seq(Records)]
  /\ chan \in [Servers -> Seq(Ts)]
  /\ acked \subseteq Ts \X Servers
  /\ conn \in [Peers -> Conns]
  /\ \A p \in Peers : conn[p].phase # "off" =>
       conn[p].cursor \in 1 .. Len(chan[conn[p].srv]) + 1
  /\ pv \in [Peers -> [Ts -> Records \cup {0}]]
  /\ faults \in 0 .. MaxFaults

(***************************************************************************)
(* At basis t a peer's value has skipped no acknowledged record up to t    *)
(* (sync_to returns the value at this basis; the stream ends rather than   *)
(* skip a report, subscription_stream).  In the place of one it can hold   *)
(* only a record that a server appended after it had lost the lease and    *)
(* served in a backfill before its fence refused it: what was appended     *)
(* under the lease, acknowledged or not, is never replaced.  The states    *)
(* are well typed.                                                         *)
(***************************************************************************)
HoldsAcked ==
  /\ TypeOK
  /\ \A p \in Peers : \A a \in acked :
       Basis(p) >= a[1] => pv[p][a[1]] \in {a[2], Refused}

(***************************************************************************)
(* "Post-append fence gates only the acknowledgement and the peer stream"  *)
(* (flush_commit_batch): no refused record reaches a peer in the place of  *)
(* an acknowledged one.                                                    *)
(***************************************************************************)
NoRefusedHeld == \A p \in Peers : \A a \in acked : pv[p][a[1]] # Refused

(***************************************************************************)
(* The basis of every peer reaches the t of every acknowledged record,     *)
(* across lag, disconnects, crash and takeover (run_loop resubscribes from *)
(* the local basis).                                                       *)
(***************************************************************************)
CatchesUp ==
  \A p \in Peers, t \in Ts, s \in Servers :
    <<t, s>> \in acked ~> Basis(p) >= t

(***************************************************************************)
(* "No transaction can fall between backfill and the live stream"          *)
(* (subscription_stream): a peer has every t up to its basis.              *)
(***************************************************************************)
Gapless == \A p \in Peers : \A t \in 1 .. Basis(p) : pv[p][t] # 0

=============================================================================
