-------------------------- MODULE PeerStreamProofs --------------------------
(***************************************************************************)
(* What a peer holds, for any number of peers, records, reports buffered   *)
(* and in flight, disconnects and crashes, and whatever a deposed server   *)
(* goes on to append.                                                      *)
(***************************************************************************)
EXTENDS PeerStream, TLAPS

(* Leaves are for Zenon unless they say otherwise. *)
USE ZenonT(60)

Flags == hosted \in [Servers -> BOOLEAN] /\ unfenced \in [Servers -> BOOLEAN]

Base ==
  /\ log \in Seq(Records) /\ Len(log) <= MaxT
  /\ holder \in Servers
  /\ value \in [Servers -> Seq(Records)] /\ chan \in [Servers -> Seq(Ts)]
  /\ acked \subseteq Ts \X Servers
  /\ pv \in [Peers -> [Ts -> Records \cup {0}]]
  /\ faults \in 0 .. MaxFaults

(* The value of the lease's holder, which no takeover replaces. *)
Main == value[holder]

(* Record r at t is refused, or is the one of the value m. *)
Agrees(r, t, m) == r = Refused \/ (t <= Len(m) /\ r = m[t])

(***************************************************************************)
(* The log is the holder's value, or what the deposed server has installed *)
(* as long as the holder has appended nothing; outside the holder's value  *)
(* there are refused records only.                                         *)
(***************************************************************************)
Prefix ==
  /\ holder = 1 => log = value[1]
  /\ holder = 2 /\ (\E i \in DOMAIN log : log[i] = 2) => log = value[2]
  /\ holder = 2 /\ ~(\E i \in DOMAIN log : log[i] = 2) =>
       log = value[1] /\ Len(value[2]) <= Len(value[1])
  /\ \A s \in Servers : Len(value[s]) <= MaxT
  /\ \A s \in Servers : \A i \in 1 .. Len(value[s]) : Agrees(value[s][i], i, Main)

Hosting ==
  /\ holder = 1 => value[2] = <<>> /\ hosted[2] = FALSE /\ unfenced[2] = FALSE
  /\ unfenced[holder] = TRUE => Main # <<>> /\ Main[Len(Main)] = holder

(* A server broadcasts in order, what it installed under the lease. *)
Broadcast ==
  /\ \A s \in Servers : \A i \in 1 .. Len(chan[s]) :
       chan[s][i] <= Len(value[s]) /\ chan[s][i] <= Len(Main)
  /\ unfenced[holder] = TRUE =>
       \A s \in Servers : \A i \in 1 .. Len(chan[s]) : chan[s][i] < Len(Main)
  /\ \A s \in Servers : \A i, j \in 1 .. Len(chan[s]) : i < j => chan[s][i] < chan[s][j]

(* The t of the acknowledged records, of all and of those of one server. *)
Acks == {a[1] : a \in acked}
AcksBy(s) == {t \in Ts : <<t, s>> \in acked}

(* Acknowledged records are the holder's; the successor's are above all    *)
(* that its predecessor broadcast.                                         *)
AckedInLog ==
  /\ \A a \in acked : a[1] <= Len(Main) /\ Main[a[1]] = a[2] /\ a[1] <= Len(value[a[2]])
  /\ \A t \in AcksBy(2) : \A i \in 1 .. Len(chan[1]) : chan[1][i] < t

(***************************************************************************)
(* The t that nobody may step over: the acknowledged ones, the last of the *)
(* holder, which may be acknowledged next, and what refused records are    *)
(* beyond it.                                                              *)
(***************************************************************************)
Must == Acks \cup {t \in Ts : Len(Main) <= t}

(* A value v with basis b agrees with m and misses no t of A. *)
Holds(b, v, m, A) ==
  /\ b \in 0 .. MaxT
  /\ b = 0 \/ v[b] # 0
  /\ \A t \in Ts : b < t => v[t] = 0
  /\ \A t \in Ts : v[t] # 0 => Agrees(v[t], t, m)
  /\ \A t \in A : t <= b => v[t] # 0

(***************************************************************************)
(* What a stream has sent up to last, and a peer at basis b has not        *)
(* applied, is in flight in w, in order.                                   *)
(***************************************************************************)
Sent(b, last, w, m, A) ==
  /\ b <= last
  /\ b < last => \E i \in 1 .. Len(w) : w[i].t = last
  /\ \A i \in 1 .. Len(w) : w[i].t <= last /\ Agrees(w[i].rec, w[i].t, m)
  /\ \A i, j \in 1 .. Len(w) : i < j => w[i].t < w[j].t
  /\ \A t \in A : b < t /\ t <= last => \E i \in 1 .. Len(w) : w[i].t = t

(***************************************************************************)
(* Every t of A that a stream has yet to send is below its snapshot or in  *)
(* the broadcast from its cursor on.                                       *)
(***************************************************************************)
Due(last, basis, ch, cur, A) ==
  \A t \in A : last < t /\ basis < t => \E i \in cur .. Len(ch) : ch[i] = t

Held == \A p \in Peers : Holds(Basis(p), pv[p], Main, Must)

(***************************************************************************)
(* A live stream is past its snapshot, except where the snapshot counted   *)
(* refused records that the log has lost; then it is past every report.    *)
(***************************************************************************)
Linked(p, c) ==
  /\ c.phase # "off" /\ c.srv \in Servers /\ (c.srv = 2 => holder = 2)
  /\ c.cursor \in 1 .. Len(chan[c.srv]) + 1
  /\ Sent(Basis(p), c.last, c.wire, Main, Must)
  /\ c.phase \in {"registered", "backfill"} => c.wire = <<>>
  /\ c.phase \in {"backfill", "live"} => c.basis <= Len(value[c.srv])
  /\ c.phase \in {"backfill", "live"} =>
       Due(c.last, c.basis, chan[c.srv], c.cursor, AcksBy(c.srv))
  /\ c.phase \in {"backfill", "live"} /\ c.srv = 2 => \A t \in AcksBy(1) : t <= c.basis
  /\ c.phase = "live" =>
       \/ c.basis <= c.last
       \/ c.srv = 1 /\ holder = 2 /\ \A i \in 1 .. Len(chan[1]) : chan[1][i] <= c.last

Streams ==
  /\ conn \in [Peers -> Conns]
  /\ \A p \in Peers : conn[p] = Off \/ Linked(p, conn[p])

PInv ==
  /\ Flags /\ Base /\ Prefix /\ Hosting /\ Broadcast /\ AckedInLog
  /\ Held /\ Streams

-----------------------------------------------------------------------------
(* Sequences. *)

LEMMA EmptySeq ==
  ASSUME NEW S
  PROVE  <<>> \in Seq(S) /\ Len(<<>>) = 0 /\ \A q \in Seq(S) : q # <<>> => Len(q) \in Nat \ {0}
<1>1. <<>> \in Seq(S) /\ Len(<<>>) = 0
  BY SMTT(60)
<1>2. ASSUME NEW q \in Seq(S), q # <<>> PROVE Len(q) \in Nat \ {0}
  BY <1>2, SMTT(60)
<1> QED  BY <1>1, <1>2

LEMMA LenProperties ==
  ASSUME NEW S, NEW q \in Seq(S)
  PROVE  Len(q) \in Nat /\ DOMAIN q = 1 .. Len(q)
BY SMTT(60)

LEMMA ElementOfSeq ==
  ASSUME NEW S, NEW q \in Seq(S), NEW n \in 1 .. Len(q)
  PROVE  q[n] \in S
BY SMTT(60)

LEMMA AppendProperties ==
  ASSUME NEW S, NEW q \in Seq(S), NEW e \in S
  PROVE  /\ Append(q, e) \in Seq(S) /\ Append(q, e) # <<>>
         /\ Len(Append(q, e)) = Len(q) + 1
         /\ \A i \in 1 .. Len(q) : Append(q, e)[i] = q[i]
         /\ Append(q, e)[Len(q) + 1] = e
BY SMTT(60)

LEMMA HeadTailProperties ==
  ASSUME NEW S, NEW q \in Seq(S), q # <<>>
  PROVE  /\ Head(q) = q[1]
         /\ Tail(q) \in Seq(S) /\ Len(Tail(q)) = Len(q) - 1
         /\ \A i \in 1 .. Len(Tail(q)) : Tail(q)[i] = q[i + 1]
BY SMTT(60)

LEMMA FunctionIsSeq ==
  ASSUME NEW S, NEW n \in Nat, NEW w \in [1 .. n -> S]
  PROVE  w \in Seq(S) /\ Len(w) = n
BY SMTT(60)

-----------------------------------------------------------------------------
(* What is in flight. *)

Items == Seq([t : Ts, rec : Records])

LEMMA ItemsTyped ==
  ASSUME NEW w \in Items, NEW i \in 1 .. Len(w)
  PROVE  w[i].t \in Ts /\ w[i].rec \in Records /\ w[i].t \in Nat
<1>1. w[i] \in [t : Ts, rec : Records]
  BY ElementOfSeq DEF Items
<1>2. w[i].t \in Ts /\ w[i].rec \in Records
  BY <1>1
<1> QED  BY <1>2, StreamAssumption, SMTT(60) DEF Ts

LEMMA SentNothing ==
  ASSUME NEW b \in Nat, NEW m, NEW A, A \subseteq Nat
  PROVE  Sent(b, b, <<>>, m, A)
BY SMTT(60) DEF Sent

LEMMA SentAppend ==
  ASSUME NEW b \in Nat, NEW last \in Nat, NEW w \in Items, NEW m, NEW A, A \subseteq Nat,
         Sent(b, last, w, m, A), NEW e \in [t : Ts, rec : Records], last < e.t,
         Agrees(e.rec, e.t, m),
         \A t \in A : last < t /\ t <= e.t => t = e.t
  PROVE  Append(w, e) \in Items /\ Sent(b, e.t, Append(w, e), m, A)
<1>1. PICK x : x = Append(w, e)
  OBVIOUS
<1>2. /\ x \in Items /\ Len(x) = Len(w) + 1 /\ Len(w) \in Nat
      /\ \A i \in 1 .. Len(w) : x[i] = w[i]
      /\ x[Len(w) + 1] = e
  BY <1>1, AppendProperties, LenProperties, SMTT(60) DEF Items
<1>3. e.t \in Nat
  BY StreamAssumption, SMTT(60) DEF Ts
<1>4. \A i \in 1 .. Len(x) : i \in 1 .. Len(w) \/ i = Len(w) + 1
  BY <1>2, SMTT(60)
<1>5. ASSUME NEW i \in 1 .. Len(w)
      PROVE  x[i].t \in Nat /\ x[i].t <= last /\ Agrees(x[i].rec, x[i].t, m)
  BY <1>2, ItemsTyped DEF Sent
<1>6. ASSUME NEW i \in 1 .. Len(x) PROVE x[i].t <= e.t /\ Agrees(x[i].rec, x[i].t, m)
  <2>1. CASE i \in 1 .. Len(w)
    <3>1. x[i].t <= e.t
      BY <1>3, <1>5, <2>1, SMTT(60)
    <3> QED  BY <1>5, <2>1, <3>1
  <2>2. CASE i = Len(w) + 1
    <3>1. x[i] = e /\ e.t <= e.t
      BY <1>2, <1>3, <2>2, SMTT(60)
    <3> QED  BY <3>1
  <2> QED  BY <1>4, <2>1, <2>2
<1>7. ASSUME NEW i \in 1 .. Len(x), NEW j \in 1 .. Len(x), i < j PROVE x[i].t < x[j].t
  <2>1. i \in 1 .. Len(w)
    BY <1>2, <1>7, SMTT(60)
  <2>2. CASE j \in 1 .. Len(w)
    BY <1>2, <1>7, <2>1, <2>2 DEF Sent
  <2>3. CASE j = Len(w) + 1
    BY <1>2, <1>3, <1>5, <2>1, <2>3, SMTT(60)
  <2> QED  BY <1>4, <2>2, <2>3
<1>8. Len(w) + 1 \in 1 .. Len(x) /\ x[Len(w) + 1].t = e.t
  BY <1>2, SMTT(60)
<1>9. ASSUME NEW t \in A, b < t, t <= e.t PROVE \E i \in 1 .. Len(x) : x[i].t = t
  <2>1. CASE t <= last
    <3>1. PICK i \in 1 .. Len(w) : w[i].t = t
      BY <1>9, <2>1 DEF Sent
    <3> QED  BY <1>2, <3>1, SMTT(60)
  <2>2. CASE last < t
    BY <1>8, <1>9, <2>2
  <2> QED  BY <2>1, <2>2, SMTT(60)
<1>10. b <= e.t
  BY <1>3, SMTT(60) DEF Sent
<1>11. Sent(b, e.t, x, m, A)
  BY <1>6, <1>7, <1>8, <1>9, <1>10 DEF Sent
<1> QED  BY <1>1, <1>2, <1>11

(* The records from b + 1 to b + n, as the backfill sends them. *)
LEMMA SentRange ==
  ASSUME NEW b \in Nat, NEW n \in Nat, NEW m,
         NEW A, A \subseteq Nat, NEW w, Len(w) = n,
         \A i \in 1 .. n : w[i].t = b + i /\ Agrees(w[i].rec, b + i, m)
  PROVE  Sent(b, b + n, w, m, A)
<1>1. ASSUME NEW t \in A, b < t, t <= b + n PROVE t - b \in 1 .. n /\ w[t - b].t = t
  <2>1. t \in Nat
    OBVIOUS
  <2>2. t - b \in 1 .. n /\ b + (t - b) = t
    BY <1>1, <2>1, SMTT(60)
  <2> QED  BY <2>2
<1>2. b < b + n => n \in 1 .. n /\ w[n].t = b + n
  BY SMTT(60)
<1>3. ASSUME NEW i \in 1 .. n PROVE w[i].t <= b + n /\ Agrees(w[i].rec, w[i].t, m)
  <2>1. w[i].t = b + i /\ Agrees(w[i].rec, b + i, m)
    OBVIOUS
  <2>2. b + i <= b + n
    BY SMTT(60)
  <2> QED  BY <2>1, <2>2
<1>4. \A i, j \in 1 .. n : i < j => w[i].t < w[j].t
  BY SMTT(60)
<1>5. \A t \in A : b < t /\ t <= b + n => \E i \in 1 .. n : w[i].t = t
  BY <1>1
<1>6. b < b + n => \E i \in 1 .. n : w[i].t = b + n
  BY <1>2
<1>7. b <= b + n
  BY SMTT(60)
<1> QED  BY <1>3, <1>4, <1>5, <1>6, <1>7 DEF Sent

(* The peer takes the first item: it skips it, or moves its basis to it. *)
LEMMA SentTail ==
  ASSUME NEW b \in Nat, NEW last \in Nat, NEW w \in Items, w # <<>>, NEW m,
         NEW A, A \subseteq Nat, Sent(b, last, w, m, A)
  PROVE  /\ Tail(w) \in Items /\ w[1].t \in Ts /\ w[1].t <= last
         /\ Agrees(w[1].rec, w[1].t, m) /\ w[1].rec \in Records
         /\ \A t \in A : b < t /\ t <= w[1].t => t = w[1].t
         /\ \A b2 \in Nat : b <= b2 /\ w[1].t <= b2 /\ b2 <= last =>
              Sent(b2, last, Tail(w), m, A)
<1>0. PICK u : u = w[1].t
  OBVIOUS
<1>1. PICK x : x = Tail(w)
  OBVIOUS
<1>2. /\ Len(w) \in Nat \ {0} /\ x \in Items /\ Len(x) = Len(w) - 1
      /\ \A i \in 1 .. Len(x) : x[i] = w[i + 1]
  BY <1>1, HeadTailProperties, EmptySeq DEF Items
<1>3. 1 \in 1 .. Len(w)
  BY <1>2, SMTT(60)
<1>4. u \in Ts /\ u \in Nat /\ w[1].rec \in Records
  BY <1>0, <1>3, ItemsTyped
<1>5. u <= last /\ Agrees(w[1].rec, u, m) /\ b <= last
  BY <1>0, <1>3 DEF Sent
<1>6. ASSUME NEW i \in 1 .. Len(w), i # 1
      PROVE  i - 1 \in 1 .. Len(x) /\ x[i - 1] = w[i] /\ u < w[i].t
  <2>1. i - 1 \in 1 .. Len(x) /\ (i - 1) + 1 = i /\ 1 < i
    BY <1>2, <1>6, SMTT(60)
  <2>2. w[1].t < w[i].t
    BY <1>3, <2>1 DEF Sent
  <2>3. x[i - 1] = w[(i - 1) + 1]
    BY <1>2, <2>1
  <2> QED  BY <1>0, <2>1, <2>2, <2>3
<1>7. ASSUME NEW t \in Nat, NEW i \in 1 .. Len(w), w[i].t = t, u # t
      PROVE  \E j \in 1 .. Len(x) : x[j].t = t
  BY <1>0, <1>6, <1>7
<1>8. ASSUME NEW i \in 1 .. Len(x) PROVE x[i].t <= last /\ Agrees(x[i].rec, x[i].t, m)
  <2>1. i + 1 \in 1 .. Len(w) /\ x[i] = w[i + 1]
    BY <1>2, SMTT(60)
  <2>2. w[i + 1].t <= last /\ Agrees(w[i + 1].rec, w[i + 1].t, m)
    BY <2>1 DEF Sent
  <2> QED  BY <2>1, <2>2
<1>9. ASSUME NEW i \in 1 .. Len(x), NEW j \in 1 .. Len(x), i < j PROVE x[i].t < x[j].t
  <2>1. i + 1 \in 1 .. Len(w) /\ j + 1 \in 1 .. Len(w) /\ i + 1 < j + 1
    BY <1>2, <1>9, SMTT(60)
  <2>2. w[i + 1].t < w[j + 1].t
    BY <2>1 DEF Sent
  <2> QED  BY <1>2, <2>2
<1>10. ASSUME NEW b2 \in Nat, b <= b2, u <= b2, b2 <= last PROVE Sent(b2, last, x, m, A)
  <2>1. b2 < last => \E i \in 1 .. Len(x) : x[i].t = last
    <3>1. b2 < last => b < last /\ u # last
      BY <1>4, <1>10, SMTT(60)
    <3> QED  BY <1>7, <3>1 DEF Sent
  <2>2. ASSUME NEW t \in A, b2 < t, t <= last PROVE \E i \in 1 .. Len(x) : x[i].t = t
    <3>1. t \in Nat
      OBVIOUS
    <3>2. b < t /\ u # t
      BY <1>4, <1>10, <2>2, <3>1, SMTT(60)
    <3>3. PICK i \in 1 .. Len(w) : w[i].t = t
      BY <2>2, <3>2 DEF Sent
    <3> QED  BY <1>7, <3>1, <3>2, <3>3
  <2> QED  BY <1>5, <1>8, <1>9, <1>10, <2>1, <2>2 DEF Sent
<1>11. ASSUME NEW t \in A, b < t, t <= u PROVE t = u
  <2>0. t \in Nat
    OBVIOUS
  <2>1. t <= last
    BY <1>4, <1>5, <1>11, <2>0, SMTT(60)
  <2>2. PICK i \in 1 .. Len(w) : w[i].t = t
    BY <1>11, <2>1 DEF Sent
  <2>3. i = 1 \/ u < t
    BY <1>0, <1>6, <2>2
  <2> QED  BY <1>0, <1>4, <1>11, <2>0, <2>2, <2>3, SMTT(60)
<1> QED  BY <1>0, <1>1, <1>2, <1>4, <1>5, <1>10, <1>11

(* The holder's value grows: fewer t are left that may not be stepped over. *)
LEMMA AgreesGrows ==
  ASSUME NEW r, NEW t \in Ts, NEW m, NEW m2, Len(m) \in Nat, Len(m2) \in Nat,
         Len(m) <= Len(m2), \A i \in 1 .. Len(m) : m2[i] = m[i], Agrees(r, t, m)
  PROVE  Agrees(r, t, m2)
<1>1. CASE r = Refused
  BY <1>1 DEF Agrees
<1>2. CASE t <= Len(m) /\ r = m[t]
  <2>1. t \in 1 .. Len(m) /\ t <= Len(m2)
    BY <1>2, StreamAssumption, SMTT(60) DEF Ts
  <2> QED  BY <1>2, <2>1 DEF Agrees
<1> QED  BY <1>1, <1>2 DEF Agrees

LEMMA SentGrows ==
  ASSUME NEW b \in Nat, NEW last \in Nat, NEW w \in Items, NEW m, NEW m2, NEW A, NEW A2,
         Len(m) \in Nat, Len(m2) \in Nat, Len(m) <= Len(m2), A2 \subseteq A,
         \A i \in 1 .. Len(m) : m2[i] = m[i], Sent(b, last, w, m, A)
  PROVE  Sent(b, last, w, m2, A2)
<1>1. ASSUME NEW i \in 1 .. Len(w) PROVE w[i].t <= last /\ Agrees(w[i].rec, w[i].t, m2)
  <2>1. w[i].t \in Ts /\ w[i].t <= last /\ Agrees(w[i].rec, w[i].t, m)
    BY ItemsTyped DEF Sent
  <2> QED  BY <2>1, AgreesGrows
<1> QED  BY <1>1 DEF Sent

(* The report of u is broadcast and u acknowledged. *)
LEMMA DueAcked ==
  ASSUME NEW last, NEW basis, NEW ch \in Seq(Ts), NEW cur \in 1 .. Len(ch) + 1,
         NEW A, NEW u \in Ts, Due(last, basis, ch, cur, A)
  PROVE  Due(last, basis, Append(ch, u), cur, A \cup {u})
<1>1. PICK x : x = Append(ch, u)
  OBVIOUS
<1>2. /\ Len(ch) \in Nat /\ Len(x) = Len(ch) + 1 /\ x[Len(ch) + 1] = u
      /\ \A i \in 1 .. Len(ch) : x[i] = ch[i]
  BY <1>1, AppendProperties, LenProperties, SMTT(60)
<1>3. Len(ch) + 1 \in cur .. Len(x)
  BY <1>2, SMTT(60)
<1>4. \A i \in cur .. Len(ch) : i \in cur .. Len(x) /\ x[i] = ch[i]
  BY <1>2, SMTT(60)
<1> QED  BY <1>1, <1>2, <1>3, <1>4 DEF Due

(* The stream takes the report at its cursor. *)
LEMMA DueTaken ==
  ASSUME NEW last \in Nat, NEW last2 \in Nat, NEW basis, NEW ch,
         NEW cur \in Nat, Len(ch) \in Nat, NEW A, A \subseteq Nat, last <= last2,
         ch[cur] <= last2, Due(last, basis, ch, cur, A)
  PROVE  Due(last2, basis, ch, cur + 1, A)
<1> SUFFICES ASSUME NEW t \in A, last2 < t, basis < t
             PROVE  \E i \in cur + 1 .. Len(ch) : ch[i] = t
  BY DEF Due
<1>1. t \in Nat
  OBVIOUS
<1>2. last < t
  BY <1>1, SMTT(60)
<1>3. PICK i \in cur .. Len(ch) : ch[i] = t
  BY <1>2 DEF Due
<1>4. i # cur
  BY <1>1, <1>3, SMTT(60)
<1>5. i \in cur + 1 .. Len(ch)
  BY <1>4, SMTT(60)
<1> QED  BY <1>3, <1>5

-----------------------------------------------------------------------------
(* What a peer holds. *)

LEMMA HoldsFacts ==
  ASSUME NEW b, NEW v, NEW m, NEW A, Holds(b, v, m, A)
  PROVE  b \in 0 .. MaxT /\ b \in Nat
BY SMTT(60) DEF Holds

LEMMA HoldsGrows ==
  ASSUME NEW b, NEW v, NEW m, NEW m2, NEW A, NEW A2, Len(m) \in Nat, Len(m2) \in Nat,
         Len(m) <= Len(m2), \A i \in 1 .. Len(m) : m2[i] = m[i], A2 \subseteq A,
         Holds(b, v, m, A)
  PROVE  Holds(b, v, m2, A2)
<1>1. ASSUME NEW t \in Ts, v[t] # 0 PROVE Agrees(v[t], t, m2)
  <2>1. Agrees(v[t], t, m)
    BY <1>1 DEF Holds
  <2> QED  BY <2>1, AgreesGrows
<1> QED  BY <1>1 DEF Holds

(* The report of u is applied. *)
LEMMA HoldsApplied ==
  ASSUME NEW b, NEW v \in [Ts -> Records \cup {0}], NEW m, NEW A, A \subseteq Ts,
         Holds(b, v, m, A), NEW u \in Ts, b < u,
         NEW e \in Records, Agrees(e, u, m), \A t \in A : b < t /\ t <= u => t = u,
         NEW v2, v2 = [v EXCEPT ![u] = e]
  PROVE  Holds(u, v2, m, A) /\ v2 \in [Ts -> Records \cup {0}]
<1>1. v2 \in [Ts -> Records \cup {0}] /\ v2[u] = e /\ \A t \in Ts : t # u => v2[t] = v[t]
  OBVIOUS
<1>2. e # 0 /\ b \in Nat /\ u \in Nat /\ u \in 0 .. MaxT /\ \A t \in Ts : t \in Nat
  BY HoldsFacts, StreamAssumption, SMTT(60) DEF Records, Refused, Servers, Ts
<1>3. ASSUME NEW t \in Ts, u < t PROVE v2[t] = 0
  <2>1. t # u /\ b < t
    BY <1>2, <1>3, SMTT(60)
  <2> QED  BY <1>1, <2>1 DEF Holds
<1>4. ASSUME NEW t \in Ts, v2[t] # 0 PROVE Agrees(v2[t], t, m)
  BY <1>1, <1>4 DEF Holds
<1>5. ASSUME NEW t \in A, t <= u PROVE v2[t] # 0
  <2>1. CASE t <= b
    <3>1. t # u /\ t \in Ts
      BY <1>2, <2>1, SMTT(60)
    <3> QED  BY <1>1, <2>1, <3>1 DEF Holds
  <2>2. CASE b < t
    BY <1>1, <1>2, <1>5, <2>2
  <2>3. t \in Nat
    BY <1>2
  <2> QED  BY <1>2, <2>1, <2>2, <2>3, SMTT(60)
<1> QED  BY <1>1, <1>2, <1>3, <1>4, <1>5 DEF Holds

-----------------------------------------------------------------------------
(* The operators. *)

LEMMA BasisIs ==
  ASSUME NEW v, NEW b \in 0 .. MaxT, b = 0 \/ v[b] # 0,
         \A t \in Ts : b < t => v[t] = 0
  PROVE  Max({0} \cup {t \in Ts : v[t] # 0}) = b
<1> DEFINE S == {0} \cup {t \in Ts : v[t] # 0}
<1>1. b \in S /\ \A y \in S : y \in Nat /\ b >= y
  BY StreamAssumption, SMTT(60) DEF Ts
<1>2. \A x \in S : (\A y \in S : x >= y) => x = b
  BY <1>1, SMTT(60)
<1> HIDE DEF S
<1>3. Max(S) = b
  BY <1>1, <1>2 DEF Max
<1> QED  BY <1>3 DEF S

LEMMA OffConn == Off \in Conns
BY StreamAssumption, SMTT(60) DEF Off, Conns, Servers

LEMMA PhaseUpdate ==
  ASSUME NEW c \in Conns,
         NEW ph \in {"off", "registered", "backfill", "live", "ended"}
  PROVE  LET d == [c EXCEPT !.phase = ph]
         IN /\ d \in Conns /\ d.phase = ph /\ d.srv = c.srv /\ d.cursor = c.cursor
            /\ d.basis = c.basis /\ d.last = c.last /\ d.wire = c.wire
BY DEF Conns

LEMMA MainFacts ==
  ASSUME Base
  PROVE  Main \in Seq(Records) /\ Len(Main) \in Nat /\ holder \in Servers
<1>1. Main \in Seq(Records) /\ holder \in Servers
  BY DEF Base, Main
<1> QED  BY <1>1, LenProperties

LEMMA PeerFacts ==
  ASSUME PInv, NEW p \in Peers
  PROVE  /\ Basis(p) \in 0 .. MaxT /\ Basis(p) \in Nat
         /\ Holds(Basis(p), pv[p], Main, Must)
         /\ Must \subseteq Ts /\ Must \subseteq Nat
<1>1. acked \subseteq Ts \X Servers
  BY DEF PInv, Base
<1>2. Must \subseteq Ts
  BY <1>1 DEF Must, Acks
<1>3. Must \subseteq Nat
  BY <1>2, StreamAssumption, SMTT(60) DEF Ts
<1>4. Holds(Basis(p), pv[p], Main, Must)
  BY DEF PInv, Held
<1> QED  BY <1>2, <1>3, <1>4, HoldsFacts

(* The log is no shorter than the holder's value and agrees with it. *)
LEMMA LogFacts ==
  ASSUME PInv
  PROVE  /\ log \in Seq(Records) /\ Len(log) \in Nat /\ Len(log) <= MaxT
         /\ Len(Main) <= Len(log)
         /\ \A i \in 1 .. Len(log) : Agrees(log[i], i, Main)
<1>1. log \in Seq(Records) /\ Len(log) <= MaxT /\ (holder = 1 \/ holder = 2)
  BY DEF PInv, Base, Servers
<1>2. Len(log) \in Nat /\ Len(log) <= Len(log)
  BY <1>1, LenProperties, SMTT(60)
<1>3. ASSUME log = Main
      PROVE  Len(Main) <= Len(log) /\ \E s \in Servers : log = value[s]
  <2>1. holder \in Servers /\ log = value[holder]
    BY <1>3 DEF PInv, Base, Main
  <2> QED  BY <1>2, <1>3, <2>1
<1>4. Len(Main) <= Len(log) /\ \E s \in Servers : log = value[s]
  <2>1. CASE holder = 1
    BY <1>3, <2>1 DEF PInv, Prefix, Main
  <2>2. CASE holder = 2 /\ \E i \in DOMAIN log : log[i] = 2
    BY <1>3, <2>2 DEF PInv, Prefix, Main
  <2>3. CASE holder = 2 /\ ~\E i \in DOMAIN log : log[i] = 2
    <3>1. log = value[1] /\ Len(value[2]) <= Len(value[1])
      BY <2>3 DEF PInv, Prefix
    <3> QED  BY <2>3, <3>1 DEF Main, Servers
  <2> QED  BY <1>1, <2>1, <2>2, <2>3
<1>5. \A i \in 1 .. Len(log) : Agrees(log[i], i, Main)
  BY <1>4 DEF PInv, Prefix
<1> QED  BY <1>1, <1>2, <1>4, <1>5

LEMMA ConnFacts ==
  ASSUME NEW c \in Conns
  PROVE  /\ c.last \in Nat /\ c.basis \in Nat /\ c.cursor \in Nat /\ c.wire \in Items
         /\ c.last \in 0 .. MaxT /\ c.basis \in 0 .. MaxT
BY StreamAssumption, SMTT(60) DEF Conns, Items

LEMMA BasisFrame ==
  ASSUME NEW p, pv'[p] = pv[p]
  PROVE  Basis(p)' = Basis(p)
BY DEF Basis

LEMMA AcksFrame ==
  ASSUME acked' = acked
  PROVE  Acks' = Acks /\ \A s \in Servers : AcksBy(s)' = AcksBy(s)
BY DEF Acks, AcksBy

LEMMA AcksByTyped ==
  ASSUME NEW s
  PROVE  AcksBy(s) \subseteq Ts /\ AcksBy(s) \subseteq Nat
<1>1. AcksBy(s) \subseteq Ts
  BY DEF AcksBy
<1> QED  BY <1>1, StreamAssumption, SMTT(60) DEF Ts

LEMMA MustShrinks ==
  ASSUME Base, Base', acked' = acked, Len(Main) <= Len(Main')
  PROVE  Must' \subseteq Must
<1>1. Len(Main) \in Nat /\ Len(Main') \in Nat /\ Acks' = Acks
  <2>1. Len(Main) \in Nat
    BY MainFacts
  <2>2. Main' \in Seq(Records)
    BY DEF Base, Main
  <2> QED  BY <2>1, <2>2, LenProperties, AcksFrame
<1>2. \A t \in Ts : Len(Main') <= t => Len(Main) <= t
  BY <1>1, StreamAssumption, SMTT(60) DEF Ts
<1> QED  BY <1>1, <1>2 DEF Must

(* The holder's value, what is acknowledged, or neither is left alone. *)
LEMMA MainFrame ==
  ASSUME UNCHANGED <<holder, value>>
  PROVE  Main' = Main
BY DEF Main

LEMMA MustFrame ==
  ASSUME UNCHANGED <<holder, value, acked>>
  PROVE  Must' = Must
<1>1. Main' = Main /\ Acks' = Acks
  BY MainFrame, AcksFrame
<1> QED  BY <1>1 DEF Must

LEMMA PInvInit == Init => PInv
<1> SUFFICES ASSUME Init PROVE PInv
  OBVIOUS
<1> USE DEF Init
<1>1. Flags
  <2>1. \A s \in Servers : (s = 1) \in BOOLEAN
    OBVIOUS
  <2>2. hosted \in [Servers -> BOOLEAN]
    BY <2>1
  <2>3. unfenced \in [Servers -> BOOLEAN]
    OBVIOUS
  <2> QED  BY <2>2, <2>3 DEF Flags
<1>2. Base
  BY StreamAssumption, EmptySeq, SMTT(60) DEF Base, Records, Servers, Ts
<1>3. Main = <<>> /\ Len(<<>>) = 0
  BY EmptySeq DEF Main, Servers
<1>4. Prefix
  <2>1. \A s \in Servers : value[s] = <<>>
    OBVIOUS
  <2>2. holder = 1 /\ ~(holder = 2) /\ log = value[1]
    BY <2>1, SMTT(60) DEF Servers
  <2>3. 0 <= MaxT /\ \A i \in 1 .. 0 : FALSE
    BY StreamAssumption, SMTT(60)
  <2> QED  BY <1>3, <2>1, <2>2, <2>3 DEF Prefix
<1>5. AckedInLog
  BY DEF AckedInLog, AcksBy
<1>6. Hosting
  <2>1. hosted[2] = (2 = 1)
    BY DEF Servers
  <2>2. (2 = 1) = FALSE
    BY SMTT(60)
  <2>3. value[2] = <<>> /\ unfenced[2] = FALSE /\ unfenced[holder] = FALSE
    BY DEF Servers
  <2> QED  BY <2>1, <2>2, <2>3 DEF Hosting
<1>7. Broadcast
  <2>1. \A s \in Servers : chan[s] = <<>>
    OBVIOUS
  <2>2. \A i \in 1 .. 0 : FALSE
    BY SMTT(60)
  <2> QED  BY <1>3, <2>1, <2>2 DEF Broadcast
<1>8. ASSUME NEW p \in Peers PROVE Basis(p) = 0
  <2>1. \A t \in Ts : pv[p][t] = 0
    OBVIOUS
  <2>2. 0 \in 0 .. MaxT
    BY StreamAssumption, SMTT(60)
  <2>3. Max({0} \cup {t \in Ts : pv[p][t] # 0}) = 0
    BY <2>1, <2>2, BasisIs
  <2> QED  BY <2>3 DEF Basis
<1>9. Held
  <2>1. Must \subseteq Ts
    BY DEF Must, Acks
  <2>2. 0 \in 0 .. MaxT /\ \A t \in Ts : ~(t <= 0)
    BY StreamAssumption, SMTT(60) DEF Ts
  <2>3. ASSUME NEW p \in Peers PROVE Holds(0, pv[p], Main, Must)
    <3>1. \A t \in Ts : pv[p][t] = 0
      OBVIOUS
    <3> QED  BY <2>1, <2>2, <3>1 DEF Holds
  <2> QED  BY <1>8, <2>3 DEF Held
<1>10. Streams
  BY OffConn DEF Streams
<1> QED  BY <1>1, <1>2, <1>4, <1>5, <1>6, <1>7, <1>9, <1>10 DEF PInv

-----------------------------------------------------------------------------
(* Steps of the servers. *)

LEMMA LinkFrame ==
  ASSUME PInv, NEW p \in Peers, NEW c \in Conns, Linked(p, c), Base',
         pv' = pv, acked' = acked, chan' = chan,
         Len(Main) <= Len(Main'), \A i \in 1 .. Len(Main) : Main'[i] = Main[i],
         holder = 2 => holder' = 2,
         \A s \in Servers : Len(value[s]) <= Len(value'[s])
  PROVE  Linked(p, c)'
<1>1. Basis(p)' = Basis(p) /\ \A s \in Servers : AcksBy(s)' = AcksBy(s)
  BY BasisFrame, AcksFrame
<1>2. Basis(p) \in Nat /\ c.last \in Nat /\ c.basis \in Nat /\ c.wire \in Items
  BY PeerFacts, ConnFacts
<1>3. Len(Main) \in Nat /\ Len(Main') \in Nat
  <2>1. Main' \in Seq(Records)
    BY DEF Base, Main
  <2> QED  BY <2>1, LenProperties, MainFacts DEF PInv
<1>4. Must' \subseteq Must
  BY MustShrinks DEF PInv
<1>5. Sent(Basis(p), c.last, c.wire, Main, Must)
  BY DEF Linked
<1>6. Sent(Basis(p), c.last, c.wire, Main', Must')
  BY <1>2, <1>3, <1>4, <1>5, SentGrows
<1>7. c.srv \in Servers /\ (c.srv = 2 => holder = 2)
  BY DEF Linked
<1>8. Len(value[c.srv]) \in Nat /\ Len(value'[c.srv]) \in Nat
  BY <1>7, LenProperties DEF PInv, Base
<1>9. c.basis <= Len(value[c.srv]) => c.basis <= Len(value'[c.srv])
  BY <1>2, <1>7, <1>8, SMTT(60)
<1>10. 1 \in Servers /\ AcksBy(1)' = AcksBy(1) /\ AcksBy(c.srv)' = AcksBy(c.srv)
  BY <1>1, <1>7 DEF Servers
<1>11. /\ c.phase # "off" /\ c.cursor \in 1 .. Len(chan'[c.srv]) + 1
       /\ c.phase \in {"registered", "backfill"} => c.wire = <<>>
       /\ c.phase \in {"backfill", "live"} => c.basis <= Len(value'[c.srv])
  BY <1>9 DEF Linked
<1>12. c.phase \in {"backfill", "live"} =>
         Due(c.last, c.basis, chan'[c.srv], c.cursor, AcksBy(c.srv)')
  BY <1>10 DEF Linked
<1>13. /\ c.phase \in {"backfill", "live"} /\ c.srv = 2 => \A t \in AcksBy(1)' : t <= c.basis
       /\ c.phase = "live" =>
            \/ c.basis <= c.last
            \/ c.srv = 1 /\ holder' = 2 /\ \A i \in 1 .. Len(chan'[1]) : chan'[1][i] <= c.last
  BY <1>10 DEF Linked
<1> QED  BY <1>1, <1>6, <1>7, <1>11, <1>12, <1>13 DEF Linked

(***************************************************************************)
(* A step of the servers that leaves connections, peers' values and        *)
(* acknowledgements alone and only extends values.                         *)
(***************************************************************************)
LEMMA ServerStep ==
  ASSUME PInv, Base', UNCHANGED <<acked, chan, conn, pv>>,
         Len(Main) <= Len(Main'), \A i \in 1 .. Len(Main) : Main'[i] = Main[i],
         holder = 2 => holder' = 2,
         \A s \in Servers : Len(value[s]) <= Len(value'[s])
  PROVE  AckedInLog' /\ Held' /\ Streams'
<1> USE DEF PInv
<1>1. /\ \A p \in Peers : Basis(p)' = Basis(p)
      /\ \A s \in Servers : AcksBy(s)' = AcksBy(s)
  BY BasisFrame, AcksFrame
<1>2. Len(Main) \in Nat /\ Len(Main') \in Nat
  <2>1. Main' \in Seq(Records)
    BY DEF Base, Main
  <2> QED  BY <2>1, LenProperties, MainFacts
<1>3. AckedInLog'
  <2>1. ASSUME NEW a \in acked
        PROVE  a[1] <= Len(Main') /\ Main'[a[1]] = a[2] /\ a[1] <= Len(value'[a[2]])
    <3>1. /\ a[1] \in Ts /\ a[2] \in Servers
          /\ a[1] <= Len(Main) /\ Main[a[1]] = a[2] /\ a[1] <= Len(value[a[2]])
      BY DEF AckedInLog, Base
    <3>2. Len(value[a[2]]) \in Nat /\ Len(value'[a[2]]) \in Nat
      BY <3>1, LenProperties DEF Base
    <3>3. a[1] \in 1 .. Len(Main) /\ a[1] <= Len(Main')
      BY <1>2, <3>1, StreamAssumption, SMTT(60) DEF Ts
    <3>4. a[1] <= Len(value'[a[2]])
      BY <3>1, <3>2, StreamAssumption, SMTT(60) DEF Ts
    <3> QED  BY <3>1, <3>3, <3>4
  <2>2. AcksBy(2)' = AcksBy(2)
    BY <1>1 DEF Servers
  <2> QED  BY <2>1, <2>2 DEF AckedInLog
<1>4. Held'
  <2>1. Must' \subseteq Must
    BY MustShrinks
  <2>2. ASSUME NEW p \in Peers PROVE Holds(Basis(p), pv[p], Main', Must')
    <3>1. Holds(Basis(p), pv[p], Main, Must)
      BY PeerFacts
    <3> QED  BY <1>2, <2>1, <3>1, HoldsGrows
  <2> QED  BY <1>1, <2>2 DEF Held
<1>5. ASSUME NEW p \in Peers PROVE conn'[p] = Off \/ Linked(p, conn[p])'
  <2>1. CASE conn[p] = Off
    BY <2>1
  <2>2. CASE Linked(p, conn[p])
    <3>1. PICK c : c = conn[p]
      OBVIOUS
    <3>2. c \in Conns /\ Linked(p, c)
      BY <2>2, <3>1 DEF Streams
    <3>3. Linked(p, c)'
      BY <3>2, LinkFrame
    <3> QED  BY <3>1, <3>3
  <2> QED  BY <2>1, <2>2 DEF Streams
<1>6. Streams'
  BY <1>5 DEF Streams
<1> QED  BY <1>3, <1>4, <1>6

(* The reports stay within values that only grow. *)
LEMMA BroadcastGrows ==
  ASSUME PInv, Base', chan' = chan, Len(Main) <= Len(Main'),
         \A s \in Servers : Len(value[s]) <= Len(value'[s]),
         unfenced'[holder'] = TRUE =>
           Len(Main) < Len(Main') \/ (unfenced[holder] = TRUE)
  PROVE  Broadcast'
<1> USE DEF PInv
<1>1. Len(Main) \in Nat /\ Len(Main') \in Nat
  <2>1. Main' \in Seq(Records)
    BY DEF Base, Main
  <2> QED  BY <2>1, LenProperties, MainFacts
<1>2. ASSUME NEW s \in Servers, NEW i \in 1 .. Len(chan[s])
      PROVE  /\ chan[s][i] <= Len(value'[s]) /\ chan[s][i] <= Len(Main')
             /\ Len(Main) < Len(Main') => chan[s][i] < Len(Main')
             /\ chan[s][i] < Len(Main) => chan[s][i] < Len(Main')
  <2>1. chan[s] \in Seq(Ts) /\ Len(value[s]) \in Nat /\ Len(value'[s]) \in Nat
    BY LenProperties DEF Base
  <2>2. chan[s][i] \in Nat
    <3>1. chan[s][i] \in Ts
      BY <2>1, ElementOfSeq
    <3> QED  BY <3>1, StreamAssumption, SMTT(60) DEF Ts
  <2>3. chan[s][i] <= Len(value[s]) /\ chan[s][i] <= Len(Main)
    BY DEF Broadcast
  <2> QED  BY <1>1, <2>1, <2>2, <2>3, SMTT(60)
<1>3. ASSUME unfenced'[holder'] = TRUE, NEW s \in Servers, NEW i \in 1 .. Len(chan[s])
      PROVE  chan[s][i] < Len(Main')
  <2>1. CASE Len(Main) < Len(Main')
    BY <1>2, <2>1
  <2>2. CASE unfenced[holder] = TRUE
    BY <1>2, <2>2 DEF Broadcast
  <2> QED  BY <1>3, <2>1, <2>2
<1>4. \A s \in Servers : \A i, j \in 1 .. Len(chan[s]) : i < j => chan[s][i] < chan[s][j]
  BY DEF Broadcast
<1> QED  BY <1>2, <1>3, <1>4 DEF Broadcast

(* v is q with e at its end. *)
Grown(v, q, e) ==
  /\ v \in Seq(Records) /\ v # <<>> /\ Len(v) = Len(q) + 1
  /\ \A i \in 1 .. Len(q) : v[i] = q[i]
  /\ v[Len(q) + 1] = e

(* A record joins a log. *)
LEMMA Grows ==
  ASSUME NEW q \in Seq(Records), NEW e \in Records, NEW v, v = Append(q, e)
  PROVE  Grown(v, q, e)
BY SMTT(60) DEF Grown

(* The holder installs a record. *)
LEMMA PInstallOwn ==
  ASSUME PInv, NEW s \in Servers, Install(s), s = holder
  PROVE  PInv'
<1> USE DEF PInv
<1>1. PICK v : v = Append(value[s], s)
  OBVIOUS
<1>2. /\ Len(value[s]) < MaxT /\ hosted[s]
      /\ value' = [value EXCEPT ![s] = v] /\ log' = v
      /\ unfenced' = [unfenced EXCEPT ![s] = TRUE]
      /\ UNCHANGED <<holder, hosted, chan, acked, conn, pv, faults>>
  BY <1>1 DEF Install
<1>3. \A r \in Servers : value[r] \in Seq(Records) /\ Len(value[r]) \in Nat
  BY LenProperties DEF Base
<1>4. /\ v \in Seq(Records) /\ v # <<>> /\ Len(v) = Len(value[s]) + 1
      /\ \A i \in 1 .. Len(value[s]) : v[i] = value[s][i]
      /\ v[Len(value[s]) + 1] = s
  <2>1. s \in Records
    BY DEF Records
  <2>2. value[s] \in Seq(Records)
    BY <1>3
  <2>3. Grown(v, value[s], s)
    BY <1>1, <2>1, <2>2, Grows
  <2> QED  BY <2>3 DEF Grown
<1>5. value'[s] = v /\ \A r \in Servers : r # s => value'[r] = value[r]
  BY <1>2 DEF Base
<1>6. Main = value[s] /\ Main' = v
  BY <1>2, <1>5 DEF Main
<1>7. /\ Len(Main) \in Nat /\ Len(Main') = Len(Main) + 1 /\ Len(Main) < Len(Main')
      /\ Len(Main) <= Len(Main') /\ Len(v) \in Nat /\ Len(v) <= MaxT
      /\ v[Len(v)] = s /\ Len(v) \in 1 .. Len(v)
  BY <1>2, <1>3, <1>4, <1>6, StreamAssumption, SMTT(60)
<1>8. \A i \in 1 .. Len(Main) : Main'[i] = Main[i]
  BY <1>4, <1>6
<1>9. ASSUME NEW r \in Servers PROVE Len(value[r]) <= Len(value'[r])
  BY <1>3, <1>4, <1>5, SMTT(60)
<1>10. Flags'
  BY <1>2 DEF Flags
<1>11. Base'
  <2>1. value' \in [Servers -> Seq(Records)]
    BY <1>2, <1>4 DEF Base
  <2> QED  BY <1>2, <1>4, <1>7, <2>1 DEF Base
<1>12. Prefix'
  <2>1. holder' = 1 => log' = value'[1]
    BY <1>2, <1>5
  <2>2. holder' = 2 => log' = value'[2]
    BY <1>2, <1>5
  <2>3. holder' = 2 => \E i \in DOMAIN log' : log'[i] = 2
    <3>1. DOMAIN v = 1 .. Len(v)
      BY <1>4, LenProperties
    <3> QED  BY <1>2, <1>7, <3>1
  <2>4. ASSUME NEW r \in Servers PROVE Len(value'[r]) <= MaxT
    BY <1>5, <1>7 DEF Prefix
  <2>5. ASSUME NEW r \in Servers, NEW i \in 1 .. Len(value'[r])
        PROVE  Agrees(value'[r][i], i, Main')
    <3>1. CASE r = s
      <4>1. value'[r][i] = v[i] /\ i <= Len(v)
        BY <1>5, <1>7, <3>1, SMTT(60)
      <4> QED  BY <1>6, <4>1 DEF Agrees
    <3>2. CASE r # s
      <4>1. value'[r] = value[r]
        BY <1>5, <3>2
      <4>2. Agrees(value[r][i], i, Main)
        BY <4>1 DEF Prefix
      <4>3. Len(value[r]) <= MaxT
        BY DEF Prefix
      <4>4. i \in Ts
        BY <1>3, <4>1, <4>3, StreamAssumption, SMTT(60) DEF Ts
      <4>5. Len(Main') \in Nat
        BY <1>6, <1>7
      <4>6. Agrees(value[r][i], i, Main')
        BY <1>7, <1>8, <4>2, <4>4, <4>5, AgreesGrows
      <4> QED  BY <4>1, <4>6
    <3> QED  BY <3>1, <3>2
  <2> QED  BY <2>1, <2>2, <2>3, <2>4, <2>5 DEF Prefix
<1>13. Hosting'
  <2>1. holder = 1 => s # 2
    BY SMTT(60)
  <2>2. \A r \in Servers : r # s => unfenced'[r] = unfenced[r]
    BY <1>2 DEF Flags
  <2>3. holder' = 1 => value'[2] = <<>> /\ hosted'[2] = FALSE /\ unfenced'[2] = FALSE
    BY <1>2, <1>5, <2>1, <2>2 DEF Hosting, Servers
  <2> QED  BY <1>2, <1>4, <1>6, <1>7, <2>3 DEF Hosting
<1>14. Broadcast'
  BY <1>2, <1>7, <1>9, <1>11, BroadcastGrows
<1>15. AckedInLog' /\ Held' /\ Streams'
  BY <1>2, <1>7, <1>8, <1>9, <1>11, ServerStep
<1> QED  BY <1>10, <1>11, <1>12, <1>13, <1>14, <1>15

(* A deposed server installs one that will be refused. *)
LEMMA PInstallStale ==
  ASSUME PInv, NEW s \in Servers, Install(s), s # holder
  PROVE  PInv'
<1> USE DEF PInv
<1>0. s = 1 /\ holder = 2
  <2>1. hosted[s] /\ (s = 1 \/ s = 2) /\ (holder = 1 \/ holder = 2)
    BY DEF Install, Base, Servers
  <2>2. holder = 1 => hosted[2] = FALSE
    BY DEF Hosting
  <2>3. CASE holder = 1
    <3>1. s = 2
      BY <2>1, <2>3
    <3>2. hosted[2]
      BY <2>1, <3>1
    <3> QED  BY <2>2, <2>3, <3>2
  <2>4. CASE holder = 2
    BY <2>1, <2>4
  <2> QED  BY <2>1, <2>3, <2>4
<1>1. PICK v : v = Append(value[1], Refused)
  OBVIOUS
<1>2. /\ Len(value[1]) < MaxT
      /\ value' = [value EXCEPT ![1] = v]
      /\ log' = IF \E i \in DOMAIN log : log[i] = 2 THEN log ELSE v
      /\ unfenced' = [unfenced EXCEPT ![1] = TRUE]
      /\ UNCHANGED <<holder, hosted, chan, acked, conn, pv, faults>>
  BY <1>0, <1>1 DEF Install
<1>3. \A r \in Servers : value[r] \in Seq(Records) /\ Len(value[r]) \in Nat
  BY LenProperties DEF Base
<1>4. /\ v \in Seq(Records) /\ Len(v) = Len(value[1]) + 1
      /\ \A i \in 1 .. Len(value[1]) : v[i] = value[1][i]
      /\ v[Len(value[1]) + 1] = Refused
  <2>1. Refused \in Records /\ 1 \in Servers
    BY DEF Records, Servers
  <2>2. value[1] \in Seq(Records)
    BY <1>3, <2>1
  <2>3. Grown(v, value[1], Refused)
    BY <1>1, <2>1, <2>2, Grows
  <2> QED  BY <2>3 DEF Grown
<1>5. value'[1] = v /\ value'[2] = value[2]
  <2>1. 1 # 2
    BY SMTT(60)
  <2> QED  BY <1>2, <2>1 DEF Base, Servers
<1>6. Main' = Main /\ Main = value[2]
  BY <1>0, <1>2, <1>5 DEF Main
<1>7. Len(Main) \in Nat /\ Len(Main) <= Len(Main) /\ Len(Main) <= Len(Main')
  BY <1>3, <1>6, SMTT(60) DEF Servers
<1>8. /\ Len(value[1]) \in Nat /\ Len(value[2]) \in Nat /\ Len(v) \in Nat /\ Len(v) <= MaxT
      /\ Len(value[1]) <= Len(v)
  BY <1>2, <1>3, <1>4, StreamAssumption, SMTT(60) DEF Servers
<1>9. ASSUME NEW r \in Servers PROVE Len(value[r]) <= Len(value'[r])
  <2>1. r = 1 \/ r = 2
    BY DEF Servers
  <2>2. Len(value[2]) <= Len(value[2])
    BY <1>8, SMTT(60)
  <2> QED  BY <1>5, <1>8, <2>1, <2>2
<1>10. Flags'
  BY <1>2 DEF Flags, Servers
<1>11. Base'
  <2>1. value' \in [Servers -> Seq(Records)]
    BY <1>2, <1>4 DEF Base, Servers
  <2>2. log' \in Seq(Records) /\ Len(log') <= MaxT
    BY <1>2, <1>4, <1>8 DEF Base
  <2> QED  BY <1>2, <2>1, <2>2 DEF Base
<1>12. Prefix'
  <2>1. ASSUME \E i \in DOMAIN log : log[i] = 2
        PROVE  log' = value'[2] /\ \E i \in DOMAIN log' : log'[i] = 2
    <3>1. log' = log /\ log = value[2]
      BY <1>0, <1>2, <2>1 DEF Prefix
    <3> QED  BY <1>5, <2>1, <3>1
  <2>2. ASSUME ~\E i \in DOMAIN log : log[i] = 2
        PROVE  /\ log' = value'[1] /\ Len(value'[2]) <= Len(value'[1])
               /\ ~\E i \in DOMAIN log' : log'[i] = 2
    <3>1. log' = v /\ log = value[1] /\ Len(value[2]) <= Len(value[1])
      BY <1>0, <1>2, <2>2 DEF Prefix
    <3>2. Len(value[2]) <= Len(v)
      BY <1>8, <3>1, SMTT(60)
    <3>3. ASSUME NEW i \in DOMAIN v PROVE v[i] # 2
      <4>1. DOMAIN v = 1 .. Len(v) /\ DOMAIN log = 1 .. Len(value[1])
        BY <1>3, <1>4, <3>1, LenProperties DEF Servers
      <4>2. i \in 1 .. Len(value[1]) \/ i = Len(value[1]) + 1
        BY <1>4, <1>8, <4>1, SMTT(60)
      <4>3. Refused # 2
        BY SMTT(60) DEF Refused
      <4>4. CASE i \in 1 .. Len(value[1])
        BY <1>4, <2>2, <3>1, <4>1, <4>4
      <4>5. CASE i = Len(value[1]) + 1
        BY <1>4, <4>3, <4>5
      <4> QED  BY <4>2, <4>4, <4>5
    <3> QED  BY <1>5, <3>1, <3>2, <3>3
  <2>3. ~(holder' = 1)
    BY <1>0, <1>2, SMTT(60)
  <2>4. ASSUME NEW r \in Servers PROVE Len(value'[r]) <= MaxT
    BY <1>5, <1>8 DEF Prefix, Servers
  <2>5. ASSUME NEW r \in Servers, NEW i \in 1 .. Len(value'[r])
        PROVE  Agrees(value'[r][i], i, Main)
    <3>1. CASE r = 1
      <4>1. i \in 1 .. Len(value[1]) \/ i = Len(value[1]) + 1
        BY <1>4, <1>5, <1>8, <3>1, SMTT(60)
      <4>2. CASE i \in 1 .. Len(value[1])
        BY <1>4, <1>5, <3>1, <4>2 DEF Prefix
      <4>3. CASE i = Len(value[1]) + 1
        BY <1>4, <1>5, <3>1, <4>3 DEF Agrees
      <4> QED  BY <4>1, <4>2, <4>3
    <3>2. CASE r = 2
      BY <1>5, <3>2 DEF Prefix
    <3> QED  BY <3>1, <3>2 DEF Servers
  <2> QED  BY <1>6, <2>1, <2>2, <2>3, <2>4, <2>5 DEF Prefix
<1>13. unfenced'[2] = unfenced[2]
  <2>1. 1 # 2
    BY SMTT(60)
  <2> QED  BY <1>2, <2>1 DEF Flags, Servers
<1>14. Hosting'
  <2>1. ~(holder' = 1)
    BY <1>0, <1>2, SMTT(60)
  <2> QED  BY <1>0, <1>2, <1>6, <1>13, <2>1 DEF Hosting
<1>15. Broadcast'
  <2>1. unfenced'[holder'] = TRUE => unfenced[holder] = TRUE
    BY <1>0, <1>2, <1>13
  <2> QED  BY <1>2, <1>7, <1>9, <1>11, <2>1, BroadcastGrows
<1>16. AckedInLog' /\ Held' /\ Streams'
  BY <1>2, <1>6, <1>7, <1>9, <1>11, ServerStep
<1> QED  BY <1>10, <1>11, <1>12, <1>14, <1>15, <1>16

LEMMA PInstall ==
  ASSUME PInv, NEW s \in Servers, Install(s)
  PROVE  PInv'
BY PInstallOwn, PInstallStale

(* The frame of Prefix, Hosting and Broadcast when a flag is cleared. *)
LEMMA FlagStep ==
  ASSUME PInv, Flags', UNCHANGED <<log, holder, value, chan, acked, conn, pv>>,
         faults' \in 0 .. MaxFaults,
         \A s \in Servers : unfenced'[s] = TRUE => unfenced[s] = TRUE,
         \A s \in Servers : hosted'[s] = TRUE => hosted[s] = TRUE
  PROVE  PInv'
<1> USE DEF PInv
<1>1. Base'
  BY DEF Base
<1>2. Main' = Main
  BY MainFrame
<1>3. Prefix'
  BY <1>2 DEF Prefix
<1>4. holder \in Servers /\ 2 \in Servers
  BY DEF Base, Servers
<1>5. Hosting'
  <2>1. unfenced[2] = FALSE => unfenced'[2] = FALSE
    BY <1>4 DEF Flags
  <2>2. hosted[2] = FALSE => hosted'[2] = FALSE
    BY <1>4 DEF Flags
  <2>3. unfenced'[holder'] = TRUE => unfenced[holder] = TRUE
    BY <1>4
  <2> QED  BY <1>2, <2>1, <2>2, <2>3 DEF Hosting
<1>6. Broadcast'
  <2>1. unfenced'[holder'] = TRUE => unfenced[holder] = TRUE
    BY <1>4
  <2> QED  BY <1>2, <2>1 DEF Broadcast
<1>7. /\ Len(Main) <= Len(Main') /\ \A i \in 1 .. Len(Main) : Main'[i] = Main[i]
      /\ \A s \in Servers : Len(value[s]) <= Len(value'[s])
  <2>1. Len(Main) \in Nat /\ \A s \in Servers : Len(value[s]) \in Nat
    BY MainFacts, LenProperties DEF Base
  <2>2. Len(Main) <= Len(Main) /\ \A s \in Servers : Len(value[s]) <= Len(value[s])
    BY <2>1, SMTT(60)
  <2> QED  BY <1>2, <2>2
<1>8. AckedInLog' /\ Held' /\ Streams'
  BY <1>1, <1>7, ServerStep
<1> QED  BY <1>1, <1>3, <1>5, <1>6, <1>8

LEMMA PFence ==
  ASSUME PInv, NEW s \in Servers, FenceLost(s) \/ FenceError(s) \/ RenewLost(s)
  PROVE  PInv'
<1>1. UNCHANGED <<log, holder, value, chan, acked, conn, pv>>
  BY DEF FenceLost, FenceError, RenewLost
<1>2. faults' \in 0 .. MaxFaults
  BY StreamAssumption, SMTT(60) DEF FenceLost, FenceError, RenewLost, OneFault, PInv, Base
<1>3. /\ hosted' \in {hosted, [hosted EXCEPT ![s] = FALSE]}
      /\ unfenced' \in {unfenced, [unfenced EXCEPT ![s] = FALSE]}
  BY DEF FenceLost, FenceError, RenewLost
<1>4. Flags'
  <2>1. hosted' \in [Servers -> BOOLEAN]
    BY <1>3 DEF PInv, Flags
  <2>2. unfenced' \in [Servers -> BOOLEAN]
    BY <1>3 DEF PInv, Flags
  <2> QED  BY <2>1, <2>2 DEF Flags
<1>5. \A r \in Servers : unfenced'[r] = TRUE => unfenced[r] = TRUE
  BY <1>3 DEF PInv, Flags
<1>6. \A r \in Servers : hosted'[r] = TRUE => hosted[r] = TRUE
  BY <1>3 DEF PInv, Flags
<1> QED  BY <1>1, <1>2, <1>4, <1>5, <1>6, FlagStep

LEMMA PTakeOver ==
  ASSUME PInv, TakeOver
  PROVE  PInv'
<1> USE DEF PInv
<1>1. /\ holder = 1 /\ holder' = 2 /\ hosted' = [hosted EXCEPT ![2] = TRUE]
      /\ value' = [value EXCEPT ![2] = log]
      /\ UNCHANGED <<log, unfenced, chan, acked, conn, pv, faults>>
  BY DEF TakeOver
<1>2. value[2] = <<>> /\ unfenced[2] = FALSE /\ value[1] = log
  BY <1>1 DEF Hosting, Prefix
<1>3. value'[2] = log /\ value'[1] = log
  BY <1>1, <1>2 DEF Base, Servers
<1>4. Main = log /\ Main' = log
  BY <1>1, <1>2, <1>3 DEF Main
<1>5. Flags'
  BY <1>1 DEF Flags
<1>6. Base'
  BY <1>1, StreamAssumption DEF Base, Servers
<1>7. /\ Len(log) \in Nat /\ Len(log) <= Len(log) /\ Len(<<>>) <= Len(log)
      /\ Len(log) <= MaxT /\ \A i \in 1 .. Len(log) : i <= Len(log)
  <2>1. Len(log) \in Nat /\ Len(<<>>) = 0 /\ Len(log) <= MaxT
    BY LenProperties, EmptySeq DEF Base
  <2> QED  BY <2>1, SMTT(60)
<1>8. Prefix'
  <2>1. ASSUME NEW s \in Servers PROVE value'[s] = log
    BY <1>3 DEF Servers
  <2>2. \A i \in 1 .. Len(log) : Agrees(log[i], i, log)
    BY <1>7 DEF Agrees
  <2>3. ~(holder' = 1)
    BY <1>1, SMTT(60)
  <2>4. \A s \in Servers : \A i \in 1 .. Len(value'[s]) : Agrees(value'[s][i], i, Main')
    BY <1>4, <2>1, <2>2
  <2>5. log' = value'[1] /\ log' = value'[2] /\ Len(value'[2]) <= Len(value'[1])
    BY <1>1, <1>3, <1>7
  <2>6. \A s \in Servers : Len(value'[s]) <= MaxT
    BY <1>7, <2>1
  <2> QED  BY <2>3, <2>4, <2>5, <2>6 DEF Prefix
<1>9. unfenced'[holder'] = FALSE
  BY <1>1, <1>2
<1>10. Hosting'
  <2>1. ~(holder' = 1)
    BY <1>1, SMTT(60)
  <2> QED  BY <1>9, <2>1 DEF Hosting
<1>11. ASSUME NEW s \in Servers PROVE Len(value[s]) <= Len(value'[s])
  BY <1>2, <1>3, <1>7 DEF Servers
<1>12. Len(Main) <= Len(Main') /\ \A i \in 1 .. Len(Main) : Main'[i] = Main[i]
  BY <1>4, <1>7
<1>13. Broadcast'
  BY <1>1, <1>6, <1>9, <1>11, <1>12, BroadcastGrows
<1>14. AckedInLog' /\ Held' /\ Streams'
  BY <1>1, <1>6, <1>11, <1>12, ServerStep
<1> QED  BY <1>5, <1>6, <1>8, <1>10, <1>13, <1>14

(***************************************************************************)
(* The holder acknowledges its last record: a stream that has passed it    *)
(* has it on the wire or applied, every other one has it to come.          *)
(***************************************************************************)
LEMMA PFenceOk ==
  ASSUME PInv, NEW s \in Servers, FenceOk(s)
  PROVE  PInv'
<1> USE DEF PInv
<1>1. PICK n : n = Len(Main)
  OBVIOUS
<1>2. /\ s = holder /\ unfenced[holder] = TRUE /\ n = Len(value[s])
      /\ unfenced' = [unfenced EXCEPT ![s] = FALSE]
      /\ chan' = [chan EXCEPT ![s] = Append(chan[s], n)]
      /\ acked' = acked \cup {<<n, s>>}
      /\ UNCHANGED <<log, holder, hosted, value, conn, pv, faults>>
  BY <1>1 DEF FenceOk, Flags, Main
<1>3. Main \in Seq(Records) /\ Main # <<>> /\ Main[n] = s /\ Main' = Main
  BY <1>1, <1>2, MainFacts, MainFrame DEF Hosting
<1>4. n \in Ts /\ n \in Nat /\ n <= n
  <2>1. n \in Nat \ {0}
    BY <1>1, <1>3, EmptySeq
  <2>2. n <= MaxT
    BY <1>2 DEF Prefix
  <2> QED  BY <2>1, <2>2, StreamAssumption, SMTT(60) DEF Ts
<1>5. ASSUME NEW r \in Servers
      PROVE  chan[r] \in Seq(Ts) /\ Len(chan[r]) \in Nat /\ Len(value[r]) \in Nat
             /\ \A i \in 1 .. Len(chan[r]) : chan[r][i] \in Ts
  <2>1. chan[r] \in Seq(Ts) /\ value[r] \in Seq(Records)
    BY DEF Base
  <2> QED  BY <2>1, LenProperties, ElementOfSeq
<1>6. /\ chan'[s] \in Seq(Ts) /\ Len(chan'[s]) = Len(chan[s]) + 1
      /\ \A i \in 1 .. Len(chan[s]) : chan'[s][i] = chan[s][i]
      /\ chan'[s][Len(chan[s]) + 1] = n
      /\ \A r \in Servers : r # s => chan'[r] = chan[r]
  <2>1. chan'[s] = Append(chan[s], n) /\ \A r \in Servers : r # s => chan'[r] = chan[r]
    BY <1>2 DEF Base
  <2> QED  BY <1>4, <1>5, <2>1, AppendProperties, SMTT(60)
<1>7. Flags'
  BY <1>2 DEF Flags
<1>8. unfenced'[s] = FALSE /\ \A r \in Servers : r # s => unfenced'[r] = unfenced[r]
  BY <1>2 DEF Flags
<1>9. unfenced'[holder'] = FALSE
  BY <1>2, <1>8
<1>10. Base'
  <2>1. chan' \in [Servers -> Seq(Ts)]
    BY <1>2, <1>4, <1>5, <1>6 DEF Base
  <2>2. acked' \subseteq Ts \X Servers
    <3>1. <<n, s>> \in Ts \X Servers
      BY <1>4
    <3>2. acked \subseteq Ts \X Servers
      BY DEF Base
    <3> QED  BY <1>2, <3>1, <3>2
  <2> QED  BY <1>2, <2>1, <2>2 DEF Base
<1>11. Prefix'
  BY <1>2, <1>3 DEF Prefix
<1>12. Hosting'
  <2>1. holder = 1 => unfenced'[2] = FALSE
    <3>1. holder = 1 => s # 2
      BY <1>2, SMTT(60)
    <3> QED  BY <1>8, <3>1 DEF Hosting, Servers
  <2> QED  BY <1>2, <1>9, <2>1 DEF Hosting
<1>13. \A r \in Servers : \A i \in 1 .. Len(chan[r]) : chan[r][i] < n
  BY <1>1, <1>2 DEF Broadcast
<1>14. Broadcast'
  <2>1. ASSUME NEW r \in Servers, NEW i \in 1 .. Len(chan'[r])
        PROVE  chan'[r][i] <= Len(value[r]) /\ chan'[r][i] <= Len(Main)
    <3>1. CASE r = s
      <4>1. i \in 1 .. Len(chan[s]) \/ i = Len(chan[s]) + 1
        BY <1>5, <1>6, <3>1, SMTT(60)
      <4>2. CASE i \in 1 .. Len(chan[s])
        BY <1>6, <3>1, <4>2 DEF Broadcast
      <4>3. CASE i = Len(chan[s]) + 1
        BY <1>1, <1>2, <1>4, <1>6, <3>1, <4>3
      <4> QED  BY <4>1, <4>2, <4>3
    <3>2. CASE r # s
      BY <1>6, <3>2 DEF Broadcast
    <3> QED  BY <3>1, <3>2
  <2>2. ASSUME NEW r \in Servers, NEW i \in 1 .. Len(chan'[r]), NEW j \in 1 .. Len(chan'[r]), i < j
        PROVE  chan'[r][i] < chan'[r][j]
    <3>1. CASE r = s
      <4>1. i \in 1 .. Len(chan[s]) /\ (j \in 1 .. Len(chan[s]) \/ j = Len(chan[s]) + 1)
        BY <1>5, <1>6, <2>2, <3>1, SMTT(60)
      <4> QED  BY <1>6, <1>13, <2>2, <3>1, <4>1 DEF Broadcast
    <3>2. CASE r # s
      BY <1>6, <2>2, <3>2 DEF Broadcast
    <3> QED  BY <3>1, <3>2
  <2> QED  BY <1>2, <1>3, <1>9, <2>1, <2>2 DEF Broadcast
<1>15. \A r \in Servers : AcksBy(r)' = IF r = s THEN AcksBy(s) \cup {n} ELSE AcksBy(r)
  <2>1. ASSUME NEW r \in Servers, NEW t \in Ts
        PROVE  <<t, r>> \in acked' <=> <<t, r>> \in acked \/ (r = s /\ t = n)
    BY <1>2
  <2> QED  BY <1>4, <2>1 DEF AcksBy
<1>16. AckedInLog'
  <2>1. ASSUME NEW a \in acked'
        PROVE  a[1] <= Len(Main) /\ Main[a[1]] = a[2] /\ a[1] <= Len(value[a[2]])
    <3>1. CASE a \in acked
      BY <3>1 DEF AckedInLog
    <3>2. CASE a = <<n, s>>
      <4>1. a[1] = n /\ a[2] = s
        BY <3>2
      <4> QED  BY <1>1, <1>2, <1>3, <1>4, <4>1
    <3> QED  BY <1>2, <3>1, <3>2
  <2>2. ASSUME NEW t \in AcksBy(2)', NEW i \in 1 .. Len(chan'[1])
        PROVE  chan'[1][i] < t
    <3>0. 1 \in Servers /\ 2 \in Servers /\ 1 # 2
      BY SMTT(60) DEF Servers
    <3>1. CASE s = 1
      <4>1. AcksBy(2)' = AcksBy(2) /\ value[2] = <<>>
        BY <1>2, <1>15, <3>0, <3>1 DEF Hosting
      <4>2. <<t, 2>> \in acked /\ t \in Ts
        BY <2>2, <4>1 DEF AcksBy
      <4>3. t <= Len(value[2])
        BY <4>2 DEF AckedInLog
      <4>4. t <= 0
        BY <4>1, <4>3, EmptySeq
      <4> QED  BY <4>2, <4>4, StreamAssumption, SMTT(60) DEF Ts
    <3>2. CASE s = 2
      <4>1. chan'[1] = chan[1] /\ AcksBy(2)' = AcksBy(2) \cup {n}
        BY <1>6, <1>15, <3>0, <3>2
      <4>2. CASE t \in AcksBy(2)
        BY <2>2, <4>1, <4>2 DEF AckedInLog
      <4>3. CASE t = n
        BY <1>13, <2>2, <3>0, <4>1, <4>3
      <4> QED  BY <2>2, <4>1, <4>2, <4>3
    <3> QED  BY <3>1, <3>2 DEF Servers
  <2> QED  BY <1>2, <1>3, <2>1, <2>2 DEF AckedInLog
<1>17. Must' = Must /\ \A p \in Peers : Basis(p)' = Basis(p)
  <2>1. Acks' = Acks \cup {n}
    <3>1. <<n, s>>[1] = n /\ <<n, s>> \in acked' /\ acked \subseteq acked'
      BY <1>2
    <3>2. ASSUME NEW a \in acked' PROVE a \in acked \/ a[1] = n
      BY <1>2, <3>1
    <3> QED  BY <3>1, <3>2 DEF Acks
  <2>2. n \in {t \in Ts : Len(Main) <= t}
    BY <1>1, <1>4
  <2>3. Must' = Must
    BY <1>3, <2>1, <2>2 DEF Must
  <2> QED  BY <1>2, <2>3, BasisFrame
<1>18. Held'
  BY <1>2, <1>3, <1>17 DEF Held
<1>19. ASSUME NEW p \in Peers, NEW c \in Conns, Linked(p, c)
       PROVE  Linked(p, c)'
  <2>1. c.srv \in Servers /\ (c.srv = 2 => holder = 2)
        /\ c.cursor \in 1 .. Len(chan[c.srv]) + 1
    BY <1>19 DEF Linked
  <2>2. c.cursor \in 1 .. Len(chan'[c.srv]) + 1
    BY <1>5, <1>6, <2>1, SMTT(60)
  <2>3. Sent(Basis(p)', c.last, c.wire, Main', Must')
    BY <1>3, <1>17, <1>19 DEF Linked
  <2>4. PICK ch, cur : ch = chan[c.srv] /\ cur = c.cursor
    OBVIOUS
  <2>5. ASSUME Due(c.last, c.basis, ch, cur, AcksBy(c.srv))
        PROVE  Due(c.last, c.basis, chan'[c.srv], cur, AcksBy(c.srv)')
    <3>1. CASE c.srv = s
      <4>1. chan'[c.srv] = Append(ch, n) /\ ch \in Seq(Ts) /\ cur \in 1 .. Len(ch) + 1
        BY <1>2, <1>5, <2>1, <2>4, <3>1 DEF Base
      <4>2. AcksBy(c.srv)' = AcksBy(c.srv) \cup {n}
        BY <1>15, <3>1
      <4>3. Due(c.last, c.basis, Append(ch, n), cur, AcksBy(c.srv) \cup {n})
        BY <1>4, <2>5, <4>1, DueAcked
      <4> QED  BY <4>1, <4>2, <4>3
    <3>2. CASE c.srv # s
      <4>1. chan'[c.srv] = ch /\ AcksBy(c.srv)' = AcksBy(c.srv)
        BY <1>6, <1>15, <2>1, <2>4, <3>2
      <4> QED  BY <2>5, <4>1
    <3> QED  BY <3>1, <3>2
  <2>6. c.phase \in {"backfill", "live"} =>
          Due(c.last, c.basis, chan'[c.srv], c.cursor, AcksBy(c.srv)')
    <3>1. c.phase \in {"backfill", "live"} => Due(c.last, c.basis, ch, cur, AcksBy(c.srv))
      BY <1>19, <2>4 DEF Linked
    <3> QED  BY <2>4, <2>5, <3>1
  <2>7. holder = 2 => AcksBy(1)' = AcksBy(1) /\ chan'[1] = chan[1]
    <3>1. 1 \in Servers /\ (holder = 2 => s # 1)
      BY <1>2, SMTT(60) DEF Servers
    <3> QED  BY <1>6, <1>15, <3>1
  <2>8. c.phase \in {"backfill", "live"} /\ c.srv = 2 => \A t \in AcksBy(1)' : t <= c.basis
    BY <1>19, <2>1, <2>7 DEF Linked
  <2>9. c.phase = "live" =>
          \/ c.basis <= c.last
          \/ c.srv = 1 /\ holder' = 2 /\ \A i \in 1 .. Len(chan'[1]) : chan'[1][i] <= c.last
    BY <1>2, <1>19, <2>7 DEF Linked
  <2>10. /\ c.phase # "off" /\ (c.srv = 2 => holder' = 2)
         /\ c.phase \in {"registered", "backfill"} => c.wire = <<>>
         /\ c.phase \in {"backfill", "live"} => c.basis <= Len(value'[c.srv])
    BY <1>2, <1>19 DEF Linked
  <2> QED  BY <2>1, <2>2, <2>3, <2>6, <2>8, <2>9, <2>10 DEF Linked
<1>20. Streams'
  <2>1. ASSUME NEW p \in Peers PROVE conn'[p] = Off \/ Linked(p, conn[p])'
    <3>1. PICK c : c = conn[p]
      OBVIOUS
    <3>2. c \in Conns /\ (c = Off \/ Linked(p, c))
      BY <3>1 DEF Streams
    <3>3. Linked(p, c) => Linked(p, c)'
      BY <1>19, <3>2
    <3>4. conn'[p] = c
      BY <1>2, <3>1
    <3> QED  BY <3>2, <3>3, <3>4
  <2> QED  BY <1>2, <2>1 DEF Streams
<1> QED  BY <1>7, <1>10, <1>11, <1>12, <1>14, <1>16, <1>18, <1>20

(* A subscription depends on values, reports and acknowledgements only. *)
LEMMA LinkSame ==
  ASSUME UNCHANGED <<holder, value, chan, acked>>, NEW p \in Peers, pv'[p] = pv[p],
         NEW c, Linked(p, c)
  PROVE  Linked(p, c)'
<1>1. Main' = Main /\ Must' = Must /\ Basis(p)' = Basis(p)
  BY MainFrame, MustFrame, BasisFrame
<1>2. c.srv \in Servers /\ 1 \in Servers
  BY DEF Linked, Servers
<1>3. AcksBy(c.srv)' = AcksBy(c.srv) /\ AcksBy(1)' = AcksBy(1)
  BY <1>2, AcksFrame
<1> QED  BY <1>1, <1>3 DEF Linked

LEMMA PCrash ==
  ASSUME PInv, Crash
  PROVE  PInv'
<1> USE DEF PInv
<1>1. /\ hosted' = [hosted EXCEPT ![1] = FALSE]
      /\ unfenced' = [unfenced EXCEPT ![1] = FALSE]
      /\ UNCHANGED <<log, holder, value, chan, acked, pv>>
      /\ faults < MaxFaults /\ faults' = faults + 1
  BY DEF Crash, OneFault
<1>2. Flags'
  BY <1>1 DEF Flags
<1>3. Base'
  BY <1>1, StreamAssumption, SMTT(60) DEF Base
<1>4. Main' = Main /\ Must' = Must /\ holder \in Servers
      /\ \A s \in Servers : AcksBy(s)' = AcksBy(s)
  BY <1>1, MainFrame, MustFrame, AcksFrame DEF Base
<1>5. Prefix'
  BY <1>1, <1>4 DEF Prefix
<1>6. AckedInLog'
  <2>1. AcksBy(2)' = AcksBy(2)
    BY <1>4 DEF Servers
  <2> QED  BY <1>1, <1>4, <2>1 DEF AckedInLog
<1>7. unfenced'[2] = unfenced[2] /\ hosted'[2] = hosted[2] /\ unfenced'[1] = FALSE
  BY <1>1, SMTT(60) DEF Flags, Servers
<1>8. \A s \in Servers : unfenced'[s] = TRUE => unfenced[s] = TRUE
  <2>1. \A s \in Servers : s = 1 \/ s = 2
    BY DEF Servers
  <2> QED  BY <1>7, <2>1
<1>9. Hosting'
  BY <1>1, <1>4, <1>7, <1>8 DEF Hosting
<1>10. Broadcast'
  BY <1>1, <1>4, <1>8 DEF Broadcast
<1>11. \A p \in Peers : Basis(p)' = Basis(p)
  BY <1>1, BasisFrame
<1>12. Held'
  BY <1>1, <1>4, <1>11 DEF Held
<1>13. ASSUME NEW p \in Peers, NEW d, d = conn'[p]
       PROVE  d \in Conns /\ (d = Off \/ Linked(p, d)')
  <2>1. PICK c : c = conn[p]
    OBVIOUS
  <2>2. c \in Conns /\ (c = Off \/ Linked(p, c))
    BY <2>1 DEF Streams
  <2>3. d = c \/ d = Off \/ (c.srv = 1 /\ d = [c EXCEPT !.phase = "ended"])
    BY <1>13, <2>1 DEF Crash
  <2>4. Linked(p, c) => Linked(p, c)'
    BY <1>1, LinkSame
  <2>5. CASE c.srv = 1 /\ d = [c EXCEPT !.phase = "ended"]
    <3>1. /\ d \in Conns /\ d.phase = "ended" /\ d.srv = c.srv /\ d.cursor = c.cursor
          /\ d.basis = c.basis /\ d.last = c.last /\ d.wire = c.wire
      BY <2>2, <2>5, PhaseUpdate
    <3>2. c # Off
      BY <2>5, SMTT(60) DEF Off
    <3>3. Linked(p, c)'
      BY <2>2, <2>4, <3>2
    <3> QED  BY <3>1, <3>3 DEF Linked
  <2> QED  BY <2>2, <2>3, <2>4, <2>5, OffConn
<1>14. Streams'
  <2>1. conn' = [p \in Peers |-> conn'[p]]
    BY DEF Crash
  <2>2. \A p \in Peers : conn'[p] \in Conns
    BY <1>13
  <2>3. conn' \in [Peers -> Conns]
    BY <2>1, <2>2
  <2>4. ASSUME NEW p \in Peers PROVE (conn[p] = Off \/ Linked(p, conn[p]))'
    <3>1. PICK d : d = conn'[p]
      OBVIOUS
    <3>2. d = Off \/ Linked(p, d)'
      BY <1>13, <3>1
    <3> QED  BY <3>1, <3>2
  <2> QED  BY <2>3, <2>4 DEF Streams
<1> QED  BY <1>2, <1>3, <1>5, <1>6, <1>9, <1>10, <1>12, <1>14

-----------------------------------------------------------------------------
(* Steps of the streams and of the peers. *)

LEMMA ServersSame ==
  ASSUME PInv, UNCHANGED <<log, holder, hosted, value, unfenced, chan, acked>>
  PROVE  Prefix' /\ Hosting' /\ Broadcast' /\ AckedInLog'
<1>1. Main' = Main
  BY MainFrame
<1>2. Prefix'
  BY <1>1 DEF PInv, Prefix
<1>3. Hosting'
  BY <1>1 DEF PInv, Hosting
<1>4. Broadcast'
  BY <1>1 DEF PInv, Broadcast
<1>5. AckedInLog'
  <2>1. AcksBy(2)' = AcksBy(2)
    BY AcksFrame DEF Servers
  <2> QED  BY <1>1, <2>1 DEF PInv, AckedInLog
<1> QED  BY <1>2, <1>3, <1>4, <1>5

LEMMA ConnStep ==
  ASSUME PInv, NEW p \in Peers, NEW c \in Conns,
         UNCHANGED <<server, pv>>, conn' = [conn EXCEPT ![p] = c],
         faults' \in 0 .. MaxFaults, c = Off \/ Linked(p, c)
  PROVE  PInv'
<1> USE DEF PInv
<1>1. UNCHANGED <<log, holder, hosted, value, unfenced, chan, acked, pv>>
  BY DEF server
<1>2. Flags'
  BY <1>1 DEF Flags
<1>3. Base' /\ Prefix' /\ Hosting' /\ Broadcast' /\ AckedInLog'
  BY <1>1, ServersSame DEF Base
<1>4. Main' = Main /\ Must' = Must /\ \A q \in Peers : Basis(q)' = Basis(q)
  BY <1>1, MainFrame, MustFrame, BasisFrame
<1>5. Held'
  BY <1>1, <1>4 DEF Held
<1>6. ASSUME NEW q \in Peers, NEW d, Linked(q, d) PROVE Linked(q, d)'
  BY <1>1, <1>6, LinkSame
<1>7. Streams'
  <2>1. conn' \in [Peers -> Conns]
    BY DEF Streams
  <2>2. ASSUME NEW q \in Peers PROVE (conn[q] = Off \/ Linked(q, conn[q]))'
    <3>1. PICK d : d = conn'[q]
      OBVIOUS
    <3>2. d = Off \/ Linked(q, d)
      BY <3>1 DEF Streams
    <3>3. d = Off \/ Linked(q, d)'
      BY <1>6, <3>2
    <3> QED  BY <3>1, <3>3
  <2> QED  BY <2>1, <2>2 DEF Streams
<1> QED  BY <1>2, <1>3, <1>5, <1>7

LEMMA PSubscribe ==
  ASSUME PInv, NEW p \in Peers, NEW s \in Servers, Subscribe(p, s)
  PROVE  PInv'
<1> USE DEF PInv
<1>1. PICK c : c = [Off EXCEPT !.srv = s, !.phase = "registered",
                               !.cursor = Len(chan[s]) + 1, !.last = Basis(p)]
  OBVIOUS
<1>2. /\ hosted[s] /\ UNCHANGED <<server, pv, faults>>
      /\ conn' = [conn EXCEPT ![p] = c]
  BY <1>1 DEF Subscribe
<1>3. Basis(p) \in 0 .. MaxT /\ Len(chan[s]) \in Nat
  BY PeerFacts, LenProperties DEF Base
<1>4. /\ c.srv = s /\ c.phase = "registered" /\ c.cursor = Len(chan[s]) + 1
      /\ c.last = Basis(p) /\ c.wire = <<>> /\ c.basis = 0
  BY <1>1 DEF Off
<1>5. c \in Conns
  <2>1. c = [srv |-> s, phase |-> "registered", cursor |-> Len(chan[s]) + 1, basis |-> 0,
             last |-> Basis(p), greeted |-> FALSE, wire |-> <<>>]
    BY <1>1 DEF Off
  <2>2. <<>> \in Seq([t : Ts, rec : Records]) /\ Len(chan[s]) + 1 \in Nat /\ 0 \in 0 .. MaxT
    BY <1>3, EmptySeq, StreamAssumption, SMTT(60)
  <2> QED  BY <1>3, <2>1, <2>2 DEF Conns
<1>6. s = 2 => holder = 2
  <2>1. s = 2 => hosted[2]
    BY <1>2
  <2>2. holder = 1 \/ holder = 2
    BY DEF Base, Servers
  <2>3. holder = 1 => hosted[2] = FALSE
    BY DEF Hosting
  <2> QED  BY <2>1, <2>2, <2>3
<1>7. Sent(Basis(p), c.last, c.wire, Main, Must)
  BY <1>4, PeerFacts, SentNothing
<1>8. Linked(p, c)
  <2>1. c.cursor \in 1 .. Len(chan[s]) + 1
    BY <1>3, <1>4, SMTT(60)
  <2>2. c.phase # "off" /\ ~(c.phase \in {"backfill", "live"}) /\ ~(c.phase = "live")
    BY <1>4, SMTT(60)
  <2> QED  BY <1>4, <1>6, <1>7, <2>1, <2>2 DEF Linked
<1>9. faults' \in 0 .. MaxFaults
  BY <1>2 DEF Base
<1> QED  BY <1>2, <1>5, <1>8, <1>9, ConnStep

(* The connections of a step that needs one. *)
LEMMA Connected ==
  ASSUME PInv, NEW p \in Peers, conn[p] # Off
  PROVE  conn[p] \in Conns /\ Linked(p, conn[p])
BY DEF PInv, Streams

LEMMA PDrop ==
  ASSUME PInv, NEW p \in Peers, UNCHANGED <<server, pv>>, faults' \in 0 .. MaxFaults,
         conn' = [conn EXCEPT ![p] = Off]
  PROVE  PInv'
BY OffConn, ConnStep

LEMMA PEnd ==
  ASSUME PInv, NEW p \in Peers, UNCHANGED <<server, pv>>, faults' \in 0 .. MaxFaults,
         conn[p] # Off, conn' = [conn EXCEPT ![p] = [conn[p] EXCEPT !.phase = "ended"]]
  PROVE  PInv'
<1>1. PICK c : c = conn[p]
  OBVIOUS
<1>2. c \in Conns /\ Linked(p, c)
  BY <1>1, Connected
<1>3. PICK d : d = [c EXCEPT !.phase = "ended"]
  OBVIOUS
<1>4. /\ d \in Conns /\ d.phase = "ended" /\ d.srv = c.srv /\ d.cursor = c.cursor
      /\ d.basis = c.basis /\ d.last = c.last /\ d.wire = c.wire
  BY <1>2, <1>3, PhaseUpdate
<1>5. Linked(p, d)
  BY <1>2, <1>4 DEF Linked
<1>6. conn' = [conn EXCEPT ![p] = d]
  BY <1>1, <1>3
<1> QED  BY <1>4, <1>5, <1>6, ConnStep

LEMMA PSnapshot ==
  ASSUME PInv, NEW p \in Peers, Snapshot(p)
  PROVE  PInv'
<1> USE DEF PInv
<1>1. PICK c : c = conn[p]
  OBVIOUS
<1>2. c.phase = "registered" /\ c # Off
  BY <1>1, SMTT(60) DEF Snapshot, Off
<1>3. c \in Conns /\ Linked(p, c)
  BY <1>1, <1>2, Connected
<1>4. PICK n : n = Len(value[c.srv])
  OBVIOUS
<1>5. n \in 0 .. MaxT
  <2>1. c.srv \in Servers /\ value[c.srv] \in Seq(Records)
    BY <1>3 DEF Linked, Base
  <2>2. n \in Nat /\ n <= MaxT
    BY <1>4, <2>1, LenProperties DEF Prefix
  <2> QED  BY <2>2, StreamAssumption, SMTT(60)
<1>6. PICK d : d = [c EXCEPT !.phase = "backfill", !.basis = n]
  OBVIOUS
<1>7. /\ d \in Conns /\ d.phase = "backfill" /\ d.srv = c.srv /\ d.cursor = c.cursor
      /\ d.basis = n /\ d.last = c.last /\ d.wire = c.wire
  BY <1>3, <1>5, <1>6 DEF Conns
<1>8. c.srv \in Servers /\ n \in Nat /\ (c.srv = 2 => holder = 2)
  BY <1>3, <1>5, SMTT(60) DEF Linked
<1>9. \A t \in AcksBy(c.srv) : t <= n
  BY <1>4 DEF AcksBy, AckedInLog
<1>10. Due(d.last, d.basis, chan[d.srv], d.cursor, AcksBy(d.srv))
  <2>1. \A t \in AcksBy(c.srv) : ~(n < t)
    <3>1. AcksBy(c.srv) \subseteq Nat
      BY AcksByTyped
    <3> QED  BY <1>8, <1>9, <3>1, SMTT(60)
  <2> QED  BY <1>7, <2>1 DEF Due
<1>11. d.srv = 2 => \A t \in AcksBy(1) : t <= d.basis
  <2>1. \A t \in AcksBy(1) : t <= Len(Main)
    BY DEF AcksBy, AckedInLog
  <2>2. c.srv = 2 => Len(Main) = n
    BY <1>4, <1>8 DEF Main
  <2> QED  BY <1>7, <2>1, <2>2
<1>12. Linked(p, d)
  <2>1. d.basis <= Len(value[d.srv])
    BY <1>4, <1>7, <1>8, SMTT(60)
  <2>2. ~(d.phase = "live") /\ d.phase # "off"
    BY <1>7, SMTT(60)
  <2>3. Sent(Basis(p), d.last, d.wire, Main, Must) /\ d.wire = <<>>
        /\ d.cursor \in 1 .. Len(chan[d.srv]) + 1
    BY <1>2, <1>3, <1>7 DEF Linked
  <2> QED  BY <1>7, <1>8, <1>10, <1>11, <2>1, <2>2, <2>3 DEF Linked
<1>13. conn' = [conn EXCEPT ![p] = d] /\ UNCHANGED <<server, pv, faults>>
  BY <1>1, <1>4, <1>6 DEF Snapshot
<1>14. faults' \in 0 .. MaxFaults
  BY <1>13 DEF Base
<1> QED  BY <1>7, <1>12, <1>13, <1>14, ConnStep

(* What the backfill covers, and the t it ends with. *)
LEMMA RangeIs ==
  ASSUME NEW c, c.last \in Nat, c.basis \in Nat, Len(log) \in Nat, NEW k,
         k = IF c.basis <= Len(log) THEN c.basis ELSE Len(log)
  PROVE  Max({c.last} \cup BackfillRange(c)) = IF c.last < k THEN k ELSE c.last
<1>1. PICK u : u = IF c.last < k THEN k ELSE c.last
  OBVIOUS
<1>2. Min({c.basis, Len(log)}) = k
  BY SMTT(60) DEF Min
<1>3. BackfillRange(c) = (c.last + 1) .. k
  BY <1>2 DEF BackfillRange
<1>4. PICK S : S = {c.last} \cup BackfillRange(c)
  OBVIOUS
<1>5. u \in S /\ \A y \in S : y \in Nat /\ u >= y
  BY <1>1, <1>3, <1>4, SMTT(60)
<1>6. \A x \in S : (\A y \in S : x >= y) => x = u
  BY <1>5, SMTT(60)
<1>7. Max(S) = u
  BY <1>5, <1>6 DEF Max
<1> QED  BY <1>1, <1>4, <1>7

LEMMA PBackfill ==
  ASSUME PInv, NEW p \in Peers, Backfill(p)
  PROVE  PInv'
<1> USE DEF PInv
<1>1. PICK c : c = conn[p]
  OBVIOUS
<1>2. c.phase = "backfill" /\ c # Off
  BY <1>1, SMTT(60) DEF Backfill, Off
<1>3. c \in Conns /\ Linked(p, c)
  BY <1>1, <1>2, Connected
<1>4. /\ c.last \in Nat /\ c.last \in 0 .. MaxT /\ c.basis \in Nat
      /\ log \in Seq(Records) /\ Len(log) \in Nat /\ Len(log) <= MaxT
      /\ c.srv \in Servers /\ Len(Main) \in Nat /\ Len(Main) <= Len(log)
  BY <1>3, ConnFacts, LogFacts, MainFacts DEF Linked
<1>5. PICK k, u : /\ k = IF c.basis <= Len(log) THEN c.basis ELSE Len(log)
                  /\ u = IF c.last < k THEN k ELSE c.last
  OBVIOUS
<1>6. Max({c.last} \cup BackfillRange(c)) = u
  BY <1>4, <1>5, RangeIs
<1>7. PICK n : n = u - c.last
  OBVIOUS
<1>8. /\ u \in 0 .. MaxT /\ u \in Nat /\ n \in Nat /\ u = c.last + n /\ c.last <= u
      /\ n # 0 => u <= Len(log)
      /\ c.basis <= u \/ (Len(log) < c.basis /\ Len(log) <= u)
  BY <1>4, <1>5, <1>7, StreamAssumption, SMTT(60)
<1>9. PICK w : w = [i \in 1 .. n |-> [t |-> c.last + i, rec |-> log[c.last + i]]]
  OBVIOUS
<1>10. ASSUME NEW i \in 1 .. n PROVE c.last + i \in 1 .. Len(log) /\ c.last + i \in Ts
  BY <1>4, <1>8, StreamAssumption, SMTT(60) DEF Ts
<1>11. w \in Seq([t : Ts, rec : Records]) /\ Len(w) = n
  <2>1. ASSUME NEW i \in 1 .. n PROVE w[i] \in [t : Ts, rec : Records]
    <3>1. log[c.last + i] \in Records
      BY <1>4, <1>10, ElementOfSeq
    <3> QED  BY <1>9, <1>10, <3>1
  <2>2. w \in [1 .. n -> [t : Ts, rec : Records]]
    BY <1>9, <2>1
  <2> QED  BY <1>8, <2>2, FunctionIsSeq
<1>12. ASSUME NEW i \in 1 .. n
       PROVE  w[i].t = c.last + i /\ Agrees(w[i].rec, c.last + i, Main)
  <2>1. w[i].t = c.last + i /\ w[i].rec = log[c.last + i]
    BY <1>9
  <2>2. Agrees(log[c.last + i], c.last + i, Main)
    BY <1>10, LogFacts
  <2> QED  BY <2>1, <2>2
<1>13. PICK d : d = [c EXCEPT !.phase = "live", !.last = u, !.wire = w]
  OBVIOUS
<1>14. /\ d \in Conns /\ d.phase = "live" /\ d.srv = c.srv /\ d.cursor = c.cursor
       /\ d.basis = c.basis /\ d.last = u /\ d.wire = w
  BY <1>3, <1>8, <1>11, <1>13 DEF Conns
<1>15. Basis(p) = c.last
  <2>1. c.wire = <<>> /\ Sent(Basis(p), c.last, c.wire, Main, Must)
    BY <1>2, <1>3 DEF Linked
  <2>2. ~(Basis(p) < c.last) /\ Basis(p) <= c.last
    BY <2>1, EmptySeq, SMTT(60) DEF Sent
  <2> QED  BY <1>4, <2>2, PeerFacts, SMTT(60)
<1>16. Sent(Basis(p), d.last, d.wire, Main, Must)
  <2>1. Must \subseteq Nat
    BY PeerFacts
  <2>2. Sent(c.last, c.last + n, w, Main, Must)
    BY <1>4, <1>8, <1>11, <1>12, <2>1, SentRange
  <2> QED  BY <1>8, <1>14, <1>15, <2>2
<1>17. Due(d.last, d.basis, chan[d.srv], d.cursor, AcksBy(d.srv))
  <2>1. Due(c.last, c.basis, chan[c.srv], c.cursor, AcksBy(c.srv))
    BY <1>2, <1>3 DEF Linked
  <2>2. AcksBy(c.srv) \subseteq Nat
    BY AcksByTyped
  <2>3. \A t \in AcksBy(c.srv) : u < t => c.last < t
    BY <1>4, <1>8, <2>2, SMTT(60)
  <2> QED  BY <1>14, <2>1, <2>3 DEF Due
<1>18. c.basis <= Len(value[c.srv]) /\ (c.srv = 2 => holder = 2)
       /\ c.cursor \in 1 .. Len(chan[c.srv]) + 1
       /\ (c.srv = 2 => \A t \in AcksBy(1) : t <= c.basis)
  BY <1>2, <1>3 DEF Linked
<1>19. \/ c.basis <= u
       \/ c.srv = 1 /\ holder = 2 /\ \A i \in 1 .. Len(chan[1]) : chan[1][i] <= u
  <2>1. CASE c.basis <= u
    BY <2>1
  <2>2. CASE Len(log) < c.basis /\ Len(log) <= u
    <3>1. c.srv # holder
      <4>1. ~(c.basis <= Len(Main))
        BY <1>4, <2>2, SMTT(60)
      <4> QED  BY <1>18, <4>1 DEF Main
    <3>2. c.srv = 1 /\ holder = 2
      <4>1. (c.srv = 1 \/ c.srv = 2) /\ (holder = 1 \/ holder = 2)
        BY <1>4 DEF Base, Servers
      <4>2. CASE c.srv = 2
        BY <1>18, <3>1, <4>2
      <4>3. CASE c.srv = 1
        BY <3>1, <4>1, <4>3
      <4> QED  BY <4>1, <4>2, <4>3
    <3>3. ASSUME NEW i \in 1 .. Len(chan[1]) PROVE chan[1][i] <= u
      <4>1. chan[1] \in Seq(Ts) /\ chan[1][i] <= Len(Main)
        BY DEF Base, Broadcast, Servers
      <4>2. chan[1][i] \in Ts
        BY <4>1, ElementOfSeq
      <4> QED  BY <1>4, <1>8, <2>2, <4>1, <4>2, StreamAssumption, SMTT(60) DEF Ts
    <3> QED  BY <3>2, <3>3
  <2> QED  BY <1>8, <2>1, <2>2
<1>20. Linked(p, d)
  <2>1. d.phase # "off" /\ ~(d.phase \in {"registered", "backfill"})
    BY <1>14, SMTT(60)
  <2> QED  BY <1>4, <1>14, <1>16, <1>17, <1>18, <1>19, <2>1 DEF Linked
<1>21. conn' = [conn EXCEPT ![p] = d] /\ UNCHANGED <<server, pv, faults>>
  BY <1>1, <1>6, <1>7, <1>9, <1>13 DEF Backfill
<1>22. faults' \in 0 .. MaxFaults
  BY <1>21 DEF Base
<1> QED  BY <1>14, <1>20, <1>21, <1>22, ConnStep

LEMMA PLive ==
  ASSUME PInv, NEW p \in Peers, Live(p)
  PROVE  PInv'
<1> USE DEF PInv
<1>1. PICK c : c = conn[p]
  OBVIOUS
<1>2. c.phase = "live" /\ c # Off
  BY <1>1, SMTT(60) DEF Live, Off
<1>3. c \in Conns /\ Linked(p, c)
  BY <1>1, <1>2, Connected
<1>4. PICK u : u = chan[c.srv][c.cursor]
  OBVIOUS
<1>5. /\ c.srv \in Servers /\ chan[c.srv] \in Seq(Ts) /\ Len(chan[c.srv]) \in Nat
      /\ c.cursor \in 1 .. Len(chan[c.srv]) /\ u \in Ts
      /\ value[c.srv] \in Seq(Records) /\ Len(value[c.srv]) \in Nat
  <2>1. c.srv \in Servers
    BY <1>3 DEF Linked
  <2>2. chan[c.srv] \in Seq(Ts) /\ value[c.srv] \in Seq(Records)
    BY <2>1 DEF Base
  <2>3. DOMAIN chan[c.srv] = 1 .. Len(chan[c.srv]) /\ Len(chan[c.srv]) \in Nat
        /\ Len(value[c.srv]) \in Nat
    BY <2>2, LenProperties
  <2>4. c.cursor \in 1 .. Len(chan[c.srv])
    BY <1>1, <2>3 DEF Live
  <2> QED  BY <1>4, <2>1, <2>2, <2>3, <2>4, ElementOfSeq
<1>6. u <= Len(Main) /\ Agrees(value[c.srv][u], u, Main) /\ value[c.srv][u] \in Records
  <2>1. u <= Len(value[c.srv]) /\ u <= Len(Main)
    BY <1>4, <1>5 DEF Broadcast
  <2>2. u \in 1 .. Len(value[c.srv])
    BY <1>5, <2>1, StreamAssumption, SMTT(60) DEF Ts
  <2>3. Agrees(value[c.srv][u], u, Main)
    BY <1>5, <2>2 DEF Prefix
  <2>4. value[c.srv][u] \in Records
    BY <1>5, <2>2, ElementOfSeq
  <2> QED  BY <2>1, <2>3, <2>4
<1>7. PICK ch : ch = chan[c.srv]
  OBVIOUS
<1>8. /\ Sent(Basis(p), c.last, c.wire, Main, Must)
      /\ Due(c.last, c.basis, ch, c.cursor, AcksBy(c.srv))
      /\ c.basis <= Len(value[c.srv]) /\ (c.srv = 2 => holder = 2)
      /\ (c.srv = 2 => \A t \in AcksBy(1) : t <= c.basis)
      /\ \/ c.basis <= c.last
         \/ c.srv = 1 /\ holder = 2 /\ \A i \in 1 .. Len(chan[1]) : chan[1][i] <= c.last
  BY <1>2, <1>3, <1>7 DEF Linked
<1>9. /\ c.last \in Nat /\ c.basis \in Nat /\ c.cursor \in Nat /\ c.wire \in Items
      /\ Basis(p) \in Nat /\ Len(Main) \in Nat /\ Must \subseteq Nat
      /\ u \in Nat /\ u \in 0 .. MaxT /\ Len(ch) \in Nat /\ AcksBy(c.srv) \subseteq Nat
  <2>1. u \in Nat /\ u \in 0 .. MaxT /\ Len(ch) \in Nat
    BY <1>5, <1>7, StreamAssumption, SMTT(60) DEF Ts
  <2>2. Len(Main) \in Nat /\ AcksBy(c.srv) \subseteq Nat
    BY MainFacts, AcksByTyped
  <2> QED  BY <1>3, <2>1, <2>2, ConnFacts, PeerFacts
<1>10. c.cursor + 1 \in Nat /\ c.cursor + 1 \in 1 .. Len(ch) + 1 /\ u = ch[c.cursor]
  BY <1>4, <1>5, <1>7, <1>9, SMTT(60)
<1>11. faults' \in 0 .. MaxFaults /\ UNCHANGED <<server, pv>>
  BY DEF Live, Base
<1>12. ASSUME u > c.last PROVE PInv'
  <2>1. PICK e : e = [t |-> u, rec |-> value[c.srv][u]]
    OBVIOUS
  <2>2. e \in [t : Ts, rec : Records] /\ e.t = u /\ Agrees(e.rec, u, Main)
    BY <1>5, <1>6, <2>1
  <2>3. PICK w : w = Append(c.wire, e)
    OBVIOUS
  <2>4. c.basis <= c.last
    <3>1. ASSUME c.srv = 1, \A i \in 1 .. Len(chan[1]) : chan[1][i] <= c.last PROVE FALSE
      <4>1. u <= c.last
        BY <1>4, <1>5, <3>1
      <4> QED  BY <1>9, <1>12, <4>1, SMTT(60)
    <3> QED  BY <1>8, <3>1
  <2>5. ASSUME NEW t \in AcksBy(c.srv), c.last < t, t <= u PROVE t = u
    <3>1. t \in Nat
      BY <1>9
    <3>2. c.basis < t
      BY <1>9, <2>4, <2>5, <3>1, SMTT(60)
    <3>3. PICK i \in c.cursor .. Len(ch) : ch[i] = t
      BY <1>8, <2>5, <3>2 DEF Due
    <3>4. CASE i = c.cursor
      BY <1>10, <3>3, <3>4
    <3>5. CASE i # c.cursor
      <4>1. c.cursor \in 1 .. Len(ch) /\ i \in 1 .. Len(ch) /\ c.cursor < i
        BY <1>5, <1>7, <1>9, <3>5, SMTT(60)
      <4>2. ch[c.cursor] < ch[i]
        BY <1>5, <1>7, <4>1 DEF Broadcast
      <4> QED  BY <1>9, <1>10, <2>5, <3>1, <3>3, <4>2, SMTT(60)
    <3> QED  BY <3>4, <3>5
  <2>6. ASSUME NEW t \in Must, c.last < t, t <= u PROVE t = u
    <3>1. t \in Nat
      BY <1>9
    <3>2. CASE Len(Main) <= t
      BY <1>6, <1>9, <2>6, <3>1, <3>2, SMTT(60)
    <3>3. CASE t \in Acks
      <4>1. PICK a \in acked : t = a[1]
        BY <3>3 DEF Acks
      <4>2. a \in Ts \X Servers
        BY DEF Base
      <4>3. a = <<t, a[2]>> /\ a[2] \in Servers /\ t \in Ts
        BY <4>1, <4>2, SMTT(60)
      <4>4. t \in AcksBy(a[2])
        BY <4>3 DEF AcksBy
      <4>5. CASE a[2] = c.srv
        BY <2>5, <2>6, <4>4, <4>5
      <4>6. CASE c.srv = 2 /\ a[2] = 1
        <5>1. t <= c.basis
          BY <1>8, <4>4, <4>6
        <5> QED  BY <1>9, <2>4, <2>6, <3>1, <5>1, SMTT(60)
      <4>7. CASE c.srv = 1 /\ a[2] = 2
        <5>1. t \in AcksBy(2) /\ c.cursor \in 1 .. Len(chan[1]) /\ u = chan[1][c.cursor]
          BY <1>4, <1>5, <4>4, <4>7
        <5>2. u < t
          BY <5>1 DEF AckedInLog
        <5> QED  BY <1>9, <2>6, <3>1, <5>2, SMTT(60)
      <4>8. (c.srv = 1 \/ c.srv = 2) /\ (a[2] = 1 \/ a[2] = 2)
        BY <1>5, <4>3 DEF Servers
      <4> QED  BY <4>5, <4>6, <4>7, <4>8
    <3> QED  BY <3>2, <3>3 DEF Must
  <2>7. w \in Items /\ Sent(Basis(p), u, w, Main, Must)
    <3>1. c.last < e.t /\ Agrees(e.rec, e.t, Main)
      BY <1>9, <1>12, <2>2
    <3>2. \A t \in Must : c.last < t /\ t <= e.t => t = e.t
      BY <2>2, <2>6
    <3>3. Append(c.wire, e) \in Items /\ Sent(Basis(p), e.t, Append(c.wire, e), Main, Must)
      BY <1>8, <1>9, <2>2, <3>1, <3>2, SentAppend
    <3> QED  BY <2>2, <2>3, <3>3
  <2>8. PICK d : d = [c EXCEPT !.cursor = c.cursor + 1, !.last = u, !.wire = w]
    OBVIOUS
  <2>9. /\ d \in Conns /\ d.phase = "live" /\ d.srv = c.srv /\ d.cursor = c.cursor + 1
        /\ d.basis = c.basis /\ d.last = u /\ d.wire = w
    BY <1>2, <1>3, <1>9, <1>10, <2>7, <2>8 DEF Conns, Items
  <2>10. Due(u, c.basis, ch, c.cursor + 1, AcksBy(c.srv))
    <3>1. c.last <= u /\ ch[c.cursor] <= u
      BY <1>9, <1>10, <1>12, SMTT(60)
    <3> QED  BY <1>8, <1>9, <3>1, DueTaken
  <2>11. c.basis <= u
    BY <1>9, <1>12, <2>4, SMTT(60)
  <2>12. Linked(p, d)
    <3>1. d.phase # "off" /\ ~(d.phase \in {"registered", "backfill"})
      BY <2>9, SMTT(60)
    <3> QED  BY <1>5, <1>7, <1>8, <1>10, <2>7, <2>9, <2>10, <2>11, <3>1 DEF Linked
  <2>13. conn' = [conn EXCEPT ![p] = d]
    BY <1>1, <1>4, <1>12, <2>1, <2>3, <2>8 DEF Live, Fresh
  <2> QED  BY <1>11, <2>9, <2>12, <2>13, ConnStep
<1>13. ASSUME ~(u > c.last) PROVE PInv'
  <2>1. PICK d : d = [c EXCEPT !.cursor = c.cursor + 1]
    OBVIOUS
  <2>2. /\ d \in Conns /\ d.phase = "live" /\ d.srv = c.srv /\ d.cursor = c.cursor + 1
        /\ d.basis = c.basis /\ d.last = c.last /\ d.wire = c.wire
    BY <1>2, <1>3, <1>10, <2>1 DEF Conns
  <2>3. Due(c.last, c.basis, ch, c.cursor + 1, AcksBy(c.srv))
    <3>1. c.last <= c.last /\ ch[c.cursor] <= c.last
      BY <1>9, <1>10, <1>13, SMTT(60)
    <3> QED  BY <1>8, <1>9, <3>1, DueTaken
  <2>4. Linked(p, d)
    <3>1. d.phase # "off" /\ ~(d.phase \in {"registered", "backfill"})
      BY <2>2, SMTT(60)
    <3> QED  BY <1>5, <1>7, <1>8, <1>10, <2>2, <2>3, <3>1 DEF Linked
  <2>5. conn' = [conn EXCEPT ![p] = d]
    BY <1>1, <1>4, <1>13, <2>1 DEF Live, Fresh
  <2> QED  BY <1>11, <2>2, <2>4, <2>5, ConnStep
<1> QED  BY <1>12, <1>13

LEMMA PHandshake ==
  ASSUME PInv, NEW p \in Peers, Handshake(p)
  PROVE  PInv'
<1>1. PICK c : c = conn[p]
  OBVIOUS
<1>2. c # Off
  BY <1>1, SMTT(60) DEF Handshake, Off
<1>3. c \in Conns /\ Linked(p, c)
  BY <1>1, <1>2, Connected
<1>4. PICK d : d = [c EXCEPT !.greeted = TRUE]
  OBVIOUS
<1>5. /\ d \in Conns /\ d.phase = c.phase /\ d.srv = c.srv /\ d.cursor = c.cursor
      /\ d.basis = c.basis /\ d.last = c.last /\ d.wire = c.wire
  BY <1>3, <1>4 DEF Conns
<1>6. Linked(p, d)
  BY <1>3, <1>5 DEF Linked
<1>7. conn' = [conn EXCEPT ![p] = Off] \/ conn' = [conn EXCEPT ![p] = d]
  BY <1>1, <1>4 DEF Handshake
<1>8. faults' \in 0 .. MaxFaults /\ UNCHANGED <<server, pv>>
  BY DEF Handshake, PInv, Base
<1> QED  BY <1>5, <1>6, <1>7, <1>8, ConnStep, PDrop

LEMMA PApplyItem ==
  ASSUME PInv, NEW p \in Peers, ApplyItem(p)
  PROVE  PInv'
<1>1. PICK c : c = conn[p]
  OBVIOUS
<1>2. c # Off /\ c.wire # <<>>
  BY <1>1, SMTT(60) DEF ApplyItem, Off
<1>3. c \in Conns /\ Linked(p, c) /\ Sent(Basis(p), c.last, c.wire, Main, Must)
  BY <1>1, <1>2, Connected DEF Linked
<1>4. PICK w, b, u, e : /\ w = Tail(c.wire) /\ b = Basis(p)
                        /\ u = c.wire[1].t /\ e = c.wire[1].rec
  OBVIOUS
<1>5. c.last \in Nat /\ c.wire \in Items /\ b \in Nat
      /\ Must \subseteq Nat /\ Must \subseteq Ts /\ Holds(b, pv[p], Main, Must)
  BY <1>3, <1>4, ConnFacts, PeerFacts
<1>6. /\ Tail(c.wire) \in Items /\ c.wire[1].t \in Ts /\ c.wire[1].t <= c.last
      /\ Agrees(c.wire[1].rec, c.wire[1].t, Main) /\ c.wire[1].rec \in Records
      /\ \A t \in Must : Basis(p) < t /\ t <= c.wire[1].t => t = c.wire[1].t
      /\ \A b2 \in Nat : Basis(p) <= b2 /\ c.wire[1].t <= b2 /\ b2 <= c.last =>
           Sent(b2, c.last, Tail(c.wire), Main, Must)
  <2>1. Basis(p) \in Nat
    BY <1>4, <1>5
  <2> QED  BY <1>2, <1>3, <1>5, <2>1, SentTail
<1>7. /\ w \in Items /\ u \in Ts /\ u \in Nat /\ u <= c.last
      /\ Agrees(e, u, Main) /\ e \in Records /\ b <= c.last
      /\ \A t \in Must : b < t /\ t <= u => t = u
      /\ \A b2 \in Nat : b <= b2 /\ u <= b2 /\ b2 <= c.last => Sent(b2, c.last, w, Main, Must)
  <2>1. u \in Ts /\ u <= c.last
    BY <1>4, <1>6
  <2>2. u \in Nat
    BY <2>1, StreamAssumption, SMTT(60) DEF Ts
  <2>3. b <= c.last
    BY <1>3, <1>4 DEF Sent
  <2> QED  BY <1>4, <1>6, <2>1, <2>2, <2>3
<1>8. PICK d : d = [c EXCEPT !.wire = w]
  OBVIOUS
<1>9. /\ d \in Conns /\ d.phase = c.phase /\ d.srv = c.srv /\ d.cursor = c.cursor
      /\ d.basis = c.basis /\ d.last = c.last /\ d.wire = w
  BY <1>3, <1>7, <1>8 DEF Conns, Items
<1>10. ~(c.phase \in {"registered", "backfill"})
  BY <1>2, <1>3 DEF Linked
<1>11. Head(c.wire) = c.wire[1]
  BY <1>2, <1>5, HeadTailProperties DEF Items
<1>12. /\ conn' = [conn EXCEPT ![p] = d] /\ UNCHANGED <<server, faults>>
       /\ pv' = IF u <= b THEN pv ELSE [pv EXCEPT ![p] = [pv[p] EXCEPT ![u] = e]]
  BY <1>1, <1>4, <1>8, <1>11 DEF ApplyItem
<1>13. faults' \in 0 .. MaxFaults
  BY <1>12 DEF PInv, Base
<1>14. ASSUME u <= b PROVE PInv'
  <2>1. Linked(p, d)
    <3>1. Sent(Basis(p), d.last, d.wire, Main, Must)
      BY <1>4, <1>5, <1>7, <1>9, <1>14, SMTT(60)
    <3> QED  BY <1>3, <1>9, <1>10, <3>1 DEF Linked
  <2>2. pv' = pv
    BY <1>12, <1>14
  <2> QED  BY <1>9, <1>12, <1>13, <2>1, <2>2, ConnStep
<1>15. ASSUME ~(u <= b) PROVE PInv'
  <2>1. UNCHANGED <<log, holder, hosted, value, unfenced, chan, acked>>
    BY <1>12 DEF server
  <2>2. Flags'
    BY <2>1 DEF PInv, Flags
  <2>3. b < u
    BY <1>5, <1>7, <1>15, SMTT(60)
  <2>4. PICK v : v = [pv[p] EXCEPT ![u] = e]
    OBVIOUS
  <2>5. pv[p] \in [Ts -> Records \cup {0}] /\ pv \in [Peers -> [Ts -> Records \cup {0}]]
    BY DEF PInv, Base
  <2>6. Holds(u, v, Main, Must) /\ v \in [Ts -> Records \cup {0}]
    BY <1>5, <1>7, <2>3, <2>4, <2>5, HoldsApplied
  <2>7. pv' = [pv EXCEPT ![p] = v]
    BY <1>12, <1>15, <2>4
  <2>8. /\ pv' \in [Peers -> [Ts -> Records \cup {0}]] /\ pv'[p] = v
        /\ \A q \in Peers : q # p => pv'[q] = pv[q]
    BY <2>5, <2>6, <2>7
  <2>9. Base'
    BY <1>13, <2>1, <2>8 DEF PInv, Base
  <2>10. Prefix' /\ Hosting' /\ Broadcast' /\ AckedInLog'
    BY <2>1, ServersSame
  <2>11. Main' = Main /\ Must' = Must
    BY <2>1, MainFrame, MustFrame
  <2>12. Basis(p)' = u
    <3>1. Max({0} \cup {t \in Ts : v[t] # 0}) = u
      BY <2>6, BasisIs DEF Holds
    <3> QED  BY <2>8, <3>1 DEF Basis
  <2>13. \A q \in Peers : q # p => Basis(q)' = Basis(q)
    BY <2>8, BasisFrame
  <2>14. Held'
    <3>1. ASSUME NEW q \in Peers PROVE Holds(Basis(q)', pv'[q], Main, Must)
      <4>1. CASE q = p
        BY <2>6, <2>8, <2>12, <4>1
      <4>2. CASE q # p
        BY <2>8, <2>13, <4>2, PeerFacts
      <4> QED  BY <4>1, <4>2
    <3> QED  BY <2>11, <3>1 DEF Held
  <2>15. Linked(p, d)'
    <3>1. Sent(Basis(p)', d.last, d.wire, Main', Must')
      <4>1. Sent(u, c.last, w, Main, Must)
        BY <1>5, <1>7, <2>3, SMTT(60)
      <4> QED  BY <1>9, <2>11, <2>12, <4>1
    <3>2. c.srv \in Servers /\ 1 \in Servers
      BY <1>3 DEF Linked, Servers
    <3>3. AcksBy(c.srv)' = AcksBy(c.srv) /\ AcksBy(1)' = AcksBy(1)
      BY <2>1, <3>2, AcksFrame
    <3> QED  BY <1>3, <1>9, <1>10, <2>1, <3>1, <3>3 DEF Linked
  <2>16. ASSUME NEW q \in Peers, NEW x, q # p, Linked(q, x) PROVE Linked(q, x)'
    BY <2>1, <2>8, <2>16, LinkSame
  <2>17. Streams'
    <3>1. conn \in [Peers -> Conns] /\ \A q \in Peers : conn[q] = Off \/ Linked(q, conn[q])
      BY DEF PInv, Streams
    <3>2. conn' \in [Peers -> Conns]
      BY <1>9, <1>12, <3>1
    <3>3. ASSUME NEW q \in Peers PROVE (conn[q] = Off \/ Linked(q, conn[q]))'
      <4>1. PICK x : x = conn'[q]
        OBVIOUS
      <4>2. CASE q = p
        <5>1. x = d
          BY <1>12, <3>1, <4>1, <4>2
        <5> QED  BY <2>15, <4>1, <4>2, <5>1
      <4>3. CASE q # p
        <5>1. x = conn[q]
          BY <1>12, <3>1, <4>1, <4>3
        <5>2. x = Off \/ Linked(q, x)
          BY <3>1, <5>1
        <5>3. x = Off \/ Linked(q, x)'
          BY <2>16, <4>3, <5>2
        <5> QED  BY <4>1, <5>3
      <4> QED  BY <4>2, <4>3
    <3> QED  BY <3>2, <3>3 DEF Streams
  <2> QED  BY <2>2, <2>9, <2>10, <2>14, <2>17 DEF PInv
<1> QED  BY <1>14, <1>15

-----------------------------------------------------------------------------
LEMMA PInvNext == PInv /\ [Next]_vars => PInv'
<1> SUFFICES ASSUME PInv, [Next]_vars PROVE PInv'
  OBVIOUS
<1>1. ASSUME NEW s \in Servers,
             Install(s) \/ FenceOk(s) \/ FenceLost(s) \/ FenceError(s) \/ RenewLost(s)
      PROVE  PInv'
  BY <1>1, PInstall, PFenceOk, PFence
<1>2. ASSUME NEW p \in Peers, BackfillFails(p) \/ Lagged(p) PROVE PInv'
  <2>1. conn[p] # Off
    BY <1>2, SMTT(60) DEF BackfillFails, Lagged, Off
  <2>2. faults' \in 0 .. MaxFaults
    BY <1>2, StreamAssumption, SMTT(60) DEF BackfillFails, Lagged, OneFault, PInv, Base
  <2>3. /\ UNCHANGED <<server, pv>>
        /\ conn' = [conn EXCEPT ![p] = [conn[p] EXCEPT !.phase = "ended"]]
    BY <1>2 DEF BackfillFails, Lagged
  <2> QED  BY <2>1, <2>2, <2>3, PEnd
<1>3. ASSUME NEW p \in Peers, StreamEnds(p) \/ Disconnect(p) PROVE PInv'
  <2>1. faults' \in 0 .. MaxFaults
    BY <1>3, StreamAssumption, SMTT(60) DEF StreamEnds, Disconnect, OneFault, PInv, Base
  <2>2. UNCHANGED <<server, pv>> /\ conn' = [conn EXCEPT ![p] = Off]
    BY <1>3 DEF StreamEnds, Disconnect
  <2> QED  BY <2>1, <2>2, PDrop
<1>4. ASSUME NEW p \in Peers,
             \/ \E s \in Servers : Subscribe(p, s)
             \/ Snapshot(p) \/ Backfill(p) \/ Live(p) \/ Handshake(p) \/ ApplyItem(p)
      PROVE  PInv'
  BY <1>4, PSubscribe, PSnapshot, PBackfill, PLive, PHandshake, PApplyItem
<1>5. CASE UNCHANGED vars
  <2>1. UNCHANGED <<log, holder, hosted, value, unfenced, chan, acked, conn, pv, faults>>
    BY <1>5 DEF vars
  <2>2. Flags'
    BY <2>1 DEF PInv, Flags
  <2>3. faults' \in 0 .. MaxFaults
    BY <2>1 DEF PInv, Base
  <2>4. \A s \in Servers : unfenced'[s] = TRUE => unfenced[s] = TRUE
    BY <2>1
  <2>5. \A s \in Servers : hosted'[s] = TRUE => hosted[s] = TRUE
    BY <2>1
  <2> QED  BY <2>1, <2>2, <2>3, <2>4, <2>5, FlagStep
<1> QED  BY <1>1, <1>2, <1>3, <1>4, <1>5, PTakeOver, PCrash DEF Next

(***************************************************************************)
(* Servers, streams and peers keep PInv, whatever a deposed server goes on *)
(* to append (flush_commit_batch asks for the lease after its append).     *)
(***************************************************************************)
THEOREM StreamInvariant == Spec => []PInv
BY PInvInit, PInvNext, PTL DEF Spec

(***************************************************************************)
(* At every basis a peer has skipped no acknowledged record, and holds     *)
(* nothing in the place of one but a record that its server appended after *)
(* it had lost the lease: for any number of peers and records and any      *)
(* capacity of the broadcast and of the wire, across lag, disconnects, the *)
(* crash, the takeover and what the deposed server appends after it        *)
(* (subscription_stream, run_loop, flush_commit_batch).                    *)
(***************************************************************************)
THEOREM PeersHoldAcked == Spec => []HoldsAcked
<1>1. ASSUME PInv PROVE TypeOK
  <2>1. ASSUME NEW p \in Peers, conn[p].phase # "off"
        PROVE  conn[p].cursor \in 1 .. Len(chan[conn[p].srv]) + 1
    <3>1. conn[p] # Off
      BY <2>1, SMTT(60) DEF Off
    <3> QED  BY <1>1, <3>1, Connected DEF Linked
  <2>2. conn \in [Peers -> Conns] /\ Base /\ Flags
    BY <1>1 DEF PInv, Streams
  <2> QED  BY <2>1, <2>2 DEF TypeOK, Base, Flags
<1>2. ASSUME PInv, NEW p \in Peers, NEW a \in acked, Basis(p) >= a[1]
      PROVE  pv[p][a[1]] \in {a[2], Refused}
  <2>1. a[1] \in Must /\ a[1] \in Ts /\ Main[a[1]] = a[2]
    BY <1>2 DEF PInv, Base, AckedInLog, Acks, Must
  <2>2. Basis(p) \in Nat /\ Holds(Basis(p), pv[p], Main, Must) /\ a[1] \in Nat
    BY <1>2, <2>1, PeerFacts
  <2>3. a[1] <= Basis(p)
    BY <1>2, <2>2, SMTT(60)
  <2>4. pv[p][a[1]] # 0
    BY <2>1, <2>2, <2>3 DEF Holds
  <2>5. Agrees(pv[p][a[1]], a[1], Main)
    BY <2>1, <2>2, <2>4 DEF Holds
  <2> QED  BY <2>1, <2>5 DEF Agrees
<1>3. PInv => HoldsAcked
  BY <1>1, <1>2 DEF HoldsAcked
<1> QED  BY <1>3, StreamInvariant, PTL

=============================================================================
