-------------------------- MODULE GroupCommitProofs --------------------------
(***************************************************************************)
(* Proofs about module GroupCommit, for any requests, batch limit and      *)
(* bounds: requests commit once and in arrival order, answers are true,    *)
(* and a conditional transaction commits on exactly the basis it expects.  *)
(***************************************************************************)
EXTENDS GroupCommit, TLAPS

(* Leaves are for Zenon unless they say otherwise. *)
USE ZenonT(60)

Record == [req : Reqs, id : Nat]

(* The requests of a sequence of records: as a sequence, and as a set. *)
ReqsOf(q) == [i \in DOMAIN q |-> q[i].req]
ReqSet(q) == {q[i].req : i \in DOMAIN q}

(***************************************************************************)
(* Order of arrival.  Before(a, r, s): r was queued before s in a.         *)
(***************************************************************************)
Before(a, r, s) ==
  \E i, j \in DOMAIN a : i < j /\ a[i] = r /\ a[j] = s

AllBefore(a, R, S) == \A r \in R, s \in S : Before(a, r, s)

Sorted(a, q) == \A i, j \in DOMAIN q : i < j => Before(a, q[i], q[j])

Once(a) == \A i, j \in DOMAIN a : a[i] = a[j] => i = j

(***************************************************************************)
(* A request moves from the queue q to the flush's work w, to its prepared *)
(* records p and to the log l, and never overtakes another: the four, one  *)
(* after the other, are in arrival order.  In the stage st "installed" the *)
(* records of p are in l as well.                                          *)
(***************************************************************************)
Ordered(l, p, w, q, a, st) ==
  /\ Once(a)
  /\ Sorted(a, ReqsOf(l)) /\ Sorted(a, ReqsOf(p))
  /\ Sorted(a, w) /\ Sorted(a, q)
  /\ st # "installed" => AllBefore(a, ReqSet(l), ReqSet(p))
  /\ st = "installed" => ReqSet(p) \subseteq ReqSet(l)
  /\ AllBefore(a, ReqSet(l) \cup ReqSet(p), Range(w))
  /\ AllBefore(a, ReqSet(l) \cup ReqSet(p) \cup Range(w), Range(q))
  /\ ReqSet(l) \cup ReqSet(p) \cup Range(w) \cup Range(q) \subseteq Range(a)

-----------------------------------------------------------------------------
(* Sequences. *)

LEMMA FunctionIsSeq ==
  ASSUME NEW S, NEW n \in Nat, NEW f \in [1 .. n -> S]
  PROVE  f \in Seq(S) /\ Len(f) = n
BY SMTT(60)

LEMMA SeqEqual ==
  ASSUME NEW S, NEW s \in Seq(S), NEW t \in Seq(S), Len(s) = Len(t),
         \A i \in 1 .. Len(s) : s[i] = t[i]
  PROVE  s = t
BY SMTT(60)

(* What the loop over the drained requests does to their set. *)
LEMMA RangeTail ==
  ASSUME NEW S, NEW q \in Seq(S), q # <<>>
  PROVE  /\ Head(q) \in S /\ Tail(q) \in Seq(S)
         /\ Range(q) = {Head(q)} \cup Range(Tail(q))
         /\ Range(q) \subseteq S
<1>1. /\ Tail(q) \in Seq(S) /\ Len(Tail(q)) = Len(q) - 1
      /\ \A i \in 1 .. Len(q) - 1 : Tail(q)[i] = q[i + 1]
      /\ Head(q) = q[1] /\ Len(q) \in Nat /\ Len(q) >= 1
      /\ \A i \in 1 .. Len(q) : q[i] \in S
  BY SMTT(60)
<1>2. ASSUME NEW x \in Range(q)
      PROVE  x \in {Head(q)} \cup Range(Tail(q))
  <2>1. PICK i \in 1 .. Len(q) : x = q[i]
    BY SMTT(60) DEF Range
  <2>2. CASE i = 1
    BY <1>1, <2>1, <2>2
  <2>3. CASE i # 1
    <3>1. i - 1 \in 1 .. Len(Tail(q)) /\ Tail(q)[i - 1] = q[i]
      BY <1>1, <2>1, <2>3, SMTT(60)
    <3>2. DOMAIN Tail(q) = 1 .. Len(Tail(q))
      BY <1>1, SMTT(60)
    <3> QED  BY <2>1, <3>1, <3>2 DEF Range
  <2> QED  BY <2>2, <2>3
<1>3. ASSUME NEW x \in {Head(q)} \cup Range(Tail(q))
      PROVE  x \in Range(q)
  <2>1. CASE x = Head(q)
    BY <1>1, <2>1, SMTT(60) DEF Range
  <2>2. CASE x \in Range(Tail(q))
    <3>1. PICK i \in 1 .. Len(Tail(q)) : x = Tail(q)[i]
      BY <1>1, <2>2, SMTT(60) DEF Range
    <3>2. i + 1 \in 1 .. Len(q) /\ x = q[i + 1]
      BY <1>1, <3>1, SMTT(60)
    <3> QED  BY <3>2, SMTT(60) DEF Range
  <2> QED  BY <1>3, <2>1, <2>2
<1>4. Range(q) \subseteq S
  BY SMTT(60) DEF Range
<1> QED  BY <1>1, <1>2, <1>3, <1>4

LEMMA RangeAppend ==
  ASSUME NEW S, NEW q \in Seq(S), NEW x \in S
  PROVE  Append(q, x) \in Seq(S) /\ Range(Append(q, x)) = Range(q) \cup {x}
<1>1. /\ Append(q, x) \in Seq(S) /\ Len(Append(q, x)) = Len(q) + 1
      /\ DOMAIN Append(q, x) = 1 .. Len(q) + 1 /\ DOMAIN q = 1 .. Len(q)
      /\ \A i \in 1 .. Len(q) : Append(q, x)[i] = q[i]
      /\ Append(q, x)[Len(q) + 1] = x /\ Len(q) \in Nat
  BY SMTT(60)
<1>2. Range(Append(q, x)) = Range(q) \cup {x}
  <2>1. \A i \in 1 .. Len(q) + 1 : i \in 1 .. Len(q) \/ i = Len(q) + 1
    BY <1>1, SMTT(60)
  <2>2. Range(q) = {q[i] : i \in 1 .. Len(q)}
    BY <1>1 DEF Range
  <2>3. Range(Append(q, x)) = {Append(q, x)[i] : i \in 1 .. Len(q) + 1}
    BY <1>1 DEF Range
  <2>4. \A i \in 1 .. Len(q) + 1 : Append(q, x)[i] \in Range(q) \cup {x}
    BY <1>1, <2>1, <2>2
  <2>5. \A i \in 1 .. Len(q) : i \in 1 .. Len(q) + 1
    BY <1>1, SMTT(60)
  <2>6. Len(q) + 1 \in 1 .. Len(q) + 1
    BY <1>1, SMTT(60)
  <2> QED  BY <1>1, <2>2, <2>3, <2>4, <2>5, <2>6, SMTT(60)
<1> QED  BY <1>1, <1>2

LEMMA RangeConcat ==
  ASSUME NEW S, NEW q \in Seq(S), NEW s \in Seq(S)
  PROVE  q \o s \in Seq(S) /\ Range(q \o s) = Range(q) \cup Range(s)
<1>1. /\ q \o s \in Seq(S) /\ DOMAIN (q \o s) = 1 .. Len(q) + Len(s)
      /\ DOMAIN q = 1 .. Len(q) /\ DOMAIN s = 1 .. Len(s)
      /\ Len(q) \in Nat /\ Len(s) \in Nat
      /\ \A i \in 1 .. Len(q) : (q \o s)[i] = q[i]
      /\ \A i \in 1 .. Len(s) : (q \o s)[Len(q) + i] = s[i]
      /\ \A i \in 1 .. Len(q) + Len(s) :
           i > Len(q) => i - Len(q) \in 1 .. Len(s) /\ (q \o s)[i] = s[i - Len(q)]
  BY SMTT(60)
<1>2. ASSUME NEW i \in 1 .. Len(q) + Len(s)
      PROVE  (q \o s)[i] \in Range(q) \cup Range(s)
  <2>1. CASE i <= Len(q)
    <3>1. i \in DOMAIN q /\ (q \o s)[i] = q[i]
      BY <1>1, <2>1, SMTT(60)
    <3> QED  BY <3>1 DEF Range
  <2>2. CASE i > Len(q)
    <3>1. i - Len(q) \in DOMAIN s /\ (q \o s)[i] = s[i - Len(q)]
      BY <1>1, <2>2
    <3> QED  BY <3>1 DEF Range
  <2> QED  BY <1>1, <2>1, <2>2, SMTT(60)
<1>3. ASSUME NEW i \in 1 .. Len(q)
      PROVE  q[i] \in Range(q \o s)
  <2>1. i \in DOMAIN (q \o s) /\ (q \o s)[i] = q[i]
    BY <1>1, SMTT(60)
  <2> QED  BY <2>1 DEF Range
<1>4. ASSUME NEW i \in 1 .. Len(s)
      PROVE  s[i] \in Range(q \o s)
  <2>1. Len(q) + i \in DOMAIN (q \o s) /\ (q \o s)[Len(q) + i] = s[i]
    BY <1>1, SMTT(60)
  <2> QED  BY <2>1 DEF Range
<1>5. Range(q \o s) \subseteq Range(q) \cup Range(s)
  <2>1. DOMAIN (q \o s) = 1 .. Len(q) + Len(s)
    BY <1>1
  <2>2. \A x \in Range(q \o s) : \E i \in 1 .. Len(q) + Len(s) : x = (q \o s)[i]
    BY <2>1 DEF Range
  <2> QED  BY <1>2, <2>2
<1>6. Range(q) \subseteq Range(q \o s)
  <2>1. DOMAIN q = 1 .. Len(q)
    BY <1>1
  <2>2. \A x \in Range(q) : \E i \in 1 .. Len(q) : x = q[i]
    BY <2>1 DEF Range
  <2> QED  BY <1>3, <2>2
<1>7. Range(s) \subseteq Range(q \o s)
  <2>1. DOMAIN s = 1 .. Len(s)
    BY <1>1
  <2>2. \A x \in Range(s) : \E i \in 1 .. Len(s) : x = s[i]
    BY <2>1 DEF Range
  <2> QED  BY <1>4, <2>2
<1> QED  BY <1>1, <1>5, <1>6, <1>7

LEMMA SortedAppend ==
  ASSUME NEW S, NEW q \in Seq(S), NEW x \in S, NEW a,
         Sorted(a, q), \A y \in Range(q) : Before(a, y, x)
  PROVE  Sorted(a, Append(q, x))
<1>1. /\ DOMAIN Append(q, x) = 1 .. Len(q) + 1 /\ DOMAIN q = 1 .. Len(q)
      /\ \A i \in 1 .. Len(q) : Append(q, x)[i] = q[i]
      /\ Append(q, x)[Len(q) + 1] = x /\ Len(q) \in Nat
  BY SMTT(60)
<1>2. ASSUME NEW i \in 1 .. Len(q) + 1, NEW j \in 1 .. Len(q) + 1, i < j
      PROVE  Before(a, Append(q, x)[i], Append(q, x)[j])
  <2>1. i \in 1 .. Len(q) /\ Append(q, x)[i] = q[i]
    BY <1>1, <1>2, SMTT(60)
  <2>2. CASE j = Len(q) + 1
    BY <1>1, <2>1, <2>2 DEF Range
  <2>3. CASE j # Len(q) + 1
    <3>1. j \in 1 .. Len(q) /\ Append(q, x)[j] = q[j]
      BY <1>1, <2>3, SMTT(60)
    <3> QED  BY <1>1, <1>2, <2>1, <3>1 DEF Sorted
  <2> QED  BY <2>2, <2>3
<1> QED  BY <1>1, <1>2 DEF Sorted

LEMMA SortedTail ==
  ASSUME NEW S, NEW q \in Seq(S), q # <<>>, NEW a, Sorted(a, q)
  PROVE  Sorted(a, Tail(q)) /\ \A x \in Range(Tail(q)) : Before(a, Head(q), x)
<1>1. /\ Len(Tail(q)) = Len(q) - 1 /\ DOMAIN Tail(q) = 1 .. Len(q) - 1
      /\ \A i \in 1 .. Len(q) - 1 : Tail(q)[i] = q[i + 1]
      /\ Head(q) = q[1] /\ Len(q) \in Nat /\ Len(q) >= 1
      /\ DOMAIN q = 1 .. Len(q)
  BY SMTT(60)
<1>2. ASSUME NEW i \in 1 .. Len(q) - 1, NEW j \in 1 .. Len(q) - 1, i < j
      PROVE  Before(a, Tail(q)[i], Tail(q)[j])
  <2>1. /\ i + 1 \in 1 .. Len(q) /\ j + 1 \in 1 .. Len(q) /\ i + 1 < j + 1
        /\ Tail(q)[i] = q[i + 1] /\ Tail(q)[j] = q[j + 1]
    BY <1>1, <1>2, SMTT(60)
  <2> QED  BY <1>1, <2>1 DEF Sorted
<1>3. ASSUME NEW x \in Range(Tail(q))
      PROVE  Before(a, Head(q), x)
  <2>1. PICK i \in 1 .. Len(q) - 1 : x = Tail(q)[i]
    BY <1>1 DEF Range
  <2>2. i + 1 \in 1 .. Len(q) /\ 1 \in 1 .. Len(q) /\ 1 < i + 1 /\ x = q[i + 1]
    BY <1>1, <2>1, SMTT(60)
  <2> QED  BY <1>1, <2>2 DEF Sorted
<1>4. Sorted(a, Tail(q))
  BY <1>1, <1>2 DEF Sorted
<1> QED  BY <1>3, <1>4

LEMMA SortedConcat ==
  ASSUME NEW S, NEW q \in Seq(S), NEW s \in Seq(S), NEW a,
         Sorted(a, q), Sorted(a, s), AllBefore(a, Range(q), Range(s))
  PROVE  Sorted(a, q \o s)
<1>1. /\ DOMAIN (q \o s) = 1 .. Len(q) + Len(s)
      /\ DOMAIN q = 1 .. Len(q) /\ DOMAIN s = 1 .. Len(s)
      /\ Len(q) \in Nat /\ Len(s) \in Nat
      /\ \A i \in 1 .. Len(q) : (q \o s)[i] = q[i]
      /\ \A i \in 1 .. Len(q) + Len(s) :
           i > Len(q) => i - Len(q) \in 1 .. Len(s) /\ (q \o s)[i] = s[i - Len(q)]
  BY SMTT(60)
<1>2. ASSUME NEW i \in 1 .. Len(q) + Len(s), NEW j \in 1 .. Len(q) + Len(s), i < j
      PROVE  Before(a, (q \o s)[i], (q \o s)[j])
  <2>1. CASE j <= Len(q)
    <3>1. /\ i \in 1 .. Len(q) /\ j \in 1 .. Len(q)
          /\ (q \o s)[i] = q[i] /\ (q \o s)[j] = q[j]
      BY <1>1, <1>2, <2>1, SMTT(60)
    <3> QED  BY <1>1, <1>2, <3>1 DEF Sorted
  <2>2. CASE i > Len(q)
    <3>1. /\ i - Len(q) \in 1 .. Len(s) /\ j - Len(q) \in 1 .. Len(s)
          /\ i - Len(q) < j - Len(q)
          /\ (q \o s)[i] = s[i - Len(q)] /\ (q \o s)[j] = s[j - Len(q)]
      BY <1>1, <1>2, <2>2, SMTT(60)
    <3> QED  BY <1>1, <3>1 DEF Sorted
  <2>3. CASE i <= Len(q) /\ j > Len(q)
    <3>1. /\ i \in 1 .. Len(q) /\ (q \o s)[i] = q[i]
          /\ j - Len(q) \in 1 .. Len(s) /\ (q \o s)[j] = s[j - Len(q)]
      BY <1>1, <1>2, <2>3, SMTT(60)
    <3>2. (q \o s)[i] \in Range(q) /\ (q \o s)[j] \in Range(s)
      BY <1>1, <3>1 DEF Range
    <3> QED  BY <3>2 DEF AllBefore
  <2> QED  BY <1>1, <2>1, <2>2, <2>3, SMTT(60)
<1> QED  BY <1>1, <1>2 DEF Sorted

(* A request that arrives later changes nothing for the ones before it. *)
LEMMA Arrive ==
  ASSUME NEW S, NEW a \in Seq(S), NEW x \in S, Once(a), x \notin Range(a)
  PROVE  /\ Once(Append(a, x))
         /\ \A r, s : Before(a, r, s) => Before(Append(a, x), r, s)
         /\ \A r \in Range(a) : Before(Append(a, x), r, x)
<1>1. /\ DOMAIN Append(a, x) = 1 .. Len(a) + 1 /\ DOMAIN a = 1 .. Len(a)
      /\ \A i \in 1 .. Len(a) : Append(a, x)[i] = a[i]
      /\ Append(a, x)[Len(a) + 1] = x /\ Len(a) \in Nat
  BY SMTT(60)
<1>2. Once(Append(a, x))
  BY <1>1, SMTT(60) DEF Once, Range
<1>3. ASSUME NEW r, NEW s, Before(a, r, s)
      PROVE  Before(Append(a, x), r, s)
  BY <1>1, <1>3, SMTT(60) DEF Before
<1>4. ASSUME NEW r \in Range(a)
      PROVE  Before(Append(a, x), r, x)
  <2>1. PICK i \in 1 .. Len(a) : r = a[i]
    BY <1>1 DEF Range
  <2>2. /\ i \in DOMAIN Append(a, x) /\ Len(a) + 1 \in DOMAIN Append(a, x)
        /\ i < Len(a) + 1 /\ Append(a, x)[i] = r
    BY <1>1, <2>1, SMTT(60)
  <2> QED  BY <1>1, <2>2 DEF Before
<1> QED  BY <1>2, <1>3, <1>4

LEMMA NotBeforeItself ==
  ASSUME NEW S, NEW a \in Seq(S), Once(a), NEW r
  PROVE  ~Before(a, r, r)
BY SMTT(60) DEF Once, Before

(* The requests of records appended to others. *)
LEMMA ReqsOfSeq ==
  ASSUME NEW q \in Seq(Record)
  PROVE  ReqsOf(q) \in Seq(Reqs) /\ Range(ReqsOf(q)) = ReqSet(q)
<1>1. ReqsOf(q) \in Seq(Reqs)
  <2>1. /\ DOMAIN q = 1 .. Len(q) /\ Len(q) \in Nat
        /\ \A i \in 1 .. Len(q) : q[i] \in Record
    BY SMTT(60)
  <2>2. \A i \in 1 .. Len(q) : q[i].req \in Reqs
    BY <2>1 DEF Record
  <2>3. ReqsOf(q) \in [1 .. Len(q) -> Reqs]
    BY <2>1, <2>2 DEF ReqsOf
  <2> QED  BY <2>1, <2>3, FunctionIsSeq
<1>2. Range(ReqsOf(q)) = ReqSet(q)
  BY DEF Range, ReqsOf, ReqSet
<1> QED  BY <1>1, <1>2

LEMMA ReqsOfAppend ==
  ASSUME NEW q \in Seq(Record), NEW e \in Record
  PROVE  /\ Append(q, e) \in Seq(Record)
         /\ ReqsOf(Append(q, e)) = Append(ReqsOf(q), e.req)
         /\ ReqSet(Append(q, e)) = ReqSet(q) \cup {e.req}
<1>1. /\ Append(q, e) \in Seq(Record) /\ Len(q) \in Nat
      /\ DOMAIN Append(q, e) = 1 .. Len(q) + 1 /\ DOMAIN q = 1 .. Len(q)
      /\ \A i \in 1 .. Len(q) : Append(q, e)[i] = q[i]
      /\ Append(q, e)[Len(q) + 1] = e
  BY SMTT(60)
<1>2. e.req \in Reqs /\ ReqsOf(q) \in Seq(Reqs) /\ Range(ReqsOf(q)) = ReqSet(q)
  BY ReqsOfSeq DEF Record
<1>3. Len(ReqsOf(q)) = Len(q) /\ \A i \in 1 .. Len(q) : ReqsOf(q)[i] = q[i].req
  <2>1. DOMAIN ReqsOf(q) = 1 .. Len(q)
    BY <1>1 DEF ReqsOf
  <2>2. DOMAIN ReqsOf(q) = 1 .. Len(ReqsOf(q)) /\ Len(ReqsOf(q)) \in Nat
    BY <1>2, SMTT(60)
  <2>3. \A i \in 1 .. Len(q) : ReqsOf(q)[i] = q[i].req
    BY <1>1 DEF ReqsOf
  <2> QED  BY <1>1, <2>1, <2>2, <2>3, SMTT(60)
<1>4. /\ DOMAIN Append(ReqsOf(q), e.req) = 1 .. Len(q) + 1
      /\ \A i \in 1 .. Len(q) : Append(ReqsOf(q), e.req)[i] = q[i].req
      /\ Append(ReqsOf(q), e.req)[Len(q) + 1] = e.req
      /\ Append(ReqsOf(q), e.req) \in Seq(Reqs)
  BY <1>2, <1>3, SMTT(60)
<1>5. /\ DOMAIN ReqsOf(Append(q, e)) = 1 .. Len(q) + 1
      /\ \A i \in 1 .. Len(q) : ReqsOf(Append(q, e))[i] = q[i].req
      /\ ReqsOf(Append(q, e))[Len(q) + 1] = e.req
  BY <1>1, SMTT(60) DEF ReqsOf
<1>6. ReqsOf(Append(q, e)) \in Seq(Reqs)
  BY <1>1, ReqsOfSeq
<1>7. ReqsOf(Append(q, e)) = Append(ReqsOf(q), e.req)
  <2>1. Len(ReqsOf(Append(q, e))) = Len(Append(ReqsOf(q), e.req))
    BY <1>1, <1>4, <1>5, <1>6, SMTT(60)
  <2>2. \A i \in 1 .. Len(q) + 1 :
          ReqsOf(Append(q, e))[i] = Append(ReqsOf(q), e.req)[i]
    BY <1>1, <1>4, <1>5, SMTT(60)
  <2> QED  BY <1>4, <1>5, <1>6, <2>1, <2>2, SeqEqual, SMTT(60)
<1>8. ReqSet(Append(q, e)) = ReqSet(q) \cup {e.req}
  <2>1. ReqSet(Append(q, e)) = Range(ReqsOf(Append(q, e)))
    BY <1>1, ReqsOfSeq
  <2>2. Range(Append(ReqsOf(q), e.req)) = Range(ReqsOf(q)) \cup {e.req}
    BY <1>2, RangeAppend, SMTT(60)
  <2> QED  BY <1>2, <1>7, <2>1, <2>2
<1> QED  BY <1>1, <1>7, <1>8

LEMMA ConcatAt ==
  ASSUME NEW S, NEW q \in Seq(S), NEW s \in Seq(S)
  PROVE  /\ q \o s \in Seq(S) /\ Len(q \o s) = Len(q) + Len(s)
         /\ \A i \in 1 .. Len(q) + Len(s) :
              (q \o s)[i] = IF i <= Len(q) THEN q[i] ELSE s[i - Len(q)]
BY SMTT(60)

LEMMA ReqsOfConcat ==
  ASSUME NEW q \in Seq(Record), NEW s \in Seq(Record)
  PROVE  /\ q \o s \in Seq(Record)
         /\ ReqsOf(q \o s) = ReqsOf(q) \o ReqsOf(s)
         /\ ReqSet(q \o s) = ReqSet(q) \cup ReqSet(s)
<1>1. /\ q \o s \in Seq(Record) /\ Len(q) \in Nat /\ Len(s) \in Nat
      /\ DOMAIN (q \o s) = 1 .. Len(q) + Len(s)
      /\ DOMAIN q = 1 .. Len(q) /\ DOMAIN s = 1 .. Len(s)
      /\ \A i \in 1 .. Len(q) + Len(s) :
           (q \o s)[i] = IF i <= Len(q) THEN q[i] ELSE s[i - Len(q)]
  BY SMTT(60)
<1>2. /\ ReqsOf(q) \in Seq(Reqs) /\ Range(ReqsOf(q)) = ReqSet(q)
      /\ ReqsOf(s) \in Seq(Reqs) /\ Range(ReqsOf(s)) = ReqSet(s)
      /\ ReqsOf(q \o s) \in Seq(Reqs) /\ Range(ReqsOf(q \o s)) = ReqSet(q \o s)
  BY <1>1, ReqsOfSeq
<1>3. /\ DOMAIN ReqsOf(q) = 1 .. Len(q) /\ DOMAIN ReqsOf(s) = 1 .. Len(s)
      /\ DOMAIN ReqsOf(q \o s) = 1 .. Len(q) + Len(s)
      /\ \A i \in 1 .. Len(q) : ReqsOf(q)[i] = q[i].req
      /\ \A i \in 1 .. Len(s) : ReqsOf(s)[i] = s[i].req
      /\ \A i \in 1 .. Len(q) + Len(s) : ReqsOf(q \o s)[i] = (q \o s)[i].req
  BY <1>1 DEF ReqsOf
<1>4. Len(ReqsOf(q)) = Len(q) /\ Len(ReqsOf(s)) = Len(s)
  BY <1>1, <1>2, <1>3, SMTT(60)
<1>5. Len(ReqsOf(q \o s)) = Len(q) + Len(s)
  BY <1>1, <1>2, <1>3, SMTT(60)
<1>6. /\ ReqsOf(q) \o ReqsOf(s) \in Seq(Reqs)
      /\ Len(ReqsOf(q) \o ReqsOf(s)) = Len(q) + Len(s)
      /\ \A i \in 1 .. Len(q) + Len(s) :
           (ReqsOf(q) \o ReqsOf(s))[i] =
             IF i <= Len(q) THEN ReqsOf(q)[i] ELSE ReqsOf(s)[i - Len(q)]
  <2>1. /\ ReqsOf(q) \o ReqsOf(s) \in Seq(Reqs)
        /\ Len(ReqsOf(q) \o ReqsOf(s)) = Len(ReqsOf(q)) + Len(ReqsOf(s))
        /\ \A i \in 1 .. Len(ReqsOf(q)) + Len(ReqsOf(s)) :
             (ReqsOf(q) \o ReqsOf(s))[i] =
               IF i <= Len(ReqsOf(q)) THEN ReqsOf(q)[i]
                                      ELSE ReqsOf(s)[i - Len(ReqsOf(q))]
    BY <1>2, ConcatAt
  <2> QED  BY <1>4, <2>1
<1>7. ASSUME NEW i \in 1 .. Len(q) + Len(s)
      PROVE  ReqsOf(q \o s)[i] = (ReqsOf(q) \o ReqsOf(s))[i]
  <2>1. CASE i <= Len(q)
    <3>1. i \in 1 .. Len(q)
      BY <1>1, <2>1, SMTT(60)
    <3> QED  BY <1>1, <1>3, <1>6, <2>1, <3>1
  <2>2. CASE ~(i <= Len(q))
    <3>1. i - Len(q) \in 1 .. Len(s)
      BY <1>1, <2>2, SMTT(60)
    <3> QED  BY <1>1, <1>3, <1>6, <2>2, <3>1
  <2> QED  BY <2>1, <2>2
<1>8. ReqsOf(q \o s) = ReqsOf(q) \o ReqsOf(s)
  BY <1>2, <1>5, <1>6, <1>7, SeqEqual
<1>9. Range(ReqsOf(q) \o ReqsOf(s)) = Range(ReqsOf(q)) \cup Range(ReqsOf(s))
  BY <1>2, RangeConcat, SMTT(60)
<1> QED  BY <1>1, <1>2, <1>8, <1>9

LEMMA Nothing ==
  /\ <<>> \in Seq(Reqs) /\ <<>> \in Seq(Record) /\ <<>> \in Seq(Keywords)
  /\ Range(<<>>) = {} /\ ReqSet(<<>>) = {}
  /\ \A a : Sorted(a, <<>>) /\ Sorted(a, ReqsOf(<<>>))
<1>1. DOMAIN <<>> = {}
  BY SMTT(60)
<1>2. DOMAIN ReqsOf(<<>>) = {}
  BY <1>1 DEF ReqsOf
<1> QED  BY <1>1, <1>2, SMTT(60) DEF Range, ReqSet, Sorted

-----------------------------------------------------------------------------
(* What each step of a request does to the order. *)

LEMMA OrderSubmit ==
  ASSUME NEW l, NEW p, NEW w, NEW q \in Seq(Reqs), NEW a \in Seq(Reqs),
         NEW r \in Reqs, NEW st,
         Ordered(l, p, w, q, a, st), r \notin Range(a)
  PROVE  Ordered(l, p, w, Append(q, r), Append(a, r), st)
<1> DEFINE a2 == Append(a, r)
           q2 == Append(q, r)
<1>1. /\ Once(a2)
      /\ \A x, y : Before(a, x, y) => Before(a2, x, y)
      /\ \A x \in Range(a) : Before(a2, x, r)
  BY Arrive DEF Ordered
<1>2. Range(a2) = Range(a) \cup {r} /\ Range(q2) = Range(q) \cup {r}
  BY RangeAppend, SMTT(60)
<1>3. Range(q) \subseteq Range(a)
  BY DEF Ordered
<1>4. Sorted(a2, q) /\ \A y \in Range(q) : Before(a2, y, r)
  BY <1>1, <1>3 DEF Ordered, Sorted
<1>5. Sorted(a2, q2)
  BY <1>4, SortedAppend
<1> HIDE DEF a2, q2
<1>6. Sorted(a2, ReqsOf(l)) /\ Sorted(a2, ReqsOf(p)) /\ Sorted(a2, w)
  BY <1>1 DEF Ordered, Sorted
<1>7. /\ st # "installed" => AllBefore(a2, ReqSet(l), ReqSet(p))
      /\ st = "installed" => ReqSet(p) \subseteq ReqSet(l)
      /\ AllBefore(a2, ReqSet(l) \cup ReqSet(p), Range(w))
  BY <1>1 DEF Ordered, AllBefore
<1>8. AllBefore(a2, ReqSet(l) \cup ReqSet(p) \cup Range(w), Range(q2))
  BY <1>1, <1>2 DEF Ordered, AllBefore
<1>9. ReqSet(l) \cup ReqSet(p) \cup Range(w) \cup Range(q2) \subseteq Range(a2)
  BY <1>2 DEF Ordered
<1> QED  BY <1>1, <1>5, <1>6, <1>7, <1>8, <1>9 DEF Ordered, a2, q2

(* The leader drains the queue. *)
LEMMA OrderLead ==
  ASSUME NEW l, NEW q, NEW a, Ordered(l, <<>>, <<>>, q, a, "free")
  PROVE  Ordered(l, <<>>, q, <<>>, a, "preparing")
BY Nothing DEF Ordered, AllBefore

(* The flush ends: what it held is dropped. *)
LEMMA OrderDrop ==
  ASSUME NEW l, NEW p, NEW w, NEW q, NEW a, NEW st,
         Ordered(l, p, w, q, a, st)
  PROVE  /\ Ordered(l, <<>>, <<>>, q, a, "free")
         /\ Ordered(l, <<>>, <<>>, <<>>, a, "free")
BY Nothing DEF Ordered, AllBefore

(* The flush goes on with the batch it has. *)
LEMMA OrderStage ==
  ASSUME NEW l, NEW p, NEW w, NEW q, NEW a, NEW st, NEW st2,
         Ordered(l, p, w, q, a, st), st # "installed", st2 # "installed"
  PROVE  Ordered(l, p, w, q, a, st2)
BY DEF Ordered

(* A request of the flush is refused. *)
LEMMA OrderRefuse ==
  ASSUME NEW l, NEW p, NEW w \in Seq(Reqs), NEW q, NEW a,
         Ordered(l, p, w, q, a, "preparing"), w # <<>>
  PROVE  Ordered(l, p, Tail(w), q, a, "preparing")
<1>1. Range(w) = {Head(w)} \cup Range(Tail(w)) /\ Sorted(a, Tail(w))
  BY RangeTail, SortedTail DEF Ordered
<1> QED  BY <1>1 DEF Ordered, AllBefore

(* A request of the flush is prepared. *)
LEMMA OrderPrepare ==
  ASSUME NEW l, NEW p \in Seq(Record), NEW w \in Seq(Reqs), NEW q, NEW a,
         NEW e \in Record, e.req = Head(w),
         Ordered(l, p, w, q, a, "preparing"), w # <<>>
  PROVE  Ordered(l, Append(p, e), Tail(w), q, a, "preparing")
<1> DEFINE p2 == Append(p, e)
           h == Head(w)
           t == Tail(w)
<1>1. /\ Range(w) = {h} \cup Range(t) /\ Sorted(a, t)
      /\ \A x \in Range(t) : Before(a, h, x)
  BY RangeTail, SortedTail DEF Ordered
<1>2. ReqsOf(p2) = Append(ReqsOf(p), h) /\ ReqSet(p2) = ReqSet(p) \cup {h}
  BY ReqsOfAppend
<1>3. ReqsOf(p) \in Seq(Reqs) /\ Range(ReqsOf(p)) = ReqSet(p) /\ h \in Reqs
  BY ReqsOfSeq, RangeTail
<1> HIDE DEF p2, h, t
<1>4. \A y \in ReqSet(p) : Before(a, y, h)
  BY <1>1 DEF Ordered, AllBefore
<1>5. Sorted(a, ReqsOf(p2))
  <2>1. Sorted(a, ReqsOf(p)) /\ \A y \in Range(ReqsOf(p)) : Before(a, y, h)
    BY <1>3, <1>4 DEF Ordered
  <2>2. Sorted(a, Append(ReqsOf(p), h))
    BY <1>3, <2>1, SortedAppend
  <2> QED  BY <1>2, <2>2
<1>6. AllBefore(a, ReqSet(l), ReqSet(p2))
  BY <1>1, <1>2 DEF Ordered, AllBefore
<1>7. AllBefore(a, ReqSet(l) \cup ReqSet(p2), Range(t))
  BY <1>1, <1>2 DEF Ordered, AllBefore
<1>8. AllBefore(a, ReqSet(l) \cup ReqSet(p2) \cup Range(t), Range(q))
  BY <1>1, <1>2 DEF Ordered, AllBefore
<1>9. ReqSet(l) \cup ReqSet(p2) \cup Range(t) \cup Range(q) \subseteq Range(a)
  BY <1>1, <1>2 DEF Ordered
<1> QED  BY <1>1, <1>5, <1>6, <1>7, <1>8, <1>9 DEF Ordered, p2, t

(* The remainder of the flush goes back in front of the queue. *)
LEMMA OrderRequeue ==
  ASSUME NEW l, NEW p, NEW w \in Seq(Reqs), NEW q \in Seq(Reqs), NEW a,
         Ordered(l, p, w, q, a, "preparing")
  PROVE  Ordered(l, p, <<>>, w \o q, a, "preparing")
<1>1. Range(w \o q) = Range(w) \cup Range(q)
  BY RangeConcat, SMTT(60)
<1>2. AllBefore(a, Range(w), Range(q))
  BY DEF Ordered, AllBefore
<1>3. Sorted(a, w \o q)
  BY <1>2, SortedConcat DEF Ordered
<1> QED  BY <1>1, <1>3, Nothing DEF Ordered, AllBefore

(* The batch is appended to the log. *)
LEMMA OrderAppend ==
  ASSUME NEW l \in Seq(Record), NEW p \in Seq(Record), NEW q, NEW a,
         Ordered(l, p, <<>>, q, a, "appending")
  PROVE  Ordered(l \o p, p, <<>>, q, a, "installed")
<1>1. /\ ReqsOf(l \o p) = ReqsOf(l) \o ReqsOf(p)
      /\ ReqSet(l \o p) = ReqSet(l) \cup ReqSet(p)
  BY ReqsOfConcat
<1>2. /\ ReqsOf(l) \in Seq(Reqs) /\ Range(ReqsOf(l)) = ReqSet(l)
      /\ ReqsOf(p) \in Seq(Reqs) /\ Range(ReqsOf(p)) = ReqSet(p)
  BY ReqsOfSeq
<1>3. Sorted(a, ReqsOf(l) \o ReqsOf(p))
  BY <1>2, SortedConcat DEF Ordered
<1>4. Sorted(a, ReqsOf(l \o p))
  BY <1>1, <1>3
<1> QED  BY <1>1, <1>4, Nothing DEF Ordered, AllBefore

(* No request is in two places, or twice in the work of a flush. *)
LEMMA Apart ==
  ASSUME NEW l, NEW p, NEW w \in Seq(Reqs), NEW q, NEW a \in Seq(Reqs), NEW st,
         Ordered(l, p, w, q, a, st)
  PROVE  /\ \A r \in ReqSet(l) \cup ReqSet(p) : r \notin Range(w)
         /\ \A r \in ReqSet(l) \cup ReqSet(p) \cup Range(w) : r \notin Range(q)
         /\ w # <<>> => Head(w) \notin Range(Tail(w))
<1>1. \A r : ~Before(a, r, r)
  BY NotBeforeItself DEF Ordered
<1>2. w # <<>> => Head(w) \notin Range(Tail(w))
  BY <1>1, SortedTail DEF Ordered
<1> QED  BY <1>1, <1>2 DEF Ordered, AllBefore

-----------------------------------------------------------------------------
(***************************************************************************)
(* The requests of U, queued, drained or prepared, have no answer yet; an  *)
(* acknowledged request is in the log, L, and a refused one is not.        *)
(***************************************************************************)
Answered(L, U, rs) ==
  /\ \A r \in U : rs[r] = "open"
  /\ \A r \in Reqs : rs[r] = "ok" => r \in L
  /\ \A r \in Reqs : rs[r] = "refused" => r \notin L

(* What has no answer is appended to the log. *)
LEMMA AnswerClose ==
  ASSUME NEW L, NEW U, NEW rs, NEW rs2, Answered(L, U, rs),
         \A r \in Reqs : rs2[r] = IF rs[r] = "open" THEN "closed" ELSE rs[r]
  PROVE  Answered(L, {}, rs2)
BY DEF Answered

LEMMA AnswerAppend ==
  ASSUME NEW L, NEW U, NEW P \in SUBSET U, NEW rs, Answered(L, U, rs)
  PROVE  Answered(L \cup P, U, rs)
<1>1. "open" # "refused"
  OBVIOUS
<1> QED  BY <1>1 DEF Answered

-----------------------------------------------------------------------------
(***************************************************************************)
(* A conditional record of the log is at the basis it expects, and one of  *)
(* the batch at the basis the batch will give it.                          *)
(***************************************************************************)
Exact(l, p, st) ==
  /\ \A i \in DOMAIN l : Expects[l[i].req] \in {None, i - 1}
  /\ st # "installed" =>
       \A i \in DOMAIN p : Expects[p[i].req] \in {None, Len(l) + i - 1}

LEMMA ExactDrop ==
  ASSUME NEW l, NEW p, NEW st, Exact(l, p, st)
  PROVE  Exact(l, <<>>, "free") /\ Exact(l, <<>>, "preparing")
<1>1. DOMAIN <<>> = {}
  BY SMTT(60)
<1> QED  BY <1>1 DEF Exact

LEMMA ExactStage ==
  ASSUME NEW l, NEW p, NEW st, NEW st2, Exact(l, p, st), st # "installed"
  PROVE  Exact(l, p, st2)
BY DEF Exact

LEMMA ExactPrepare ==
  ASSUME NEW l, NEW p \in Seq(Record), NEW e \in Record, Len(l) \in Nat,
         Expects[e.req] \in {None, Len(l) + Len(p)}, Exact(l, p, "preparing")
  PROVE  Exact(l, Append(p, e), "preparing")
<1>1. /\ DOMAIN Append(p, e) = 1 .. Len(p) + 1 /\ DOMAIN p = 1 .. Len(p)
      /\ \A i \in 1 .. Len(p) : Append(p, e)[i] = p[i]
      /\ Append(p, e)[Len(p) + 1] = e /\ Len(p) \in Nat
  BY SMTT(60)
<1>2. ASSUME NEW i \in 1 .. Len(p) + 1
      PROVE  Expects[Append(p, e)[i].req] \in {None, Len(l) + i - 1}
  <2>1. CASE i = Len(p) + 1
    BY <1>1, <2>1, SMTT(60)
  <2>2. CASE i # Len(p) + 1
    BY <1>1, <2>2, SMTT(60) DEF Exact
  <2> QED  BY <2>1, <2>2
<1> QED  BY <1>1, <1>2 DEF Exact

LEMMA ExactAppend ==
  ASSUME NEW l \in Seq(Record), NEW p \in Seq(Record), Exact(l, p, "appending")
  PROVE  Exact(l \o p, p, "installed")
<1>1. /\ DOMAIN l = 1 .. Len(l) /\ DOMAIN p = 1 .. Len(p)
      /\ DOMAIN (l \o p) = 1 .. Len(l) + Len(p) /\ Len(l) \in Nat /\ Len(p) \in Nat
      /\ \A i \in 1 .. Len(l) + Len(p) :
           (l \o p)[i] = IF i <= Len(l) THEN l[i] ELSE p[i - Len(l)]
  BY SMTT(60)
<1>2. ASSUME NEW i \in 1 .. Len(l) + Len(p)
      PROVE  Expects[(l \o p)[i].req] \in {None, i - 1}
  <2>1. CASE i <= Len(l)
    BY <1>1, <2>1, SMTT(60) DEF Exact
  <2>2. CASE ~(i <= Len(l))
    <3>1. i - Len(l) \in 1 .. Len(p) /\ (l \o p)[i] = p[i - Len(l)]
      BY <1>1, <2>2, SMTT(60)
    <3>2. Expects[p[i - Len(l)].req] \in {None, Len(l) + (i - Len(l)) - 1}
      BY <1>1, <3>1 DEF Exact
    <3>3. Len(l) + (i - Len(l)) - 1 = i - 1
      BY <1>1, SMTT(60)
    <3> QED  BY <3>1, <3>2, <3>3
  <2> QED  BY <2>1, <2>2
<1> QED  BY <1>1, <1>2 DEF Exact

(* The interner holds the keyword that is interned, and gives it an id. *)
LEMMA InternedNames ==
  ASSUME NEW names \in Seq(Keywords), NEW k \in Keywords \cup {None}
  PROVE  /\ Interned(names, k) \in Seq(Keywords)
         /\ IdOf(Interned(names, k), k) \in Nat
<1> DEFINE more == Interned(names, k)
<1>1. more \in Seq(Keywords) /\ (k # None => k \in Range(more))
  <2>1. CASE k = None \/ k \in Range(names)
    BY <2>1 DEF Interned
  <2>2. CASE ~(k = None \/ k \in Range(names))
    BY <2>2, RangeAppend, SMTT(60) DEF Interned
  <2> QED  BY <2>1, <2>2
<1> HIDE DEF more
<1>2. ASSUME k = None PROVE IdOf(more, k) \in Nat
  BY <1>2 DEF IdOf
<1>3. ASSUME k # None PROVE IdOf(more, k) \in Nat
  <2>1. \E i \in DOMAIN more : more[i] = k
    BY <1>1, <1>3 DEF Range
  <2>2. (CHOOSE i \in DOMAIN more : more[i] = k) \in DOMAIN more
    BY <2>1
  <2>3. DOMAIN more = 1 .. Len(more) /\ Len(more) \in Nat
    BY <1>1, SMTT(60)
  <2>4. IdOf(more, k) \in DOMAIN more
    BY <1>3, <2>2 DEF IdOf
  <2> QED  BY <2>3, <2>4, SMTT(60)
<1> QED  BY <1>1, <1>2, <1>3 DEF more

-----------------------------------------------------------------------------
(* The inductive invariant. *)

(* The sequences. *)
Queues ==
  /\ meta \in Seq(Keywords) /\ interner \in Seq(Keywords)
  /\ snap \in Seq(Keywords) \cup {None} /\ stale \in Seq(Keywords) \cup {None}
  /\ log \in Seq(Record) /\ prep \in Seq(Record) /\ Len(prep) <= MaxBatch
  /\ pending \in Seq(Reqs) /\ work \in Seq(Reqs) /\ arrived \in Seq(Reqs)

(* The lock, the flush its holder leads, and the callers. *)
Control ==
  /\ leader \in Reqs \cup {None} /\ stage \in Stages
  /\ leader = None <=> stage = "free"
  /\ stage = "free" => prep = <<>>
  /\ stage # "preparing" => work = <<>>
  /\ faults \in 0 .. MaxFaults /\ takeovers \in 0 .. MaxTakeovers
  /\ snap # None => takeovers < MaxTakeovers

Flags == minted \in BOOLEAN /\ up \in BOOLEAN

Calls ==
  /\ caller \in [Reqs -> {"new", "waiting", "leading", "done", "gone"}]
  /\ resp \in [Reqs -> {"none", "open", "ok", "refused", "err", "closed"}]
  /\ \A r \in Reqs : caller[r] = "new" => r \notin Range(arrived)

(* The requests that wait for an answer somewhere. *)
Open == ReqSet(prep) \cup Range(work) \cup Range(pending)

GInv ==
  /\ Queues /\ Control /\ Flags /\ Calls
  /\ Ordered(log, prep, work, pending, arrived, stage)
  /\ Answered(ReqSet(log), Open, resp)
  /\ Exact(log, prep, stage)

LEMMA GInvInit == Init => GInv
<1> SUFFICES ASSUME Init PROVE GInv
  OBVIOUS
<1> USE GroupAssumption
<1>1. Queues
  BY Nothing, SMTT(60) DEF Init, Queues
<1>8. Control
  BY SMTT(60) DEF Init, Control, Stages
<1>9. Flags
  BY DEF Init, Flags
<1>2. Calls
  BY Nothing DEF Init, Calls
<1>3. Once(<<>>)
  BY SMTT(60) DEF Once
<1>4. Ordered(log, prep, work, pending, arrived, stage)
  BY <1>3, Nothing DEF Init, Ordered, AllBefore
<1>5. \A r \in Reqs : resp[r] = "none"
  BY DEF Init
<1>6. Answered(ReqSet(log), Open, resp)
  BY <1>5, Nothing DEF Init, Answered, Open
<1>7. Exact(log, prep, stage)
  BY SMTT(60) DEF Init, Exact
<1> QED  BY <1>1, <1>2, <1>4, <1>6, <1>7, <1>8, <1>9 DEF GInv

(* The sets of requests are sets of requests. *)
LEMMA Places ==
  ASSUME Queues
  PROVE  /\ ReqSet(log) \subseteq Reqs /\ ReqSet(prep) \subseteq Reqs
         /\ Range(work) \subseteq Reqs /\ Range(pending) \subseteq Reqs
         /\ InWork = Range(work) /\ InPrep = ReqSet(prep)
<1>1. ReqSet(log) \subseteq Reqs /\ ReqSet(prep) \subseteq Reqs
  <2>1. ASSUME NEW q \in Seq(Record)
        PROVE  ReqSet(q) \subseteq Reqs
    <3>1. \A i \in DOMAIN q : q[i] \in Record
      BY SMTT(60)
    <3> QED  BY <3>1 DEF ReqSet, Record
  <2> QED  BY <2>1 DEF Queues
<1>2. Range(work) \subseteq Reqs /\ Range(pending) \subseteq Reqs
  BY SMTT(60) DEF Queues, Range
<1> QED  BY <1>1, <1>2 DEF InWork, InPrep, ReqSet

LEMMA GSubmit ==
  ASSUME GInv, NEW r \in Reqs, Submit(r)
  PROVE  GInv'
<1> USE DEF GInv
<1>0. /\ caller[r] = "new"
      /\ pending' = Append(pending, r) /\ arrived' = Append(arrived, r)
      /\ caller' = [caller EXCEPT ![r] = "waiting"] /\ resp' = [resp EXCEPT ![r] = "open"]
      /\ UNCHANGED <<log, leader, stage, work, prep, minted, meta, interner, snap, stale>>
      /\ UNCHANGED <<up, faults, takeovers>>
  BY DEF Submit, flush, naming, bounds
<1>1. r \notin Range(arrived)
  BY <1>0 DEF Calls
<1>2. /\ pending' \in Seq(Reqs) /\ Range(pending') = Range(pending) \cup {r}
      /\ arrived' \in Seq(Reqs) /\ Range(arrived') = Range(arrived) \cup {r}
  BY <1>0, RangeAppend, SMTT(60) DEF Queues
<1>3. Queues'
  BY <1>0, <1>2 DEF Queues
<1>4. Control'
  BY <1>0 DEF Control
<1>5. Calls'
  BY <1>0, <1>2 DEF Calls
<1>6. Ordered(log, prep, work, pending, arrived, stage)'
  <2>1. Ordered(log, prep, work, Append(pending, r), Append(arrived, r), stage)
    BY <1>1, OrderSubmit DEF Queues
  <2> QED  BY <1>0, <2>1
<1>7. Answered(ReqSet(log), Open, resp)'
  <2>1. \A s \in Reqs : resp'[s] = IF s = r THEN "open" ELSE resp[s]
    BY <1>0 DEF Calls
  <2>2. Open' = Open \cup {r} /\ Open \subseteq Reqs /\ ReqSet(log') = ReqSet(log)
    BY <1>0, <1>2, Places DEF Open
  <2>3. Answered(ReqSet(log), Open \cup {r}, resp')
    BY <2>1, <2>2 DEF Answered
  <2> QED  BY <2>2, <2>3
<1>8. Exact(log, prep, stage)'
  BY <1>0
<1>9. Flags'
  BY <1>0 DEF Flags
<1> QED  BY <1>3, <1>4, <1>5, <1>6, <1>7, <1>8, <1>9

LEMMA GCollect ==
  ASSUME GInv, NEW r \in Reqs, Collect(r)
  PROVE  GInv'
<1> USE DEF GInv
<1>1. /\ caller' = [caller EXCEPT ![r] = "done"]
      /\ UNCHANGED <<log, pending, leader, stage, work, prep, minted, meta, interner>>
      /\ UNCHANGED <<snap, stale, resp, arrived, up, faults, takeovers>>
  BY DEF Collect, flush, naming, bounds
<1>2. Queues'
  BY <1>1 DEF Queues
<1>3. Control'
  BY <1>1 DEF Control
<1>4. Calls'
  BY <1>1 DEF Calls
<1>5. Open' = Open
  BY <1>1 DEF Open
<1>6. Flags'
  <2>1. minted' = minted /\ up' = up
    BY <1>1
  <2> QED  BY <2>1 DEF Flags
<1> QED  BY <1>1, <1>2, <1>3, <1>4, <1>5, <1>6

LEMMA GLead ==
  ASSUME GInv, NEW r \in Reqs, Lead(r)
  PROVE  GInv'
<1> USE DEF GInv
<1>0. /\ leader = None /\ leader' = r /\ stage' = "preparing"
      /\ work' = pending /\ pending' = <<>>
      /\ caller' = [caller EXCEPT ![r] = "leading"]
      /\ UNCHANGED <<log, prep, minted, meta, interner, snap, stale>>
      /\ UNCHANGED <<resp, arrived, up, faults, takeovers>>
  BY DEF Lead, naming, bounds
<1>1. stage = "free" /\ prep = <<>> /\ work = <<>>
  BY <1>0 DEF Control
<1>2. Queues'
  BY <1>0, Nothing DEF Queues
<1>3. Control'
  BY <1>0, <1>1, GroupAssumption DEF Control, Stages
<1>4. Calls'
  BY <1>0 DEF Calls
<1>5. Ordered(log, prep, work, pending, arrived, stage)'
  <2>1. Ordered(log, <<>>, pending, <<>>, arrived, "preparing")
    BY <1>1, OrderLead
  <2> QED  BY <1>0, <1>1, <2>1
<1>6. Answered(ReqSet(log), Open, resp)'
  <2>1. Open' = Open
    BY <1>0, <1>1, Nothing DEF Open
  <2> QED  BY <1>0, <2>1
<1>7. Exact(log, prep, stage)'
  <2>1. Exact(log, <<>>, "preparing")
    BY ExactDrop
  <2> QED  BY <1>0, <1>1, <2>1
<1>8. Flags'
  BY <1>0 DEF Flags
<1> QED  BY <1>2, <1>3, <1>4, <1>5, <1>6, <1>7, <1>8

LEMMA GLeadRefused ==
  ASSUME GInv, NEW r \in Reqs, LeadRefused(r)
  PROVE  GInv'
<1> USE DEF GInv
<1>0. /\ leader = None /\ faults < MaxFaults /\ faults' = faults + 1
      /\ resp' = [s \in Reqs |-> IF s \in Range(pending) THEN "refused" ELSE resp[s]]
      /\ pending' = <<>> /\ caller' = [caller EXCEPT ![r] = "done"]
      /\ UNCHANGED <<log, leader, stage, work, prep, minted, meta, interner, snap, stale>>
      /\ UNCHANGED <<arrived, up, takeovers>>
  BY DEF LeadRefused, OneFault, Send, flush, naming
<1>1. stage = "free" /\ prep = <<>> /\ work = <<>>
  BY <1>0 DEF Control
<1>2. Queues'
  BY <1>0, Nothing DEF Queues
<1>3. Control'
  BY <1>0, GroupAssumption, SMTT(60) DEF Control
<1>4. Calls'
  BY <1>0 DEF Calls
<1>5. Ordered(log, prep, work, pending, arrived, stage)'
  <2>1. Ordered(log, <<>>, <<>>, <<>>, arrived, "free")
    BY OrderDrop
  <2> QED  BY <1>0, <1>1, <2>1
<1>6. \A s \in Range(pending) : s \notin ReqSet(log)
  BY Apart DEF Queues
<1>7. Answered(ReqSet(log), Open, resp)'
  <2>1. \A s \in Reqs :
          resp'[s] = IF s \in Range(pending) THEN "refused" ELSE resp[s]
    BY <1>0
  <2>2. Open' = {} /\ ReqSet(log') = ReqSet(log)
    BY <1>0, <1>1, Nothing DEF Open
  <2>3. Answered(ReqSet(log), {}, resp')
    BY <1>6, <2>1 DEF Answered
  <2> QED  BY <2>2, <2>3
<1>8. Exact(log, prep, stage)'
  BY <1>0
<1>9. Flags'
  BY <1>0 DEF Flags
<1> QED  BY <1>2, <1>3, <1>4, <1>5, <1>7, <1>8, <1>9

(* The handler of a waiting request, or of the leader, is dropped. *)
LEMMA GCancel ==
  ASSUME GInv, NEW r \in Reqs, Cancel(r)
  PROVE  GInv'
<1> USE DEF GInv
<1>1. /\ faults' = faults + 1 /\ faults < MaxFaults
      /\ caller' = [caller EXCEPT ![r] = "gone"]
      /\ UNCHANGED <<log, pending, interner, snap, stale, arrived, up, takeovers>>
  BY DEF Cancel, OneFault
<1>2. CASE leader # r
  <2>1. UNCHANGED <<leader, stage, work, prep, minted, resp, meta>>
    BY <1>2 DEF Cancel, flush
  <2>2. Queues' /\ Control'
    BY <1>1, <2>1, GroupAssumption, SMTT(60) DEF Queues, Control
  <2>3. Calls' /\ Open' = Open
    BY <1>1, <2>1 DEF Calls, Open
  <2>4. Flags'
    BY <1>1, <2>1 DEF Flags
  <2> QED  BY <1>1, <2>1, <2>2, <2>3, <2>4
<1>3. CASE leader = r
  <2>1. /\ Send(InWork \cup InPrep, "closed") /\ meta' \in {meta, interner}
        /\ leader' = None /\ stage' = "free"
        /\ work' = <<>> /\ prep' = <<>> /\ minted' = FALSE
    BY <1>3 DEF Cancel
  <2>2. Queues'
    BY <1>1, <2>1, GroupAssumption, Nothing, SMTT(60) DEF Queues
  <2>7. Control'
    BY <1>1, <2>1, GroupAssumption, SMTT(60) DEF Control, Stages
  <2>3. Calls'
    BY <1>1, <2>1 DEF Calls, Send
  <2>4. Ordered(log, prep, work, pending, arrived, stage)'
    BY <1>1, <2>1, OrderDrop
  <2>5. Answered(ReqSet(log), Open, resp)'
    <3>1. \A s \in Reqs : resp'[s] = IF s \in Range(work) \cup ReqSet(prep)
                                       THEN "closed" ELSE resp[s]
      BY <2>1, Places DEF Send
    <3>2. \A s \in Range(pending) : s \notin Range(work) \cup ReqSet(prep)
      BY Apart DEF Queues
    <3>3. /\ Open' = Range(pending) /\ Range(pending) \subseteq Open
          /\ Range(pending) \subseteq Reqs /\ ReqSet(log') = ReqSet(log)
      BY <1>1, <2>1, Nothing, Places DEF Open
    <3>4. Answered(ReqSet(log), Range(pending), resp')
      BY <3>1, <3>2, <3>3 DEF Answered
    <3> QED  BY <3>3, <3>4
  <2>6. Exact(log, prep, stage)'
    <3>1. Exact(log, <<>>, "free")
      BY ExactDrop
    <3> QED  BY <1>1, <2>1, <3>1
  <2>8. Flags'
    BY <1>1, <2>1 DEF Flags
  <2> QED  BY <2>2, <2>3, <2>4, <2>5, <2>6, <2>7, <2>8
<1> QED  BY <1>2, <1>3

(* A request of the flush is answered an error before preparation. *)
LEMMA GRefuse ==
  ASSUME GInv, NEW r \in Reqs, MayPrepare(r), Refuse(r), interner' \in Seq(Keywords)
  PROVE  GInv'
<1> USE DEF GInv
<1>0. /\ stage = "preparing" /\ work # <<>> /\ r = Head(work) /\ work' = Tail(work)
      /\ resp' = [s \in Reqs |-> IF s \in {r} THEN "refused" ELSE resp[s]]
      /\ UNCHANGED <<meta, log, pending, leader, stage, prep, minted, caller, snap, stale>>
      /\ UNCHANGED <<arrived, up, faults, takeovers>>
  BY DEF MayPrepare, Refuse, Send, bounds
<1>1. Tail(work) \in Seq(Reqs) /\ Range(work) = {r} \cup Range(Tail(work))
  <2>1. work \in Seq(Reqs) /\ work # <<>> /\ r = Head(work)
    BY <1>0 DEF Queues
  <2> QED  BY <2>1, RangeTail
<1>2. Queues'
  BY <1>0, <1>1 DEF Queues
<1>3. Control'
  BY <1>0 DEF Control
<1>4. Calls'
  BY <1>0 DEF Calls
<1>5. Ordered(log, prep, work, pending, arrived, stage)'
  <2>1. Ordered(log, prep, Tail(work), pending, arrived, "preparing")
    BY <1>0, OrderRefuse DEF Queues
  <2> QED  BY <1>0, <2>1
<1>6. /\ r \notin ReqSet(log) /\ r \notin ReqSet(prep)
      /\ r \notin Range(Tail(work)) /\ r \notin Range(pending)
  BY <1>0, <1>1, Apart DEF Queues
<1>7. Answered(ReqSet(log), Open, resp)'
  <2>1. \A s \in Reqs : resp'[s] = IF s = r THEN "refused" ELSE resp[s]
    BY <1>0
  <2>2. /\ Open' = ReqSet(prep) \cup Range(Tail(work)) \cup Range(pending)
        /\ ReqSet(log') = ReqSet(log)
    BY <1>0 DEF Open
  <2>3. Open' \subseteq Open /\ Open \subseteq Reqs
    BY <1>1, <2>2, Places DEF Open
  <2>4. r \notin Open'
    BY <1>6, <2>2
  <2>5. Answered(ReqSet(log), Open', resp')
    BY <1>6, <2>1, <2>3, <2>4 DEF Answered
  <2> QED  BY <2>2, <2>5
<1>8. Exact(log, prep, stage)'
  BY <1>0
<1>9. Flags'
  BY <1>0 DEF Flags
<1> QED  BY <1>2, <1>3, <1>4, <1>5, <1>7, <1>8, <1>9

LEMMA GBasisMismatch ==
  ASSUME GInv, NEW r \in Reqs, BasisMismatch(r)
  PROVE  GInv'
<1>1. MayPrepare(r) /\ Refuse(r) /\ interner' \in Seq(Keywords)
  BY DEF BasisMismatch, GInv, Queues
<1> QED  BY <1>1, GRefuse

LEMMA GReject ==
  ASSUME GInv, NEW r \in Reqs, Reject(r)
  PROVE  GInv'
<1>1. MayPrepare(r) /\ Refuse(r) /\ interner' \in {interner, Interned(interner, Uses[r])}
  BY DEF Reject
<1>2. interner' \in Seq(Keywords)
  <2>1. interner \in Seq(Keywords) /\ Uses[r] \in Keywords \cup {None}
    BY GroupAssumption DEF GInv, Queues
  <2>2. Interned(interner, Uses[r]) \in Seq(Keywords)
    BY <2>1, InternedNames
  <2> QED  BY <1>1, <2>1, <2>2
<1> QED  BY <1>1, <1>2, GRefuse

LEMMA GPrepare ==
  ASSUME GInv, NEW r \in Reqs, Prepare(r)
  PROVE  GInv'
<1>1. PICK e : e = [req |-> r, id |-> IdOf(interner', Uses[r])]
  OBVIOUS
<1>2. /\ stage = "preparing" /\ work # <<>> /\ r = Head(work) /\ Len(prep) < MaxBatch
      /\ work' = Tail(work) /\ prep' = Append(prep, e)
      /\ interner' = Interned(interner, Uses[r])
      /\ meta' = meta /\ snap' = snap /\ stale' = stale
      /\ log' = log /\ pending' = pending /\ arrived' = arrived
      /\ leader' = leader /\ stage' = stage /\ caller' = caller /\ resp' = resp
      /\ up' = up /\ faults' = faults /\ takeovers' = takeovers
  BY <1>1 DEF MayPrepare, Prepare, bounds
<1>3. interner' \in Seq(Keywords) /\ IdOf(interner', Uses[r]) \in Nat
  <2>1. interner \in Seq(Keywords) /\ Uses[r] \in Keywords \cup {None}
    BY GroupAssumption DEF GInv, Queues
  <2> QED  BY <1>2, <2>1, InternedNames
<1>4. e \in Record /\ e.req = r
  BY <1>1, <1>3 DEF Record
<1>a. prep \in Seq(Record) /\ work \in Seq(Reqs) /\ log \in Seq(Record)
  BY DEF GInv, Queues
<1>5. Range(work) = {r} \cup Range(Tail(work)) /\ Tail(work) \in Seq(Reqs)
  <2>1. work # <<>> /\ r = Head(work)
    BY <1>2
  <2> QED  BY <1>a, <2>1, RangeTail
<1>6. Append(prep, e) \in Seq(Record) /\ ReqSet(Append(prep, e)) = ReqSet(prep) \cup {r}
  BY <1>a, <1>4, ReqsOfAppend
<1>7. Len(Append(prep, e)) <= MaxBatch
  <2>1. Len(prep) \in Nat /\ Len(Append(prep, e)) = Len(prep) + 1
    BY <1>a, <1>4, SMTT(60)
  <2> QED  BY <1>2, <2>1, GroupAssumption, SMTT(60)
<1>8. Queues'
  BY <1>2, <1>3, <1>5, <1>6, <1>7 DEF GInv, Queues
<1>9. Control'
  BY <1>2 DEF GInv, Control
<1>10. Calls'
  BY <1>2 DEF GInv, Calls
<1>11. Ordered(log, prep, work, pending, arrived, stage)'
  <2>1. /\ Ordered(log, prep, work, pending, arrived, "preparing")
        /\ work # <<>> /\ e.req = Head(work)
    BY <1>2, <1>4 DEF GInv
  <2>2. Ordered(log, Append(prep, e), Tail(work), pending, arrived, "preparing")
    BY <1>a, <1>4, <2>1, OrderPrepare
  <2>3. Ordered(log, Append(prep, e), Tail(work), pending, arrived, stage)
    BY <1>2, <2>2
  <2> QED  BY <1>2, <2>3
<1>12. Answered(ReqSet(log), Open, resp)'
  <2>1. Open' = Open
    BY <1>2, <1>5, <1>6 DEF Open
  <2>2. Answered(ReqSet(log), Open, resp) /\ log' = log /\ resp' = resp
    BY <1>2 DEF GInv
  <2> QED  BY <2>1, <2>2
<1>13. Exact(log, prep, stage)'
  <2>1. Expects[e.req] \in {None, Len(log) + Len(prep)}
    <3>1. BasisHolds(r)
      BY DEF Prepare
    <3> QED  BY <1>4, <3>1 DEF BasisHolds, CursorBasis
  <2>2. Len(log) \in Nat
    BY <1>a, SMTT(60)
  <2>3. Exact(log, prep, "preparing")
    BY <1>2 DEF GInv
  <2>4. Exact(log, Append(prep, e), "preparing")
    BY <1>a, <1>4, <2>1, <2>2, <2>3, ExactPrepare
  <2>5. Exact(log, Append(prep, e), stage)
    BY <1>2, <2>4
  <2> QED  BY <1>2, <2>5
<1>14. Flags'
  <2>1. minted' \in BOOLEAN
    BY DEF Prepare
  <2>2. up' = up /\ Flags
    BY <1>2 DEF GInv
  <2> QED  BY <2>1, <2>2 DEF Flags
<1> QED  BY <1>8, <1>9, <1>10, <1>11, <1>12, <1>13, <1>14 DEF GInv

(* The end of a flush, which answers the requests of S or none. *)
Flushed(S, s) ==
  /\ EndFlush(S, s) /\ leader # None
  /\ S \subseteq ReqSet(prep) /\ s \in {"ok", "err"}
  /\ s = "ok" => S \subseteq ReqSet(log)
  /\ UNCHANGED <<log, arrived, naming, up, takeovers>>
  /\ faults' \in {faults, faults + 1} \cap 0 .. MaxFaults
  /\ pending' \in Seq(Reqs) /\ Range(pending') \subseteq Open
  /\ \A r \in S : r \notin Range(pending')
  /\ Ordered(log, <<>>, <<>>, pending', arrived, "free")

LEMMA AnswerSend ==
  ASSUME NEW L, NEW U \in SUBSET Reqs, NEW rs, NEW rs2, Answered(L, U, rs),
         NEW S \in SUBSET U, NEW s \in {"ok", "err"}, s = "ok" => S \subseteq L,
         \A r \in Reqs : rs2[r] = IF r \in S THEN s ELSE rs[r],
         NEW V \in SUBSET U, \A r \in S : r \notin V
  PROVE  Answered(L, V, rs2)
<1>1. \A r \in V : r \in Reqs /\ rs2[r] = "open"
  BY DEF Answered
<1>2. \A r \in Reqs : rs2[r] = "ok" => r \in L
  BY DEF Answered
<1>3. \A r \in Reqs : rs2[r] = "refused" => r \notin L
  BY DEF Answered
<1> QED  BY <1>1, <1>2, <1>3 DEF Answered

LEMMA GEndFlush ==
  ASSUME GInv, NEW S, NEW s, Flushed(S, s)
  PROVE  GInv'
<1>1. /\ leader' = None /\ stage' = "free"
      /\ work' = <<>> /\ prep' = <<>> /\ minted' = FALSE
      /\ log' = log /\ arrived' = arrived /\ up' = up /\ takeovers' = takeovers
  BY DEF Flushed, EndFlush
<1>2. meta' = meta /\ interner' = interner /\ snap' = snap /\ stale' = stale
  BY DEF Flushed, naming
<1>3. Queues'
  <2>1. Queues /\ pending' \in Seq(Reqs)
    BY DEF GInv, Flushed
  <2>2. <<>> \in Seq(Reqs) /\ <<>> \in Seq(Record) /\ Len(<<>>) <= MaxBatch
    BY GroupAssumption, SMTT(60)
  <2> QED  BY <1>1, <1>2, <2>1, <2>2 DEF Queues
<1>4. Control'
  <2>1. Control /\ faults' \in 0 .. MaxFaults
    BY DEF GInv, Flushed
  <2> QED  BY <1>1, <1>2, <2>1 DEF Control, Stages
<1>5. Flags'
  <2>1. Flags
    BY DEF GInv
  <2> QED  BY <1>1, <2>1 DEF Flags
<1>6. \A r \in Reqs : resp'[r] = IF r \in S THEN s ELSE resp[r]
  BY DEF Flushed, EndFlush, Send
<1>7. Calls'
  <2>1. leader \in Reqs
    BY DEF GInv, Flushed, Control
  <2>2. /\ caller' = [caller EXCEPT ![leader] =
                      IF resp'[leader] = "open" THEN "waiting" ELSE "done"]
        /\ resp' = [r \in Reqs |-> IF r \in S THEN s ELSE resp[r]]
        /\ s \in {"ok", "err"}
    BY DEF Flushed, EndFlush, Send
  <2>3. Calls
    BY DEF GInv
  <2>4. \A r \in Reqs : caller'[r] = "new" => caller[r] = "new"
    BY <2>1, <2>2, <2>3 DEF Calls
  <2>5. caller' \in [Reqs -> {"new", "waiting", "leading", "done", "gone"}]
    BY <2>1, <2>2, <2>3 DEF Calls
  <2>6. resp' \in [Reqs -> {"none", "open", "ok", "refused", "err", "closed"}]
    BY <2>2, <2>3 DEF Calls
  <2> QED  BY <1>1, <2>3, <2>4, <2>5, <2>6 DEF Calls
<1>8. Ordered(log, prep, work, pending, arrived, stage)'
  <2>1. Ordered(log, <<>>, <<>>, pending', arrived, "free")
    BY DEF Flushed
  <2> QED  BY <1>1, <2>1
<1>9. Answered(ReqSet(log), Open, resp)'
  <2>1. Open' = Range(pending')
    <3>1. Open' = ReqSet(<<>>) \cup Range(<<>>) \cup Range(pending')
      BY <1>1 DEF Open
    <3> QED  BY <3>1, Nothing
  <2>2. Open \in SUBSET Reqs
    BY Places DEF GInv, Open
  <2>3. S \in SUBSET Open /\ Range(pending') \in SUBSET Open
    BY DEF Flushed, Open
  <2>4. s \in {"ok", "err"} /\ (s = "ok" => S \subseteq ReqSet(log))
    BY DEF Flushed
  <2>5. \A r \in S : r \notin Range(pending')
    BY DEF Flushed
  <2>6. Answered(ReqSet(log), Open, resp)
    BY DEF GInv
  <2>7. PICK V : V = Range(pending')
    OBVIOUS
  <2>8. Answered(ReqSet(log), V, resp')
    BY <1>6, <2>2, <2>3, <2>4, <2>5, <2>6, <2>7, AnswerSend
  <2>9. log' = log
    BY <1>1
  <2> QED  BY <2>1, <2>7, <2>8, <2>9
<1>10. Exact(log, prep, stage)'
  <2>1. Exact(log, <<>>, "free")
    BY ExactDrop DEF GInv
  <2> QED  BY <1>1, <2>1
<1> QED  BY <1>3, <1>4, <1>5, <1>7, <1>8, <1>9, <1>10 DEF GInv

LEMMA GRequeue ==
  ASSUME GInv, Requeue
  PROVE  GInv'
<1> USE DEF GInv
<1>1. /\ stage = "preparing" /\ pending' = work \o pending
      /\ UNCHANGED <<log, naming, arrived, up, bounds>>
  BY DEF Requeue, BackInFront
<1>2. /\ pending' \in Seq(Reqs)
      /\ Range(pending') = Range(work) \cup Range(pending)
      /\ Ordered(log, prep, <<>>, pending', arrived, "preparing")
  <2>1. work \in Seq(Reqs) /\ pending \in Seq(Reqs)
    BY DEF Queues
  <2>2. Ordered(log, prep, <<>>, work \o pending, arrived, "preparing")
    BY <1>1, <2>1, OrderRequeue
  <2> QED  BY <1>1, <2>1, <2>2, RangeConcat, SMTT(60)
<1>3. CASE prep = <<>>
  <2>1. EndFlush({}, "err")
    BY <1>3 DEF Requeue
  <2>2. leader # None /\ Range(pending') \subseteq Open
    BY <1>1, <1>2 DEF Control, Open
  <2>3. Ordered(log, <<>>, <<>>, pending', arrived, "free")
    BY <1>2, OrderDrop
  <2>4. /\ UNCHANGED <<log, arrived, naming, up, takeovers>>
        /\ faults' \in {faults, faults + 1} \cap 0 .. MaxFaults
    BY <1>1 DEF bounds, Control
  <2>5. Flushed({}, "err")
    BY <1>2, <2>1, <2>2, <2>3, <2>4 DEF Flushed
  <2> QED  BY <2>5, GEndFlush DEF GInv
<1>4. CASE prep # <<>>
  <2>1. /\ work' = <<>> /\ stage' \in {"naming", "appending"}
        /\ UNCHANGED <<leader, prep, minted, caller, resp>>
        /\ UNCHANGED <<log, arrived, up, faults, takeovers>>
        /\ UNCHANGED <<meta, interner, snap, stale>>
    BY <1>1, <1>4 DEF Requeue, bounds, naming
  <2>2. Queues'
    BY <1>2, <2>1, Nothing DEF Queues
  <2>3. Control'
    BY <1>1, <2>1 DEF Control, Stages
  <2>4. Flags'
    BY <2>1 DEF Flags
  <2>5. Calls'
    BY <2>1 DEF Calls
  <2>6. Ordered(log, prep, work, pending, arrived, stage)'
    <3>1. Ordered(log, prep, <<>>, pending', arrived, stage')
      BY <1>2, <2>1, OrderStage
    <3> QED  BY <2>1, <3>1
  <2>7. Open' = Open
    BY <1>2, <2>1, Nothing DEF Open
  <2>8. Answered(ReqSet(log), Open, resp)'
    BY <2>1, <2>7
  <2>9. Exact(log, prep, stage)'
    <3>1. Exact(log, prep, stage')
      BY <1>1, ExactStage
    <3> QED  BY <2>1, <3>1
  <2> QED  BY <2>2, <2>3, <2>4, <2>5, <2>6, <2>8, <2>9
<1> QED  BY <1>3, <1>4

(* The flush goes on: the lease is checked, the metadata root written. *)
LEMMA GNaming ==
  ASSUME GInv, CheckLease \/ WriteMeta
  PROVE  GInv'
<1> USE DEF GInv
<1>1. /\ stage \in {"naming", "checked"} /\ stage' \in {"checked", "appending"}
      /\ meta' \in {meta, interner}
      /\ UNCHANGED <<log, pending, leader, work, prep, minted, interner, snap, stale>>
      /\ UNCHANGED <<caller, resp, arrived, up, faults, takeovers>>
  BY DEF CheckLease, WriteMeta, naming, bounds
<1>2. Queues'
  BY <1>1 DEF Queues
<1>3. Control'
  BY <1>1 DEF Control, Stages
<1>4. Flags'
  BY <1>1 DEF Flags
<1>5. Calls'
  BY <1>1 DEF Calls
<1>6. Open' = Open
  BY <1>1 DEF Open
<1>7. Ordered(log, prep, work, pending, arrived, stage)'
  <2>1. Ordered(log, prep, work, pending, arrived, stage')
    BY <1>1, OrderStage
  <2> QED  BY <1>1, <2>1
<1>8. Exact(log, prep, stage)'
  <2>1. Exact(log, prep, stage')
    BY <1>1, ExactStage
  <2> QED  BY <1>1, <2>1
<1> QED  BY <1>1, <1>2, <1>3, <1>4, <1>5, <1>6, <1>7, <1>8

LEMMA GAppendBatch ==
  ASSUME GInv, AppendBatch
  PROVE  GInv'
<1> USE DEF GInv
<1>0. /\ stage = "appending" /\ stage' = "installed" /\ log' = log \o prep
      /\ UNCHANGED <<pending, leader, work, prep, minted, meta, interner, snap, stale>>
      /\ UNCHANGED <<caller, resp, arrived, up, faults, takeovers>>
  BY DEF AppendBatch, naming, bounds
<1>1. work = <<>> /\ log \in Seq(Record) /\ prep \in Seq(Record)
  BY <1>0 DEF Control, Queues
<1>2. log' \in Seq(Record) /\ ReqSet(log') = ReqSet(log) \cup ReqSet(prep)
  BY <1>0, <1>1, ReqsOfConcat
<1>3. Queues'
  BY <1>0, <1>2 DEF Queues
<1>4. Control'
  BY <1>0, <1>1 DEF Control, Stages
<1>5. Flags'
  BY <1>0 DEF Flags
<1>6. Calls' /\ Open' = Open
  BY <1>0 DEF Calls, Open
<1>7. Ordered(log, prep, work, pending, arrived, stage)'
  <2>1. Ordered(log \o prep, prep, <<>>, pending, arrived, "installed")
    BY <1>0, <1>1, OrderAppend
  <2> QED  BY <1>0, <1>1, <2>1
<1>8. Answered(ReqSet(log), Open, resp)'
  <2>1. ReqSet(prep) \subseteq Open
    BY DEF Open
  <2>2. Answered(ReqSet(log) \cup ReqSet(prep), Open, resp)
    BY <2>1, AnswerAppend
  <2> QED  BY <1>0, <1>2, <1>6, <2>2
<1>9. Exact(log, prep, stage)'
  <2>1. Exact(log \o prep, prep, "installed")
    BY <1>0, <1>1, ExactAppend
  <2> QED  BY <1>0, <2>1
<1> QED  BY <1>3, <1>4, <1>5, <1>6, <1>7, <1>8, <1>9

(* The batch is answered, or given up: before the append or after it. *)
LEMMA GAnswer ==
  ASSUME GInv, AbortBatch \/ AnswerBatch \/ FenceError
  PROVE  GInv'
<1> USE DEF GInv
<1>1. PICK s \in {"ok", "err"} :
        EndFlush(InPrep, s) /\ (s = "ok" => stage = "installed")
  <2>1. \/ EndFlush(InPrep, "ok") /\ stage = "installed"
        \/ EndFlush(InPrep, "err")
    BY DEF AbortBatch, AnswerBatch, FenceError
  <2> QED  BY <2>1
<1>2. /\ UNCHANGED <<log, arrived, naming, up, takeovers, pending>>
      /\ stage # "free"
      /\ faults' = faults \/ (faults < MaxFaults /\ faults' = faults + 1)
  BY DEF AbortBatch, AnswerBatch, FenceError, bounds, OneFault, naming
<1>3. faults' \in {faults, faults + 1} \cap 0 .. MaxFaults
  BY <1>2, GroupAssumption, SMTT(60) DEF Control
<1>4. leader # None /\ InPrep = ReqSet(prep)
  BY <1>2, Places DEF Control
<1>5. s = "ok" => ReqSet(prep) \subseteq ReqSet(log)
  BY <1>1 DEF Ordered
<1>6. /\ pending' \in Seq(Reqs) /\ Range(pending') \subseteq Open
      /\ \A r \in ReqSet(prep) : r \notin Range(pending')
  BY <1>2, Apart DEF Queues, Open
<1>7. Ordered(log, <<>>, <<>>, pending', arrived, "free")
  BY <1>2, OrderDrop
<1>8. Flushed(ReqSet(prep), s)
  BY <1>1, <1>2, <1>3, <1>4, <1>5, <1>6, <1>7 DEF Flushed
<1> QED  BY <1>8, GEndFlush DEF GInv

(* The hosted database is gone, with everything that had no answer. *)
Unhosted ==
  /\ Unhost /\ UNCHANGED <<log, arrived>>
  /\ meta' \in Seq(Keywords) /\ interner' \in Seq(Keywords)
  /\ snap' \in Seq(Keywords) \cup {None} /\ stale' \in Seq(Keywords) \cup {None}
  /\ faults' \in 0 .. MaxFaults /\ takeovers' \in 0 .. MaxTakeovers
  /\ snap' # None => takeovers' < MaxTakeovers
  /\ up' \in BOOLEAN

LEMMA GUnhost ==
  ASSUME GInv, Unhosted
  PROVE  GInv'
<1>1. /\ pending' = <<>> /\ leader' = None /\ stage' = "free"
      /\ work' = <<>> /\ prep' = <<>> /\ minted' = FALSE
      /\ log' = log /\ arrived' = arrived
  BY DEF Unhosted, Unhost
<1>2. Queues'
  <2>1. Queues
    BY DEF GInv
  <2>2. <<>> \in Seq(Reqs) /\ <<>> \in Seq(Record) /\ Len(<<>>) <= MaxBatch
    BY GroupAssumption, SMTT(60)
  <2> QED  BY <1>1, <2>1, <2>2 DEF Queues, Unhosted
<1>3. Control'
  BY <1>1 DEF Control, Stages, Unhosted
<1>4. Flags'
  <2>1. up' \in BOOLEAN
    BY DEF Unhosted
  <2> QED  BY <1>1, <2>1 DEF Flags
<1>5. Calls'
  <2>1. /\ caller' = [r \in Reqs |-> IF caller[r] \in {"waiting", "leading"}
                                       THEN "gone" ELSE caller[r]]
        /\ resp' = [r \in Reqs |-> IF resp[r] = "open" THEN "closed" ELSE resp[r]]
    BY DEF Unhosted, Unhost
  <2>2. Calls
    BY DEF GInv
  <2> QED  BY <1>1, <2>1, <2>2 DEF Calls
<1>6. Ordered(log, prep, work, pending, arrived, stage)'
  <2>1. Ordered(log, <<>>, <<>>, <<>>, arrived, "free")
    BY OrderDrop DEF GInv
  <2> QED  BY <1>1, <2>1
<1>7. Answered(ReqSet(log), Open, resp)'
  <2>1. \A r \in Reqs : resp'[r] = IF resp[r] = "open" THEN "closed" ELSE resp[r]
    BY DEF Unhosted, Unhost
  <2>2. Open' = {}
    <3>1. Open' = ReqSet(<<>>) \cup Range(<<>>) \cup Range(<<>>)
      BY <1>1 DEF Open
    <3> QED  BY <3>1, Nothing
  <2>3. Answered(ReqSet(log), {}, resp')
    <3>1. Answered(ReqSet(log), Open, resp)
      BY DEF GInv
    <3> QED  BY <2>1, <3>1, AnswerClose
  <2>4. log' = log
    BY <1>1
  <2> QED  BY <2>2, <2>3, <2>4
<1>8. Exact(log, prep, stage)'
  <2>1. Exact(log, <<>>, "free")
    BY ExactDrop DEF GInv
  <2> QED  BY <1>1, <2>1
<1> QED  BY <1>2, <1>3, <1>4, <1>5, <1>6, <1>7, <1>8 DEF GInv

LEMMA GCrash ==
  ASSUME GInv, Crash
  PROVE  GInv'
<1>1. /\ Unhost /\ UNCHANGED <<log, arrived, meta, interner, snap, stale, takeovers>>
      /\ up' = FALSE /\ faults < MaxFaults /\ faults' = faults + 1
  BY DEF Crash, OneFault, naming
<1>2. /\ faults' \in 0 .. MaxFaults /\ takeovers' \in 0 .. MaxTakeovers
      /\ snap' # None => takeovers' < MaxTakeovers
  BY <1>1, GroupAssumption, SMTT(60) DEF GInv, Control
<1>3. up' \in BOOLEAN
  BY <1>1
<1>4. /\ meta' \in Seq(Keywords) /\ interner' \in Seq(Keywords)
      /\ snap' \in Seq(Keywords) \cup {None} /\ stale' \in Seq(Keywords) \cup {None}
  BY <1>1 DEF GInv, Queues
<1>5. Unhosted
  <2>1. Unhost /\ UNCHANGED <<log, arrived>>
    BY <1>1
  <2> QED  BY <2>1, <1>2, <1>3, <1>4 DEF Unhosted
<1> QED  BY <1>5, GUnhost

LEMMA GTakeOver ==
  ASSUME GInv, TakeOver
  PROVE  GInv'
<1>1. /\ Unhost /\ UNCHANGED <<log, arrived, meta, faults>>
      /\ snap # None /\ takeovers' = takeovers + 1 /\ interner' = snap /\ snap' = None
      /\ stale' \in {interner, stale} /\ up' = TRUE
  BY DEF TakeOver
<1>2. /\ faults' \in 0 .. MaxFaults /\ takeovers' \in 0 .. MaxTakeovers
      /\ snap' # None => takeovers' < MaxTakeovers
  BY <1>1, GroupAssumption, SMTT(60) DEF GInv, Control
<1>3. up' \in BOOLEAN
  BY <1>1
<1>4. /\ meta' \in Seq(Keywords) /\ interner' \in Seq(Keywords)
      /\ snap' \in Seq(Keywords) \cup {None} /\ stale' \in Seq(Keywords) \cup {None}
  BY <1>1 DEF GInv, Queues
<1>5. Unhosted
  <2>1. Unhost /\ UNCHANGED <<log, arrived>>
    BY <1>1
  <2> QED  BY <2>1, <1>2, <1>3, <1>4 DEF Unhosted
<1> QED  BY <1>5, GUnhost

(* Reads and writes of the metadata root by others. *)
LEMMA GMeta ==
  ASSUME GInv, ReadMeta \/ StaleWrite
  PROVE  GInv'
<1> USE DEF GInv
<1>1. /\ UNCHANGED <<log, pending, leader, stage, work, prep, minted, interner>>
      /\ UNCHANGED <<caller, resp, arrived, up, faults, takeovers>>
      /\ snap' = snap \/ (snap' = meta /\ takeovers < MaxTakeovers)
      /\ meta' = meta \/ (stale # None /\ meta' = stale)
      /\ stale' \in {stale, None}
  <2>1. CASE ReadMeta
    BY <2>1 DEF ReadMeta, flush, bounds
  <2>2. CASE StaleWrite
    BY <2>2 DEF StaleWrite, flush, bounds
  <2> QED  BY <2>1, <2>2
<1>2. Queues'
  BY <1>1 DEF Queues
<1>3. Control' /\ Open' = Open
  BY <1>1 DEF Control, Open
<1>4. Flags'
  BY <1>1 DEF Flags
<1>5. Calls'
  BY <1>1 DEF Calls
<1> QED  BY <1>1, <1>2, <1>3, <1>4, <1>5

LEMMA GInvNext == GInv /\ [Next]_vars => GInv'
<1> SUFFICES ASSUME GInv, [Next]_vars PROVE GInv'
  OBVIOUS
<1>1. ASSUME NEW r \in Reqs,
             \/ Submit(r) \/ Collect(r) \/ Lead(r) \/ LeadRefused(r) \/ Cancel(r)
             \/ BasisMismatch(r) \/ Reject(r) \/ Prepare(r)
      PROVE  GInv'
  BY <1>1, GSubmit, GCollect, GLead, GLeadRefused, GCancel, GBasisMismatch,
     GReject, GPrepare
<1>2. CASE UNCHANGED vars
  BY <1>2 DEF vars, GInv, Queues, Control, Flags, Calls, Open
<1>3. ASSUME \/ Requeue \/ CheckLease \/ WriteMeta \/ AbortBatch
             \/ AppendBatch \/ AnswerBatch \/ FenceError
             \/ Crash \/ ReadMeta \/ TakeOver \/ StaleWrite
      PROVE  GInv'
  BY <1>3, GRequeue, GNaming, GAnswer, GAppendBatch, GCrash, GMeta, GTakeOver
<1> QED  BY <1>1, <1>2, <1>3 DEF Next

(***************************************************************************)
(* The flush keeps GInv in every reachable state: its queues are typed and *)
(* in arrival order, its answers true, its conditional records exact.      *)
(***************************************************************************)
THEOREM GroupInvariant == Spec => []GInv
BY GInvInit, GInvNext, PTL DEF Spec

-----------------------------------------------------------------------------
(***************************************************************************)
(* However requests are drained, split into batches, put back and dropped  *)
(* with their leader, the log holds them once each and in the order they   *)
(* were queued (flush_commit_batch).                                       *)
(***************************************************************************)
THEOREM BatchingInvisible == Spec => []CommitsInArrivalOrder
<1>1. GInv => CommitsInArrivalOrder
  <2> SUFFICES ASSUME GInv, NEW i \in DOMAIN log, NEW j \in DOMAIN log, i < j
               PROVE  \E a, b \in DOMAIN arrived :
                        a < b /\ arrived[a] = log[i].req /\ arrived[b] = log[j].req
    BY DEF CommitsInArrivalOrder
  <2>1. Before(arrived, ReqsOf(log)[i], ReqsOf(log)[j])
    <3>1. Sorted(arrived, ReqsOf(log))
      BY DEF GInv, Ordered
    <3>2. DOMAIN ReqsOf(log) = DOMAIN log
      BY DEF ReqsOf
    <3> QED  BY <3>1, <3>2 DEF Sorted
  <2>2. ReqsOf(log)[i] = log[i].req /\ ReqsOf(log)[j] = log[j].req
    BY DEF ReqsOf
  <2> QED  BY <2>1, <2>2 DEF Before
<1> QED  BY <1>1, GroupInvariant, PTL

(***************************************************************************)
(* A request answered Ok is in the log and one that was refused before     *)
(* preparation never is, whoever answered it and whatever was dropped or   *)
(* failed in between.                                                      *)
(***************************************************************************)
THEOREM AnswersAlwaysTrue == Spec => []AnswersTrue
<1>1. GInv => TypeOK
  <2> SUFFICES ASSUME GInv PROVE TypeOK
    OBVIOUS
  <2>1. IsRecordSeq(log) /\ IsRecordSeq(prep) /\ Len(prep) <= MaxBatch
    <3>1. ASSUME NEW q \in Seq(Record) PROVE IsRecordSeq(q)
      <4>1. \A i \in DOMAIN q : q[i] \in Record
        BY SMTT(60)
      <4> QED  BY <4>1 DEF IsRecordSeq, Record
    <3>2. log \in Seq(Record) /\ prep \in Seq(Record) /\ Len(prep) <= MaxBatch
      BY DEF GInv, Queues
    <3> QED  BY <3>1, <3>2
  <2>2. /\ Range(meta) \subseteq Keywords /\ Range(interner) \subseteq Keywords
        /\ Range(pending) \cup Range(work) \cup Range(arrived) \subseteq Reqs
    <3>1. ASSUME NEW T, NEW q \in Seq(T) PROVE Range(q) \subseteq T
      <4>1. \A i \in DOMAIN q : q[i] \in T
        BY SMTT(60)
      <4> QED  BY <4>1 DEF Range
    <3>2. Queues
      BY DEF GInv
    <3>3. Range(meta) \subseteq Keywords /\ Range(interner) \subseteq Keywords
      BY <3>1, <3>2 DEF Queues
    <3>4. /\ Range(pending) \subseteq Reqs /\ Range(work) \subseteq Reqs
          /\ Range(arrived) \subseteq Reqs
      BY <3>1, <3>2 DEF Queues
    <3> QED  BY <3>3, <3>4
  <2>3. /\ leader \in Reqs \cup {None} /\ stage \in Stages
        /\ leader = None <=> stage = "free"
        /\ faults \in 0 .. MaxFaults /\ takeovers \in 0 .. MaxTakeovers
    BY DEF GInv, Control
  <2>4. minted \in BOOLEAN /\ up \in BOOLEAN
    BY DEF GInv, Flags
  <2>5. /\ caller \in [Reqs -> {"new", "waiting", "leading", "done", "gone"}]
        /\ resp \in [Reqs -> {"none", "open", "ok", "refused", "err", "closed"}]
    BY DEF GInv, Calls
  <2> QED  BY <2>1, <2>2, <2>3, <2>4, <2>5 DEF TypeOK
<1>2. GInv => AnswersTrue
  <2> SUFFICES ASSUME GInv PROVE AnswersTrue
    OBVIOUS
  <2>1. /\ \A r \in Reqs : resp[r] = "ok" => r \in ReqSet(log)
        /\ \A r \in Reqs : resp[r] = "refused" => r \notin ReqSet(log)
    BY DEF GInv, Answered
  <2> QED  BY <1>1, <2>1 DEF ReqSet, AnswersTrue
<1> QED  BY <1>2, GroupInvariant, PTL

(***************************************************************************)
(* A transaction with an expected basis commits directly on that basis,    *)
(* also behind other requests of its own batch (CursorBasis).              *)
(***************************************************************************)
THEOREM ConditionalAlwaysExact == Spec => []ConditionalExact
<1>1. GInv => ConditionalExact
  BY DEF GInv, Exact, ConditionalExact
<1> QED  BY <1>1, GroupInvariant, PTL

=============================================================================
