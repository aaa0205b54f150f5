-------------------------- MODULE RpcClientProofs ---------------------------
(***************************************************************************)
(* Theorems about RpcClient, for any lengths of CALL and REPLY and any     *)
(* number of transaction ids, as long as no signal interrupts send() and   *)
(* recv() (Interrupts = FALSE; the run rpc_stale shows what happens        *)
(* otherwise).                                                             *)
(***************************************************************************)
EXTENDS RpcClient, SequenceTheorems, TLAPS

\* Whatever may be in transit.
Units ==
    [kind : {"mark"}, last : BOOLEAN, len : Nat, part : Nat]
        \cup [kind : {"call"}, xid : Nat, auth : {"none", "sys"}, pos : Nat]
        \cup [kind : {"reply"}, xid : Nat, stat : {"ok", "denied"}, pos : Nat]

\* The units a+1 to b of s.
Seg(s, a, b) == SubSeq(s, a + 1, b)

\* There are such units.
Within(s, a, b) == s \in Seq(Units) /\ a \in Nat /\ b \in Nat /\ a <= b /\ b <= Len(s)

\* Sequences of m and n units.
Streams(s, m, t, n) == s \in Seq(Units) /\ Len(s) = m /\ t \in Seq(Units) /\ Len(t) = n

\* Sequence u is the m units of s and then the n units of t.
Joins(u, s, m, t, n) ==
    /\ u \in Seq(Units) /\ Len(u) = m + n
    /\ \A i \in 1..m : u[i] = s[i]
    /\ \A i \in 1..n : u[m + i] = t[i]

\* The n units of s behind the first a are those of t behind the first c.
Agree(s, a, t, c, n) == \A i \in 1..n : s[a + i] = t[c + i]

\* The CALL on the wire, and its length.
CallOf(x, a) ==
    Mark(TRUE, ReqLen) \o [i \in 1..ReqLen |-> [kind |-> "call", xid |-> x, auth |-> a, pos |-> i]]
Msg    == CallOf(xid, auth)
MsgLen == MarkLen + ReqLen

\* A REPLY on the wire: the stream, and where its fragments are in it (the units in
\* front of the mark, the units of data, the units of the record in front of these).
Fragment(base, len, before) == [base |-> base, len |-> len, before |-> before]
Sendings(r) ==
    {[stream |-> Mark(TRUE, RepLen) \o r, frags |-> {Fragment(0, RepLen, 0)}]} \cup
    {[stream |-> Mark(FALSE, k) \o Front(r, k) \o Mark(TRUE, RepLen - k) \o Rest(r, k),
      frags  |-> {Fragment(0, k, 0), Fragment(MarkLen + k, RepLen - k, k)}] : k \in 0..RepLen}

\* Where a fragment ends, and whether it is the last one.
EndOf(f)     == f.base + MarkLen + f.len
IsLast(s, f) == EndOf(f) = Len(s)

\* Fragment f of stream s holds its part of record r, behind a mark that says so, and
\* unless it is the last one another fragment of F goes on where it ends.
Holds(s, F, r, f) ==
    /\ f.base \in Nat /\ f.len \in 0..RepLen /\ f.before \in Nat
    /\ f.before + f.len <= RepLen /\ EndOf(f) <= Len(s)
    /\ Agree(s, f.base + MarkLen, r, f.before, f.len)
    /\ IsLast(s, f) => /\ Seg(s, f.base, f.base + MarkLen) = Mark(TRUE, f.len)
                       /\ f.before + f.len = RepLen
    /\ ~IsLast(s, f) => /\ Seg(s, f.base, f.base + MarkLen) = Mark(FALSE, f.len)
                        /\ \E g \in F : g.base = EndOf(f) /\ g.before = f.before + f.len

Carries(s, F, r) ==
    /\ s \in Seq(Units)
    /\ Len(s) <= 2 * MarkLen + RepLen
    /\ \E f \in F : f.base = 0 /\ f.before = 0
    /\ \A f \in F : Holds(s, F, r, f)

\* recvRecord has read nothing yet.
Fresh == buf = <<>> /\ left = 0 /\ last_fragment = FALSE /\ record = <<>>

\* Nothing is on its way to the server, but a request that was there when the
\* connection broke may wait for it; the call in progress has not been executed then.
AtPeer == up = <<>> \/ (peer = "closed" /\ runs = 0 /\ Len(up) <= MsgLen)

\* Nothing else is under way.
Quiet == AtPeer /\ down = <<>> /\ work = Nothing

\* recvRecord has read p units of stream s and is in fragment f of it; what it has
\* read and is about to read is told by p, and the units up to q will still come.
ReadTo(r, s, f, p, q) ==
    /\ p <= q /\ q <= Len(s)
    /\ peer = "open" => q = Len(s)
    /\ down = Seg(s, p, q)
    /\ \/ /\ pc = "mark"
          /\ f.base <= p /\ p < f.base + MarkLen
          /\ buf = Seg(s, f.base, p)
          /\ left = 0 /\ last_fragment = FALSE
          /\ record = Seg(r, 0, f.before)
       \/ /\ pc = "data"
          /\ f.base + MarkLen <= p /\ p < EndOf(f)
          /\ buf = <<>>
          /\ left = EndOf(f) - p
          /\ last_fragment <=> IsLast(s, f)
          /\ record = Seg(r, 0, f.before + (p - f.base - MarkLen))
       \/ /\ pc = "parse"
          /\ p = Len(s)
          /\ buf = <<>> /\ left = 0 /\ last_fragment
          /\ record = r

\* The call is being sent, or was when the process ended; the request is at the server;
\* its reply is ready; the connection broke before the reply; the reply is being read.
Sending ==
    /\ pc \in {"send", "killed"} /\ Fresh /\ down = <<>> /\ work = Nothing
    /\ pc = "killed" => peer = "closed"
    /\ \E n \in 0..(MsgLen - 1) :
          /\ out = Seg(Msg, n, MsgLen)
          /\ peer = "open" => up = Seg(Msg, 0, n) /\ runs = 0
    /\ peer = "closed" => AtPeer
Asked    == pc = "mark" /\ Fresh /\ peer = "open" /\ down = <<>> /\ work = Nothing
                        /\ up = Msg /\ runs = 0
Executed == pc = "mark" /\ Fresh /\ peer = "open" /\ down = <<>> /\ up = <<>>
                        /\ \E st \in {"ok", "denied"} :
                              work = [xid |-> xid, stat |-> st] /\ (st = "ok" => runs = 1)
Lost     == pc = "mark" /\ Fresh /\ peer = "closed" /\ Quiet
Reading  ==
    /\ up = <<>> /\ work = Nothing
    /\ \E st \in {"ok", "denied"} :
          /\ st = "ok" => runs = 1
          /\ \E d \in Sendings(Reply(xid, st)) : \E f \in d.frags :
                \E p, q \in 0..Len(d.stream) : ReadTo(Reply(xid, st), d.stream, f, p, q)

\* The types of what is not a buffer.
Scalars ==
    /\ pc \in {"new", "idle", "send", "mark", "data", "parse", "gone", "killed"}
    /\ xid \in 0..W-1
    /\ auth \in {"none", "sys"}
    /\ res \in {NoResult, Thrown} \cup {Result(x) : x \in 0..W-1}
    /\ last_fragment \in BOOLEAN
    /\ peer \in {"open", "closed"}
    /\ runs \in 0..1

\* The inductive invariant.
CallInv ==
    /\ Scalars
    /\ \/ /\ pc \in {"new", "idle", "gone"} /\ Fresh /\ Quiet /\ out = <<>>
          /\ pc = "new" => up = <<>>
       \/ Sending
       \/ out = <<>> /\ (Asked \/ Executed \/ Lost \/ Reading)

-----------------------------------------------------------------------------
(* Segments of sequences.                                                  *)

\* A segment is a sequence of its length.
LEMMA SegIsSeq ==
    ASSUME NEW s, NEW a, NEW b, Within(s, a, b)
    PROVE  Seg(s, a, b) \in Seq(Units) /\ Len(Seg(s, a, b)) = b - a
<1>1. \A i \in (a + 1)..b : s[i] \in Units
  BY ElementOfSeq, LenProperties DEF Within
<1> QED BY <1>1, SubSeqProperties DEF Seg, Within

\* Its elements are those of the sequence.
LEMMA SegAt ==
    ASSUME NEW s, NEW a, NEW b, Within(s, a, b), NEW i \in Int, 1 <= i, i <= b - a
    PROVE  Seg(s, a, b)[i] = s[a + i]
<1>1. \A j \in (a + 1)..b : s[j] \in Units
  BY ElementOfSeq, LenProperties DEF Within
<1>2. i \in 1..(b - (a + 1) + 1) /\ (a + 1) + i - 1 = a + i
  BY DEF Within
<1> QED BY <1>1, <1>2, SubSeqProperties DEF Seg, Within

\* The empty segments and the whole sequence.
LEMMA SegEmpty ==
    ASSUME NEW s, NEW a \in Nat
    PROVE  Seg(s, a, a) = <<>>
BY SubSeqEmpty DEF Seg

LEMMA SegAll ==
    ASSUME NEW s \in Seq(Units)
    PROVE  Seg(s, 0, Len(s)) = s
BY SubSeqFull DEF Seg

\* What send() and recv() take from a segment, and what they leave.
LEMMA SegSplit ==
    ASSUME NEW s, NEW a, NEW b, NEW c, Within(s, a, c), Within(s, c, b), NEW n, n = c - a
    PROVE  /\ Front(Seg(s, a, b), n) = Seg(s, a, c)
           /\ Rest(Seg(s, a, b), n) = Seg(s, c, b)
<1>1. PICK l : l = b - a
  OBVIOUS
<1> DEFINE t == Seg(s, a, b)
<1>2. /\ a \in Nat /\ b \in Nat /\ c \in Nat /\ l \in Nat /\ n \in Nat
      /\ n <= l /\ b - c = l - n
  BY <1>1 DEF Within
<1>3. Within(s, a, b)
  BY DEF Within
<1>4. t \in Seq(Units) /\ Len(t) = l
  BY <1>1, <1>3, SegIsSeq
<1> HIDE DEF t
<1>5. Within(t, 0, n) /\ Within(t, n, l)
  BY <1>2, <1>4 DEF Within
<1>6. Seg(t, 0, n) = Seg(s, a, c)
  <2>1. Seg(t, 0, n) \in Seq(Units) /\ Len(Seg(t, 0, n)) = n
    <3>1. Seg(t, 0, n) \in Seq(Units) /\ Len(Seg(t, 0, n)) = n - 0
      BY <1>5, SegIsSeq
    <3> QED BY <1>2, <3>1
  <2>2. Seg(s, a, c) \in Seq(Units) /\ Len(Seg(s, a, c)) = n
    BY SegIsSeq
  <2>3. ASSUME NEW i \in 1..n PROVE Seg(t, 0, n)[i] = Seg(s, a, c)[i]
    <3>1. Seg(t, 0, n)[i] = t[0 + i]
      BY <1>2, <1>5, SegAt
    <3>2. t[i] = s[a + i]
      BY <1>1, <1>2, <1>3, SegAt DEF t
    <3>3. Seg(s, a, c)[i] = s[a + i]
      BY <1>2, SegAt
    <3> QED BY <3>1, <3>2, <3>3
  <2> QED BY <2>1, <2>2, <2>3, SeqEqual
<1>7. Seg(t, n, l) = Seg(s, c, b)
  <2>1. Seg(t, n, l) \in Seq(Units) /\ Len(Seg(t, n, l)) = l - n
    BY <1>5, SegIsSeq
  <2>2. Seg(s, c, b) \in Seq(Units) /\ Len(Seg(s, c, b)) = l - n
    BY <1>2, SegIsSeq
  <2>3. ASSUME NEW i \in 1..(l - n) PROVE Seg(t, n, l)[i] = Seg(s, c, b)[i]
    <3>1. Seg(t, n, l)[i] = t[n + i]
      BY <1>2, <1>5, SegAt
    <3>2. PICK j \in 1..l : j = n + i
      BY <1>2
    <3>3. t[j] = s[a + j]
      BY <1>1, <1>2, <1>3, SegAt DEF t
    <3>4. Seg(s, c, b)[i] = s[c + i]
      BY <1>2, SegAt
    <3>5. a + j = c + i
      BY <1>2, <3>2
    <3> QED BY <3>1, <3>2, <3>3, <3>4, <3>5
  <2> QED BY <2>1, <2>2, <2>3, SeqEqual
<1>8. Front(t, n) = Seg(t, 0, n) /\ Rest(t, n) = Seg(t, n, l)
  BY <1>4 DEF Front, Rest, Seg
<1> QED BY <1>6, <1>7, <1>8 DEF t

\* Adjacent segments make one.
LEMMA SegJoin ==
    ASSUME NEW s, NEW a, NEW b, NEW c, Within(s, a, b), Within(s, b, c)
    PROVE  Seg(s, a, b) \o Seg(s, b, c) = Seg(s, a, c)
<1>1. /\ a + 1 \in 1..Len(s) + 1 /\ b \in (a + 1) - 1..Len(s) /\ c \in b..Len(s)
      /\ s \in Seq(Units)
  BY LenProperties DEF Within
<1> QED BY <1>1, ConcatAdjacentSubSeq DEF Seg

\* Segments with the same elements are the same.
LEMMA SegSame ==
    ASSUME NEW s, NEW a, NEW b, Within(s, a, b), NEW t, NEW c, NEW d, Within(t, c, d),
           b - a = d - c, Agree(s, a, t, c, b - a)
    PROVE  Seg(s, a, b) = Seg(t, c, d)
<1>1. Seg(s, a, b) \in Seq(Units) /\ Len(Seg(s, a, b)) = b - a
  BY SegIsSeq
<1>2. Seg(t, c, d) \in Seq(Units) /\ Len(Seg(t, c, d)) = b - a
  BY SegIsSeq
<1>3. b - a \in Nat
  BY DEF Within
<1>4. ASSUME NEW i \in 1..(b - a) PROVE Seg(s, a, b)[i] = Seg(t, c, d)[i]
  <2>1. Seg(s, a, b)[i] = s[a + i]
    BY <1>3, SegAt
  <2>2. Seg(t, c, d)[i] = t[c + i]
    BY <1>3, SegAt
  <2> QED BY <2>1, <2>2 DEF Agree
<1> QED BY <1>1, <1>2, <1>4, SeqEqual

\* A function on 1..n is a sequence.
LEMMA IsStream ==
    ASSUME NEW n \in Nat, NEW s \in [1..n -> Units]
    PROVE  s \in Seq(Units) /\ Len(s) = n
<1>1. s \in Seq(Units)
  BY SeqDef
<1> QED BY <1>1, LenProperties

\* What is behind a prefix.
LEMMA Joining ==
    ASSUME NEW s, NEW m, NEW t, NEW n, Streams(s, m, t, n)
    PROVE  Joins(s \o t, s, m, t, n)
<1> USE DEF Streams
<1>1. Len(s) \in Nat /\ Len(t) \in Nat
  BY LenProperties
<1>2. ASSUME NEW i \in 1..Len(t) PROVE (s \o t)[Len(s) + i] = t[i]
  <2>1. PICK j \in 1..(Len(s) + Len(t)) : j = Len(s) + i
    BY <1>1
  <2>2. ~(j <= Len(s)) /\ j - Len(s) = i
    BY <1>1, <2>1
  <2> QED BY <2>1, <2>2, ConcatProperties
<1>3. ASSUME NEW i \in 1..Len(s) PROVE (s \o t)[i] = s[i]
  <2>1. i \in 1..(Len(s) + Len(t)) /\ i <= Len(s)
    BY <1>1
  <2> QED BY <2>1, ConcatProperties
<1>4. s \o t \in Seq(Units) /\ Len(s \o t) = Len(s) + Len(t)
  BY ConcatProperties
<1>5. Joins(s \o t, s, Len(s), t, Len(t))
  BY <1>2, <1>3, <1>4 DEF Joins
<1> QED BY <1>5

-----------------------------------------------------------------------------
(* Messages.                                                               *)

LEMMA MarkFacts ==
    ASSUME NEW l \in BOOLEAN, NEW n \in Nat
    PROVE  /\ Mark(l, n) \in Seq(Units) /\ Len(Mark(l, n)) = MarkLen
           /\ Mark(l, n)[1].last = l /\ Mark(l, n)[1].len = n
<1>1. MarkLen = 2 /\ MarkLen \in Nat
  BY DEF MarkLen
<1>2. \A i \in 1..MarkLen : [kind |-> "mark", last |-> l, len |-> n, part |-> i] \in Units
  BY <1>1 DEF Units
<1>3. Mark(l, n) \in [1..MarkLen -> Units]
  BY <1>1, <1>2 DEF Mark
<1>4. Mark(l, n)[1] = [kind |-> "mark", last |-> l, len |-> n, part |-> 1]
  BY <1>1 DEF Mark
<1>5. Mark(l, n)[1].last = l
  BY <1>4
<1>6. Mark(l, n)[1].len = n
  BY <1>4
<1>7. Mark(l, n) \in Seq(Units) /\ Len(Mark(l, n)) = MarkLen
  BY <1>1, <1>3, IsStream
<1> QED BY <1>5, <1>6, <1>7, Zenon

\* A mark says one thing.
LEMMA MarkInjective ==
    ASSUME NEW l \in BOOLEAN, NEW n \in Nat, NEW l2 \in BOOLEAN, NEW n2 \in Nat,
           Mark(l, n) = Mark(l2, n2)
    PROVE  l = l2 /\ n = n2
<1>1. Mark(l, n)[1].last = l /\ Mark(l, n)[1].len = n
  BY MarkFacts, Zenon
<1>2. Mark(l2, n2)[1].last = l2 /\ Mark(l2, n2)[1].len = n2
  BY MarkFacts, Zenon
<1> QED BY <1>1, <1>2, Zenon

LEMMA ReplyFacts ==
    ASSUME NEW x \in 0..W-1, NEW st \in {"ok", "denied"}
    PROVE  /\ Reply(x, st) \in Seq(Units) /\ Len(Reply(x, st)) = RepLen
           /\ Reply(x, st)[1].kind = "reply" /\ Reply(x, st)[1].xid = x
           /\ Reply(x, st)[1].stat = st
<1>1. RepLen \in Nat /\ 1 \in 1..RepLen
  BY LenAssumption
<1>2. \A i \in 1..RepLen :
         [kind |-> "reply", xid |-> x, stat |-> st, pos |-> i] \in Units
  BY <1>1, WAssumption DEF Units
<1>3. Reply(x, st) \in [1..RepLen -> Units]
  BY <1>2 DEF Reply
<1>4. Reply(x, st)[1] = [kind |-> "reply", xid |-> x, stat |-> st, pos |-> 1]
  BY <1>1 DEF Reply
<1> QED BY <1>1, <1>3, <1>4, IsStream

\* The CALL: a mark with its length, and its data.
LEMMA CallFacts ==
    ASSUME NEW x \in 0..W-1, NEW a \in {"none", "sys"}
    PROVE  /\ CallOf(x, a) \in Seq(Units) /\ Len(CallOf(x, a)) = MsgLen
           /\ MsgLen \in Nat /\ MsgLen > MarkLen
           /\ Front(CallOf(x, a), MarkLen) = Mark(TRUE, ReqLen)
           /\ \A i \in 1..ReqLen :
                 CallOf(x, a)[MarkLen + i] = [kind |-> "call", xid |-> x, auth |-> a, pos |-> i]
<1>1. ReqLen \in Nat \ {0} /\ MarkLen = 2
  BY LenAssumption DEF MarkLen
<1> DEFINE m == Mark(TRUE, ReqLen)
           r == [i \in 1..ReqLen |-> [kind |-> "call", xid |-> x, auth |-> a, pos |-> i]]
<1>2. m \in Seq(Units) /\ Len(m) = MarkLen
  BY <1>1, MarkFacts
<1>3. /\ r \in Seq(Units) /\ Len(r) = ReqLen
      /\ \A i \in 1..ReqLen : r[i] = [kind |-> "call", xid |-> x, auth |-> a, pos |-> i]
  <2>1. \A i \in 1..ReqLen : [kind |-> "call", xid |-> x, auth |-> a, pos |-> i] \in Units
    BY <1>1, WAssumption DEF Units
  <2>2. r \in [1..ReqLen -> Units]
    BY <2>1
  <2> QED BY <1>1, <2>2, IsStream
<1>4. CallOf(x, a) = m \o r
  BY DEF CallOf
<1> HIDE DEF m, r
<1>5. /\ m \o r \in Seq(Units) /\ Len(m \o r) = MarkLen + ReqLen
      /\ \A i \in 1..MarkLen : (m \o r)[i] = m[i]
      /\ \A i \in 1..ReqLen : (m \o r)[MarkLen + i] = r[i]
  <2>1. Streams(m, MarkLen, r, ReqLen)
    BY <1>2, <1>3 DEF Streams
  <2>2. Joins(m \o r, m, MarkLen, r, ReqLen)
    BY <2>1, Joining
  <2> QED BY <2>2 DEF Joins
<1>6. Front(m \o r, MarkLen) = m
  <2>1. 1 \in 1..Len(m) /\ MarkLen \in 1..Len(m)
    BY <1>1, <1>2
  <2>2. SubSeq(m \o r, 1, MarkLen) = SubSeq(m, 1, MarkLen)
    BY <1>2, <1>3, <2>1, SubSeqOfConcat1
  <2>3. SubSeq(m, 1, MarkLen) = m
    BY <1>2, SubSeqFull
  <2> QED BY <2>2, <2>3 DEF Front
<1>7. /\ CallOf(x, a) \in Seq(Units) /\ Len(CallOf(x, a)) = MsgLen
      /\ MsgLen \in Nat /\ MsgLen > MarkLen
  BY <1>1, <1>4, <1>5 DEF MsgLen
<1>8. Front(CallOf(x, a), MarkLen) = Mark(TRUE, ReqLen)
  BY <1>4, <1>6 DEF m
<1>9. \A i \in 1..ReqLen :
         CallOf(x, a)[MarkLen + i] = [kind |-> "call", xid |-> x, auth |-> a, pos |-> i]
  BY <1>3, <1>4, <1>5
<1> QED BY <1>7, <1>8, <1>9

\* The CALL that call() puts on the wire.
LEMMA CallIsMarked ==
    ASSUME NEW x
    PROVE  addRecordMark(Request(x)) = CallOf(x, auth)
<1>1. Request(x) = [i \in 1..ReqLen |-> [kind |-> "call", xid |-> x, auth |-> auth, pos |-> i]]
  BY DEF Request
<1>2. Len(Request(x)) = ReqLen
  BY <1>1, LenAssumption
<1> QED BY <1>1, <1>2, Zenon DEF addRecordMark, CallOf

\* A segment at the place of the elements of a whole sequence is that sequence.
LEMMA SegIs ==
    ASSUME NEW s, NEW a, NEW b, Within(s, a, b), NEW t \in Seq(Units), Len(t) = b - a,
           Agree(s, a, t, 0, b - a)
    PROVE  Seg(s, a, b) = t
<1>1. Len(t) \in Nat
  BY LenProperties
<1>2. PICK n \in Nat : n = Len(t)
  BY <1>1
<1>3. Within(t, 0, n)
  BY <1>2 DEF Within
<1>4. b - a = n - 0 /\ Seg(t, 0, n) = t
  BY <1>2, SegAll
<1>5. Seg(s, a, b) = Seg(t, 0, n)
  BY <1>3, <1>4, SegSame
<1> QED BY <1>4, <1>5

\* Either way of sending a reply carries it.
LEMMA SendingsCarry ==
    ASSUME NEW r \in Seq(Units), Len(r) = RepLen, NEW d \in Sendings(r)
    PROVE  Carries(d.stream, d.frags, r)
<1>0. MarkLen = 2 /\ RepLen \in Nat /\ TRUE \in BOOLEAN /\ FALSE \in BOOLEAN
  BY LenAssumption DEF MarkLen
<1>1. CASE d = [stream |-> Mark(TRUE, RepLen) \o r, frags |-> {Fragment(0, RepLen, 0)}]
  <2> DEFINE m == Mark(TRUE, RepLen)
             s == m \o r
             f == Fragment(0, RepLen, 0)
  <2>1. m \in Seq(Units) /\ Len(m) = MarkLen
    BY <1>0, MarkFacts
  <2> HIDE DEF m
  <2>2. /\ s \in Seq(Units) /\ Len(s) = MarkLen + RepLen
        /\ \A i \in 1..MarkLen : s[i] = m[i]
        /\ \A i \in 1..RepLen : s[MarkLen + i] = r[i]
    <3>1. Streams(m, MarkLen, r, RepLen)
      BY <2>1 DEF Streams
    <3>2. Joins(s, m, MarkLen, r, RepLen)
      BY <3>1, Joining
    <3> QED BY <3>2 DEF Joins
  <2> HIDE DEF s
  <2>3. f.base = 0 /\ f.len = RepLen /\ f.before = 0
    BY DEF Fragment
  <2> HIDE DEF f
  <2>4. IsLast(s, f)
    BY <1>0, <2>2, <2>3 DEF IsLast, EndOf
  <2>5. Seg(s, 0, MarkLen) = m
    <3>1. Within(s, 0, MarkLen) /\ Agree(s, 0, m, 0, MarkLen - 0) /\ Len(m) = MarkLen - 0
      BY <1>0, <2>1, <2>2 DEF Within, Agree
    <3> QED BY <2>1, <3>1, SegIs
  <2>6. Agree(s, MarkLen, r, 0, RepLen)
    BY <1>0, <2>2 DEF Agree
  <2>7. Holds(s, {f}, r, f)
    <3>1. f.base + MarkLen = MarkLen
      BY <1>0, <2>3
    <3>2. Seg(s, f.base, f.base + MarkLen) = Mark(TRUE, f.len)
      BY <2>3, <2>5, <3>1, Zenon DEF m
    <3>3. Agree(s, f.base + MarkLen, r, f.before, f.len)
      BY <2>3, <2>6, <3>1
    <3>4. /\ f.base \in Nat /\ f.len \in 0..RepLen /\ f.before \in Nat
          /\ f.before + f.len = RepLen /\ f.before + f.len <= RepLen /\ EndOf(f) <= Len(s)
      BY <1>0, <2>2, <2>3 DEF EndOf
    <3> QED BY <2>4, <3>2, <3>3, <3>4 DEF Holds
  <2>8. Carries(s, {f}, r)
    BY <1>0, <2>2, <2>3, <2>7 DEF Carries
  <2>9. d.stream = s /\ d.frags = {f}
    BY <1>1 DEF s, m, f
  <2> QED BY <2>8, <2>9
<1>2. ASSUME NEW k \in 0..RepLen,
             d = [stream |-> Mark(FALSE, k) \o Front(r, k) \o Mark(TRUE, RepLen - k) \o Rest(r, k),
                  frags  |-> {Fragment(0, k, 0), Fragment(MarkLen + k, RepLen - k, k)}]
      PROVE  Carries(d.stream, d.frags, r)
  <2>1. PICK j \in Nat : j = RepLen - k
    BY <1>0
  <2> DEFINE m == Mark(FALSE, k)
             n == Mark(TRUE, j)
             a == Front(r, k)
             b == Rest(r, k)
             s1 == m \o a
             s2 == s1 \o n
             s == s2 \o b
             f == Fragment(0, k, 0)
             g == Fragment(MarkLen + k, j, k)
  <2>2. m \in Seq(Units) /\ Len(m) = MarkLen /\ n \in Seq(Units) /\ Len(n) = MarkLen
    <3>1. k \in Nat
      BY <1>0
    <3>2. m \in Seq(Units) /\ Len(m) = MarkLen
      BY <1>0, <3>1, MarkFacts
    <3>3. n \in Seq(Units) /\ Len(n) = MarkLen
      BY <1>0, <2>1, MarkFacts
    <3> QED BY <3>2, <3>3
  <2>3. /\ a \in Seq(Units) /\ Len(a) = k /\ b \in Seq(Units) /\ Len(b) = j
        /\ \A i \in 1..k : a[i] = r[i]
        /\ \A i \in 1..j : b[i] = r[k + i]
    <3>1. Within(r, 0, k) /\ Within(r, k, RepLen)
      BY <1>0 DEF Within
    <3>2. a = Seg(r, 0, k) /\ b = Seg(r, k, RepLen)
      BY DEF Front, Rest, Seg
    <3>3. Seg(r, 0, k) \in Seq(Units) /\ Len(Seg(r, 0, k)) = k - 0
      BY <3>1, SegIsSeq
    <3>4. Seg(r, k, RepLen) \in Seq(Units) /\ Len(Seg(r, k, RepLen)) = RepLen - k
      BY <3>1, SegIsSeq
    <3>5. ASSUME NEW i \in 1..k PROVE Seg(r, 0, k)[i] = r[0 + i]
      BY <1>0, <3>1, SegAt
    <3>6. ASSUME NEW i \in 1..j PROVE Seg(r, k, RepLen)[i] = r[k + i]
      BY <1>0, <2>1, <3>1, SegAt
    <3> HIDE DEF a, b
    <3>7. a \in Seq(Units) /\ Len(a) = k
      BY <3>2, <3>3
    <3>8. b \in Seq(Units) /\ Len(b) = j
      BY <2>1, <3>2, <3>4
    <3>9. \A i \in 1..k : a[i] = r[i]
      BY <3>2, <3>5
    <3>10. \A i \in 1..j : b[i] = r[k + i]
      BY <3>2, <3>6
    <3> QED BY <3>7, <3>8, <3>9, <3>10
  <2> HIDE DEF m, n, a, b
  <2>4. /\ s1 \in Seq(Units) /\ Len(s1) = MarkLen + k
        /\ \A i \in 1..MarkLen : s1[i] = m[i]
        /\ \A i \in 1..k : s1[MarkLen + i] = r[i]
    <3>1. Streams(m, MarkLen, a, k)
      BY <2>2, <2>3 DEF Streams
    <3>2. Joins(s1, m, MarkLen, a, k)
      BY <3>1, Joining
    <3> QED BY <2>3, <3>2 DEF Joins
  <2> HIDE DEF s1
  <2>5. /\ s2 \in Seq(Units) /\ Len(s2) = (MarkLen + k) + MarkLen
        /\ \A i \in 1..(MarkLen + k) : s2[i] = s1[i]
        /\ \A i \in 1..MarkLen : s2[(MarkLen + k) + i] = n[i]
    <3>1. Streams(s1, MarkLen + k, n, MarkLen)
      BY <2>2, <2>4 DEF Streams
    <3>2. Joins(s2, s1, MarkLen + k, n, MarkLen)
      BY <3>1, Joining
    <3> QED BY <2>3, <3>2 DEF Joins
  <2> HIDE DEF s2
  <2>6. /\ s \in Seq(Units) /\ Len(s) = ((MarkLen + k) + MarkLen) + j
        /\ \A i \in 1..((MarkLen + k) + MarkLen) : s[i] = s2[i]
        /\ \A i \in 1..j : s[((MarkLen + k) + MarkLen) + i] = r[k + i]
    <3>1. Streams(s2, (MarkLen + k) + MarkLen, b, j)
      BY <2>3, <2>5 DEF Streams
    <3>2. Joins(s, s2, (MarkLen + k) + MarkLen, b, j)
      BY <3>1, Joining
    <3> QED BY <2>3, <3>2 DEF Joins
  <2> HIDE DEF s
  <2>7. /\ f.base = 0 /\ f.len = k /\ f.before = 0
        /\ g.base = MarkLen + k /\ g.len = j /\ g.before = k
    BY DEF Fragment
  <2> HIDE DEF f, g
  <2>8. ~IsLast(s, f) /\ IsLast(s, g)
    BY <1>0, <2>1, <2>6, <2>7 DEF IsLast, EndOf
  <2>9. Seg(s, 0, MarkLen) = m
    <3>1. Within(s, 0, MarkLen) /\ Len(m) = MarkLen - 0
      BY <1>0, <2>1, <2>2, <2>6 DEF Within
    <3>2. Agree(s, 0, m, 0, MarkLen - 0)
      BY <1>0, <2>4, <2>5, <2>6 DEF Agree
    <3> QED BY <2>2, <3>1, <3>2, SegIs
  <2>10. Seg(s, MarkLen + k, (MarkLen + k) + MarkLen) = n
    <3>1. Within(s, MarkLen + k, (MarkLen + k) + MarkLen)
          /\ ((MarkLen + k) + MarkLen) - (MarkLen + k) = MarkLen
      BY <1>0, <2>1, <2>6 DEF Within
    <3>2. Agree(s, MarkLen + k, n, 0, MarkLen)
      BY <1>0, <2>5, <2>6 DEF Agree
    <3> QED BY <2>2, <3>1, <3>2, SegIs
  <2>11. Agree(s, MarkLen, r, 0, k)
    BY <1>0, <2>4, <2>5, <2>6 DEF Agree
  <2>12. Agree(s, (MarkLen + k) + MarkLen, r, k, j)
    BY <2>6 DEF Agree
  <2>13. Holds(s, {f, g}, r, f)
    <3>1. f.base + MarkLen = MarkLen /\ EndOf(f) = MarkLen + k /\ EndOf(f) <= Len(s)
      BY <1>0, <2>1, <2>6, <2>7 DEF EndOf
    <3>2. Seg(s, f.base, f.base + MarkLen) = Mark(FALSE, f.len)
      BY <2>7, <2>9, <3>1, Zenon DEF m
    <3>3. Agree(s, f.base + MarkLen, r, f.before, f.len)
      BY <2>7, <2>11, <3>1
    <3>4. /\ f.base \in Nat /\ f.len \in 0..RepLen /\ f.before \in Nat
          /\ f.before + f.len <= RepLen /\ g.base = EndOf(f) /\ g.before = f.before + f.len
      BY <1>0, <2>7, <3>1
    <3> QED BY <2>8, <3>1, <3>2, <3>3, <3>4 DEF Holds
  <2>14. Holds(s, {f, g}, r, g)
    <3>1. /\ g.base + MarkLen = (MarkLen + k) + MarkLen /\ EndOf(g) <= Len(s)
          /\ g.before + g.len = RepLen /\ g.len \in 0..RepLen /\ g.base \in Nat
      BY <1>0, <2>1, <2>6, <2>7 DEF EndOf
    <3>2. Seg(s, g.base, g.base + MarkLen) = Mark(TRUE, g.len)
      BY <2>7, <2>10, <3>1, Zenon DEF n
    <3>3. Agree(s, g.base + MarkLen, r, g.before, g.len)
      BY <2>7, <2>12, <3>1
    <3>4. g.before \in Nat /\ g.before + g.len <= RepLen
      BY <1>0, <2>7, <3>1
    <3> QED BY <2>8, <3>1, <3>2, <3>3, <3>4 DEF Holds
  <2>15. Carries(s, {f, g}, r)
    BY <1>0, <2>1, <2>6, <2>7, <2>13, <2>14 DEF Carries
  <2>16. d.stream = s /\ d.frags = {f, g}
    BY <1>2, <2>1 DEF s, s1, s2, m, n, a, b, f, g
  <2> QED BY <2>15, <2>16
<1> QED BY <1>1, <1>2 DEF Sendings

-----------------------------------------------------------------------------
(* Reading a reply.                                                        *)

\* Where a call that is reading stands, with all that is known about the reply.
Position(st, r, d, f, p, q) ==
    /\ st \in {"ok", "denied"}
    /\ r = Reply(xid, st) /\ r \in Seq(Units) /\ Len(r) = RepLen
    /\ st = "ok" => runs = 1
    /\ d \in Sendings(r) /\ Carries(d.stream, d.frags, r)
    /\ f \in d.frags /\ Holds(d.stream, d.frags, r, f)
    /\ Within(d.stream, p, q)
    /\ ReadTo(r, d.stream, f, p, q)

LEMMA ReadingAt ==
    ASSUME Scalars, Reading
    PROVE  \E st, r, d, f, p, q : Position(st, r, d, f, p, q)
<1>1. PICK st \in {"ok", "denied"} :
          /\ st = "ok" => runs = 1
          /\ \E d \in Sendings(Reply(xid, st)) : \E f \in d.frags :
                \E p, q \in 0..Len(d.stream) : ReadTo(Reply(xid, st), d.stream, f, p, q)
  BY DEF Reading
<1>2. PICK d \in Sendings(Reply(xid, st)) : \E f \in d.frags :
                \E p, q \in 0..Len(d.stream) : ReadTo(Reply(xid, st), d.stream, f, p, q)
  BY <1>1
<1>3. PICK f \in d.frags :
                \E p, q \in 0..Len(d.stream) : ReadTo(Reply(xid, st), d.stream, f, p, q)
  BY <1>2
<1>4. PICK p \in 0..Len(d.stream), q \in 0..Len(d.stream) :
          ReadTo(Reply(xid, st), d.stream, f, p, q)
  BY <1>3
<1>5. Reply(xid, st) \in Seq(Units) /\ Len(Reply(xid, st)) = RepLen
  BY ReplyFacts DEF Scalars
<1>6. Carries(d.stream, d.frags, Reply(xid, st))
  BY <1>5, SendingsCarry
<1>7. d.stream \in Seq(Units) /\ Holds(d.stream, d.frags, Reply(xid, st), f)
  BY <1>6 DEF Carries
<1>8. p <= q /\ q <= Len(d.stream)
  BY <1>4 DEF ReadTo
<1>9. Len(d.stream) \in Nat
  BY <1>7, LenProperties
<1>10. Within(d.stream, p, q)
  BY <1>7, <1>8, <1>9 DEF Within
<1>11. Position(st, Reply(xid, st), d, f, p, q)
  BY <1>1, <1>4, <1>5, <1>6, <1>7, <1>10 DEF Position
<1> QED BY <1>11

\* It goes on reading.
LEMMA ReadingOn ==
    ASSUME NEW st \in {"ok", "denied"}, NEW r, NEW d, NEW f, NEW p, NEW q,
           Scalars', up' = <<>>, work' = Nothing, out' = <<>>,
           r = Reply(xid', st), st = "ok" => runs' = 1,
           d \in Sendings(r), f \in d.frags, Within(d.stream, p, q),
           ReadTo(r, d.stream, f, p, q)'
    PROVE  CallInv'
<1>1. p \in 0..Len(d.stream) /\ q \in 0..Len(d.stream)
  BY LenProperties DEF Within
<1>2. Reading'
  BY <1>1 DEF Reading
<1> QED BY <1>2 DEF CallInv

\* recv() hands over the next n units of the reply.
LEMMA NextUnits ==
    ASSUME NEW s, NEW p, NEW q, Within(s, p, q), down = Seg(s, p, q),
           NEW n \in Int, 0 <= n, n <= Len(down)
    PROVE  /\ p + n \in Nat /\ p + n <= q /\ n <= q - p
           /\ Within(s, p, p + n) /\ Within(s, p + n, q)
           /\ Front(down, n) = Seg(s, p, p + n)
           /\ Rest(down, n) = Seg(s, p + n, q)
<1>1. Len(Seg(s, p, q)) = q - p
  BY SegIsSeq
<1>2. PICK c : c = p + n
  OBVIOUS
<1>3. n <= q - p
  BY <1>1
<1>4. Within(s, p, c) /\ Within(s, c, q) /\ n = c - p
  BY <1>2, <1>3, LenProperties DEF Within
<1>5. Front(Seg(s, p, q), n) = Seg(s, p, c) /\ Rest(Seg(s, p, q), n) = Seg(s, c, q)
  BY <1>4, SegSplit
<1> QED BY <1>2, <1>3, <1>4, <1>5 DEF Within

\* A mark that has arrived is read as what it says.
LEMMA MarkRead ==
    ASSUME NEW l \in BOOLEAN, NEW n \in 0..RepLen, NEW m \in Marks(Mark(l, n))
    PROVE  m[1] = l /\ m[2] = n
<1>1. RepLen \in Nat
  BY LenAssumption
<1>2. /\ m \in BOOLEAN \X (0..RepLen)
      /\ \/ Mark(l, n) = Mark(m[1], m[2])
         \/ \A l2 \in BOOLEAN, n2 \in 0..RepLen : Mark(l, n) # Mark(l2, n2)
  BY Zenon DEF Marks
<1>3. m[1] \in BOOLEAN /\ m[2] \in Nat /\ n \in Nat
  BY <1>1, <1>2
<1>4. Mark(l, n) = Mark(m[1], m[2])
  BY <1>2, Zenon
<1> QED BY <1>3, <1>4, MarkInjective

\* recvRecord reads some of a mark, or the rest of it.
LEMMA RecvMarkKeeps ==
    ASSUME CallInv, RecvMark
    PROVE  CallInv'
<1>1. /\ pc = "mark" /\ Scalars
      /\ UNCHANGED <<xid, auth, out, record, res, up, peer, work, runs>>
  BY DEF RecvMark, CallInv, callVars, serverVars
<1>2. PICK n \in 1..(MarkLen - Len(buf)) :
          /\ n <= Len(down)
          /\ down' = Rest(down, n)
          /\ LET b == buf \o Front(down, n)
             IN  IF Len(b) < MarkLen
                   THEN buf' = b /\ UNCHANGED <<pc, left, last_fragment>>
                   ELSE \E m \in Marks(b) :
                          /\ buf' = <<>>
                          /\ last_fragment' = m[1]
                          /\ left' = m[2]
                          /\ pc' = IF m[2] > 0 THEN "data"
                                   ELSE IF Complete(m[1]) THEN "parse" ELSE "mark"
  BY DEF RecvMark
<1>3. Reading /\ out = <<>>
  <2>1. down # <<>>
    BY <1>2
  <2> QED BY <1>1, <2>1 DEF CallInv, Sending, Asked, Executed, Lost, Quiet
<1>4. PICK st, r, d, f, p, q : Position(st, r, d, f, p, q)
  BY <1>1, <1>3, ReadingAt
<1> DEFINE s == d.stream
<1>5. /\ Holds(s, d.frags, r, f) /\ Within(s, p, q) /\ f \in d.frags /\ d \in Sendings(r)
      /\ r \in Seq(Units) /\ Len(r) = RepLen
      /\ Carries(s, d.frags, r) /\ ReadTo(r, s, f, p, q)
      /\ st \in {"ok", "denied"} /\ r = Reply(xid, st) /\ (st = "ok" => runs = 1)
  BY <1>4 DEF Position
<1> HIDE DEF s
<1>6. /\ p \in Nat /\ q \in Nat /\ Len(s) \in Nat /\ q <= Len(s) /\ MarkLen = 2
      /\ peer = "open" => q = Len(s)
      /\ down = Seg(s, p, q) /\ f.base <= p /\ p < f.base + MarkLen
      /\ buf = Seg(s, f.base, p) /\ left = 0 /\ last_fragment = FALSE
      /\ record = Seg(r, 0, f.before)
  BY <1>1, <1>5, LenProperties DEF ReadTo, Within, MarkLen
<1>7. f.base \in Nat /\ f.len \in 0..RepLen /\ f.before \in Nat /\ EndOf(f) <= Len(s)
  BY <1>5 DEF Holds
<1>8. PICK c : c = p + n
  OBVIOUS
<1>9. /\ c \in Nat /\ c <= q /\ Within(s, p, c) /\ Within(s, c, q)
      /\ Front(down, n) = Seg(s, p, c) /\ down' = Seg(s, c, q)
  BY <1>2, <1>5, <1>6, <1>8, NextUnits
<1>10. Within(s, f.base, p) /\ Within(s, f.base, c)
  BY <1>6, <1>7, <1>9 DEF Within
<1>11. Len(buf) = p - f.base /\ c <= f.base + MarkLen /\ c > p
  <2>1. Len(Seg(s, f.base, p)) = p - f.base
    BY <1>10, SegIsSeq
  <2> QED BY <1>2, <1>6, <1>7, <1>8, <2>1
<1>12. buf \o Front(down, n) = Seg(s, f.base, c)
  <2>1. Seg(s, f.base, p) \o Seg(s, p, c) = Seg(s, f.base, c)
    BY <1>9, <1>10, SegJoin
  <2> QED BY <1>6, <1>9, <2>1, Zenon
<1>13. Len(Seg(s, f.base, c)) = c - f.base
  BY <1>10, SegIsSeq
<1>14. ASSUME NEW g \in d.frags, pc' \in {"mark", "data", "parse"}, ReadTo(r, s, g, c, q)'
       PROVE  CallInv'
  <2>1. last_fragment' \in BOOLEAN
    <3>1. \A m \in Marks(buf \o Front(down, n)) : m[1] \in BOOLEAN
      BY DEF Marks
    <3>2. last_fragment \in BOOLEAN
      BY <1>1, Zenon DEF Scalars
    <3> QED BY <1>2, <3>1, <3>2, Zenon
  <2>2. Scalars'
    BY <1>1, <1>14, <2>1 DEF Scalars
  <2>3. up' = <<>> /\ work' = Nothing /\ out' = <<>> /\ r = Reply(xid', st)
        /\ (st = "ok" => runs' = 1)
    BY <1>1, <1>3, <1>5 DEF Reading
  <2> QED BY <1>5, <1>9, <1>14, <2>2, <2>3, ReadingOn DEF s
<1>15. CASE c < f.base + MarkLen
  <2>1. /\ buf' = Seg(s, f.base, c) /\ pc' = pc /\ left' = left
        /\ last_fragment' = last_fragment
    <3>1. Len(buf \o Front(down, n)) < MarkLen
      BY <1>6, <1>7, <1>9, <1>12, <1>13, <1>15
    <3> QED BY <1>2, <1>12, <3>1
  <2>2. ReadTo(r, s, f, c, q)'
    BY <1>1, <1>6, <1>7, <1>9, <1>11, <1>15, <2>1 DEF ReadTo
  <2> QED BY <1>1, <1>5, <1>14, <2>1, <2>2
<1>16. CASE c = f.base + MarkLen
  <2>1. ~(Len(buf \o Front(down, n)) < MarkLen)
    BY <1>6, <1>7, <1>9, <1>12, <1>13, <1>16
  <2>2. PICK m \in Marks(Seg(s, f.base, c)) :
                          /\ buf' = <<>>
                          /\ last_fragment' = m[1]
                          /\ left' = m[2]
                          /\ pc' = IF m[2] > 0 THEN "data"
                                   ELSE IF Complete(m[1]) THEN "parse" ELSE "mark"
    BY <1>2, <1>12, <2>1, Zenon
  <2>3. CASE IsLast(s, f)
    <3>1. Seg(s, f.base, c) = Mark(TRUE, f.len) /\ f.before + f.len = RepLen
      BY <1>5, <1>16, <2>3 DEF Holds
    <3>2. m[1] = TRUE /\ m[2] = f.len
      BY <1>7, <2>2, <3>1, MarkRead, Zenon
    <3>3. CASE f.len > 0
      <4>1. pc' = "data" /\ left' = f.len /\ buf' = <<>>
        BY <2>2, <3>2, <3>3
      <4>2. last_fragment'
        BY <2>2, <3>2, Zenon
      <4>3. /\ f.base + MarkLen <= c /\ c < EndOf(f) /\ f.len = EndOf(f) - c
            /\ f.before + (c - f.base - MarkLen) = f.before
        BY <1>6, <1>7, <1>16, <3>3 DEF EndOf
      <4>4. ReadTo(r, s, f, c, q)'
        BY <1>1, <1>6, <1>9, <2>3, <4>1, <4>2, <4>3 DEF ReadTo
      <4> QED BY <1>5, <1>14, <4>1, <4>4
    <3>4. CASE f.len = 0
      <4>1. pc' = "parse" /\ left' = 0 /\ buf' = <<>>
        BY <2>2, <3>2, <3>4 DEF Complete
      <4>2. last_fragment'
        BY <2>2, <3>2, Zenon
      <4>3. c = Len(s) /\ f.before = RepLen
        BY <1>6, <1>7, <1>16, <2>3, <3>1, <3>4, LenAssumption DEF IsLast, EndOf
      <4>4. record' = r
        BY <1>1, <1>5, <1>6, <4>3, SegAll
      <4>5. ReadTo(r, s, f, c, q)'
        BY <1>1, <1>6, <1>9, <4>1, <4>2, <4>3, <4>4 DEF ReadTo
      <4> QED BY <1>5, <1>14, <4>1, <4>5
    <3> QED BY <1>7, <3>3, <3>4, LenAssumption
  <2>4. CASE ~IsLast(s, f)
    <3>1. /\ Seg(s, f.base, c) = Mark(FALSE, f.len)
          /\ \E g \in d.frags : g.base = EndOf(f) /\ g.before = f.before + f.len
      BY <1>5, <1>16, <2>4 DEF Holds
    <3>2. m[1] = FALSE /\ m[2] = f.len
      BY <1>7, <2>2, <3>1, MarkRead, Zenon
    <3>3. CASE f.len > 0
      <4>1. pc' = "data" /\ left' = f.len /\ buf' = <<>>
        BY <2>2, <3>2, <3>3
      <4>2. ~last_fragment'
        BY <2>2, <3>2, Zenon
      <4>3. /\ f.base + MarkLen <= c /\ c < EndOf(f) /\ f.len = EndOf(f) - c
            /\ f.before + (c - f.base - MarkLen) = f.before
        BY <1>6, <1>7, <1>16, <3>3 DEF EndOf
      <4>4. ReadTo(r, s, f, c, q)'
        BY <1>1, <1>6, <1>9, <2>4, <4>1, <4>2, <4>3 DEF ReadTo
      <4> QED BY <1>5, <1>14, <4>1, <4>4
    <3>4. CASE f.len = 0
      <4>1. PICK g \in d.frags : g.base = EndOf(f) /\ g.before = f.before + f.len
        BY <3>1
      <4>2. g.base = c /\ g.before = f.before
        BY <1>6, <1>7, <1>16, <3>4, <4>1 DEF EndOf
      <4>3. pc' = "mark" /\ left' = 0 /\ buf' = <<>>
        BY <2>2, <3>2, <3>4 DEF Complete
      <4>4. last_fragment' = FALSE
        BY <2>2, <3>2, Zenon
      <4>5. buf' = Seg(s, g.base, c)
        BY <1>9, <4>2, <4>3, SegEmpty
      <4>6. ReadTo(r, s, g, c, q)'
        BY <1>1, <1>6, <1>9, <4>2, <4>3, <4>4, <4>5 DEF ReadTo
      <4> QED BY <1>14, <4>3, <4>6
    <3> QED BY <1>7, <3>3, <3>4, LenAssumption
  <2> QED BY <2>3, <2>4
<1> QED BY <1>6, <1>7, <1>9, <1>11, <1>15, <1>16

\* recvRecord reads some of the data of a fragment.
LEMMA RecvDataKeeps ==
    ASSUME CallInv, RecvData
    PROVE  CallInv'
<1>1. /\ pc = "data" /\ Scalars
      /\ UNCHANGED <<xid, auth, out, buf, last_fragment, res, up, peer, work, runs>>
  BY DEF RecvData, CallInv, callVars, serverVars
<1>2. PICK n \in 1..left :
          /\ n <= Len(down)
          /\ down' = Rest(down, n)
          /\ record' = record \o Front(down, n)
          /\ left' = left - n
          /\ pc' = IF n < left THEN "data"
                   ELSE IF Complete(last_fragment) THEN "parse" ELSE "mark"
  BY DEF RecvData
<1>3. Reading /\ out = <<>>
  BY <1>1 DEF CallInv, Sending, Asked, Executed, Lost
<1>4. PICK st, r, d, f, p, q : Position(st, r, d, f, p, q)
  BY <1>1, <1>3, ReadingAt
<1> DEFINE s == d.stream
<1>5. /\ Holds(s, d.frags, r, f) /\ Within(s, p, q) /\ f \in d.frags /\ d \in Sendings(r)
      /\ r \in Seq(Units) /\ Len(r) = RepLen
      /\ Carries(s, d.frags, r) /\ ReadTo(r, s, f, p, q)
      /\ st \in {"ok", "denied"} /\ r = Reply(xid, st) /\ (st = "ok" => runs = 1)
  BY <1>4 DEF Position
<1> HIDE DEF s
<1>6. /\ p \in Nat /\ q \in Nat /\ Len(s) \in Nat /\ q <= Len(s) /\ MarkLen = 2
      /\ peer = "open" => q = Len(s)
      /\ down = Seg(s, p, q) /\ f.base + MarkLen <= p /\ p < EndOf(f)
      /\ buf = <<>> /\ left = EndOf(f) - p /\ (last_fragment <=> IsLast(s, f))
      /\ record = Seg(r, 0, f.before + (p - f.base - MarkLen))
  BY <1>1, <1>5, LenProperties DEF ReadTo, Within, MarkLen
<1>7. /\ f.base \in Nat /\ f.len \in Nat /\ f.before \in Nat /\ EndOf(f) <= Len(s)
      /\ EndOf(f) = f.base + 2 + f.len /\ f.before + f.len <= RepLen /\ RepLen \in Nat
      /\ Agree(s, f.base + MarkLen, r, f.before, f.len)
  BY <1>5, <1>6, LenAssumption DEF Holds, EndOf
<1>8. PICK c : c = p + n
  OBVIOUS
<1>9. /\ c \in Nat /\ c <= q /\ Within(s, p, c) /\ Within(s, c, q)
      /\ Front(down, n) = Seg(s, p, c) /\ down' = Seg(s, c, q)
  BY <1>2, <1>5, <1>6, <1>8, NextUnits
<1>10. PICK bs \in Nat, ln \in Nat, bf \in Nat, e \in Nat :
          bs = f.base /\ ln = f.len /\ bf = f.before /\ e = EndOf(f)
  <2>1. EndOf(f) \in Nat
    BY <1>7
  <2> QED BY <1>7, <2>1
<1>11. /\ n \in Nat /\ left = e - p /\ c = p + n /\ e = bs + 2 + ln /\ bs + 2 <= p /\ p < e
       /\ 1 <= n /\ n <= e - p /\ bf + ln <= RepLen /\ p \in Nat /\ c \in Nat /\ RepLen \in Nat
  <2>1. left = e - p /\ bs + 2 <= p /\ p < e
    BY <1>6, <1>10
  <2>2. e = bs + 2 + ln /\ bf + ln <= RepLen
    BY <1>7, <1>10
  <2>3. p \in Nat /\ c \in Nat /\ RepLen \in Nat
    BY <1>6, <1>7, <1>9
  <2>4. n \in 1..(e - p)
    BY <2>1
  <2> QED BY <1>8, <2>1, <2>2, <2>3, <2>4
<1> DEFINE j == bf + (p - bs - 2)
           k == bf + (c - bs - 2)
<1>12. /\ c <= e /\ c > p /\ left' = e - c /\ (n < left <=> c < e)
       /\ j \in Nat /\ k \in Nat /\ j <= k /\ k <= RepLen /\ k - j = c - p
  <2>1. left' = left - n
    BY <1>2
  <2> QED BY <1>11, <2>1
<1>18. /\ Within(r, 0, j) /\ Within(r, j, k) /\ record = Seg(r, 0, j)
  <2>1. f.before + (p - f.base - MarkLen) = j
    BY <1>6, <1>10
  <2>2. record = Seg(r, 0, j)
    BY <1>6, <2>1
  <2> HIDE DEF j, k
  <2> QED BY <1>5, <1>7, <1>12, <2>2 DEF Within
<1>19. f.before + (c - f.base - MarkLen) = k
  BY <1>6, <1>10
<1>13. record' = Seg(r, 0, k)
  <2>1. Agree(s, p, r, j, c - p)
    <3>1. ASSUME NEW i \in 1..(c - p) PROVE s[p + i] = r[j + i]
      <4>1. PICK h \in 1..ln : h = (p - bs - 2) + i
        BY <1>6, <1>9, <1>11
      <4>2. s[(f.base + MarkLen) + h] = r[f.before + h]
        BY <1>7, <1>10 DEF Agree
      <4>3. (bs + 2) + h = p + i /\ bf + h = j + i
        BY <1>6, <4>1
      <4> QED BY <1>6, <1>10, <4>2, <4>3
    <3> QED BY <3>1 DEF Agree
  <2> HIDE DEF j, k
  <2>2. Seg(s, p, c) = Seg(r, j, k)
    BY <1>9, <1>12, <1>18, <2>1, SegSame
  <2>3. Seg(r, 0, j) \o Seg(r, j, k) = Seg(r, 0, k)
    BY <1>18, SegJoin
  <2>4. record' = Seg(r, 0, j) \o Seg(s, p, c)
    BY <1>2, <1>9, <1>18, Zenon
  <2> QED BY <2>2, <2>3, <2>4, Zenon
<1>14. ASSUME NEW g \in d.frags, pc' \in {"mark", "data", "parse"}, ReadTo(r, s, g, c, q)'
       PROVE  CallInv'
  <2>1. Scalars'
    BY <1>1, <1>14 DEF Scalars
  <2>2. up' = <<>> /\ work' = Nothing /\ out' = <<>> /\ r = Reply(xid', st)
        /\ (st = "ok" => runs' = 1)
    BY <1>1, <1>3, <1>5 DEF Reading
  <2> QED BY <1>5, <1>9, <1>14, <2>1, <2>2, ReadingOn DEF s
<1> HIDE DEF j, k
<1>15. CASE c < e
  <2>1. pc' = "data"
    BY <1>2, <1>12, <1>15
  <2>2. /\ f.base + MarkLen <= c /\ c < EndOf(f) /\ left' = EndOf(f) - c
        /\ record' = Seg(r, 0, f.before + (c - f.base - MarkLen))
    <3>1. bs + 2 <= c /\ c < e /\ left' = e - c
      BY <1>11, <1>12, <1>15
    <3>2. f.base + MarkLen <= c /\ c < EndOf(f) /\ left' = EndOf(f) - c
      BY <1>6, <1>10, <3>1
    <3> QED BY <1>13, <1>19, <3>2, Zenon
  <2>3. ReadTo(r, s, f, c, q)'
    BY <1>1, <1>6, <1>9, <2>1, <2>2 DEF ReadTo
  <2> QED BY <1>5, <1>14, <2>1, <2>3
<1>16. CASE c = e /\ IsLast(s, f)
  <2>1. pc' = "parse" /\ left' = 0 /\ buf' = <<>> /\ last_fragment'
    BY <1>1, <1>2, <1>6, <1>12, <1>16 DEF Complete
  <2>2. c = Len(s) /\ bf + ln = RepLen
    BY <1>5, <1>10, <1>16 DEF IsLast, Holds
  <2>3. k = RepLen
    BY <1>11, <1>16, <2>2 DEF k
  <2>4. record' = r
    BY <1>5, <1>13, <2>3, SegAll
  <2>5. ReadTo(r, s, f, c, q)'
    BY <1>1, <1>6, <1>9, <2>1, <2>2, <2>4 DEF ReadTo
  <2> QED BY <1>5, <1>14, <2>1, <2>5
<1>17. CASE c = e /\ ~IsLast(s, f)
  <2>1. pc' = "mark" /\ left' = 0 /\ buf' = <<>>
    BY <1>1, <1>2, <1>6, <1>12, <1>17 DEF Complete
  <2>2. last_fragment' = FALSE
    BY <1>1, <1>3, <1>6, <1>17
  <2>3. PICK g \in d.frags : g.base = EndOf(f) /\ g.before = f.before + f.len
    BY <1>5, <1>17 DEF Holds
  <2>4. g.base = c /\ g.before = k
    <3>1. k = bf + ln
      BY <1>11, <1>17 DEF k
    <3> QED BY <1>10, <1>17, <2>3, <3>1
  <2>5. buf' = Seg(s, g.base, c)
    BY <1>9, <2>1, <2>4, SegEmpty
  <2>6. ReadTo(r, s, g, c, q)'
    BY <1>1, <1>6, <1>9, <1>13, <2>1, <2>2, <2>4, <2>5 DEF ReadTo
  <2> QED BY <1>14, <2>1, <2>6
<1> QED BY <1>9, <1>12, <1>15, <1>16, <1>17

-----------------------------------------------------------------------------
(* The other steps of the client.                                          *)

\* Nothing is going on: creation, set_auth_sys, clear_auth and destruction.
LEMMA IdleStepKeeps ==
    ASSUME CallInv, Connect \/ SetAuth \/ Destroy
    PROVE  CallInv'
<1>1. /\ pc \in {"new", "idle"} /\ pc' \in {"idle", "gone"} /\ auth' \in {"none", "sys"}
      /\ peer' \in {"open", "closed"} /\ (pc = "new" \/ peer' = peer)
      /\ UNCHANGED <<xid, out, buf, left, last_fragment, record, res, up, down, work, runs>>
  BY DEF Connect, SetAuth, Destroy, CallInv, Scalars, callVars, bufVars, serverVars
<1>2. Fresh /\ Quiet /\ out = <<>> /\ (pc = "new" => up = <<>>)
  BY <1>1 DEF CallInv, Sending, Asked, Executed, Lost, Reading, ReadTo
<1>3. Scalars'
  BY <1>1 DEF CallInv, Scalars
<1> QED BY <1>1, <1>2, <1>3 DEF CallInv, Fresh, Quiet, AtPeer

\* A call begins: the whole CALL is to be sent.
LEMMA CallKeeps ==
    ASSUME CallInv, Call
    PROVE  CallInv'
<1>1. /\ pc = "idle" /\ pc' = "send" /\ xid' = (xid + 1) % W
      /\ out' = addRecordMark(Request(xid')) /\ record' = <<>> /\ res' = NoResult /\ runs' = 0
      /\ UNCHANGED <<auth, buf, left, last_fragment, up, down, peer, work>>
  BY DEF Call, NextXid
<1>2. Fresh /\ Quiet /\ Scalars
  BY <1>1 DEF CallInv, Sending, Asked, Executed, Lost, Reading, ReadTo
<1>3. Scalars'
  <2>1. xid' \in 0..W-1
    BY <1>1, <1>2, WAssumption DEF Scalars
  <2> QED BY <1>1, <1>2, <2>1 DEF Scalars
<1>4. out' = Msg'
  BY <1>1, CallIsMarked DEF Msg
<1>5. Msg' \in Seq(Units) /\ Len(Msg') = MsgLen /\ MsgLen \in Nat /\ MsgLen > MarkLen
  BY <1>3, CallFacts DEF Scalars, Msg
<1>6. Seg(Msg', 0, MsgLen) = Msg' /\ Seg(Msg', 0, 0) = <<>>
  BY <1>5, SegAll, SegEmpty
<1>7. Sending'
  <2>1. 0 \in 0..(MsgLen - 1)
    BY <1>5 DEF MarkLen
  <2>2. out' = Seg(Msg', 0, MsgLen)
    BY <1>4, <1>6, Zenon
  <2>3. peer' = "open" => up' = Seg(Msg', 0, 0) /\ runs' = 0
    BY <1>1, <1>2, <1>6 DEF Quiet, AtPeer
  <2>4. Fresh' /\ down' = <<>> /\ work' = Nothing /\ AtPeer'
    BY <1>1, <1>2 DEF Fresh, Quiet, AtPeer
  <2>5. \E n \in 0..(MsgLen - 1) : /\ out' = Seg(Msg', n, MsgLen)
                                   /\ peer' = "open" => up' = Seg(Msg', 0, n) /\ runs' = 0
    BY <2>1, <2>2, <2>3, Zenon
  <2> QED BY <1>1, <2>4, <2>5 DEF Sending
<1> QED BY <1>3, <1>7 DEF CallInv

\* sendAll sends some of the CALL, or the rest of it.
LEMMA SendSomeKeeps ==
    ASSUME CallInv, SendSome
    PROVE  CallInv'
<1>1. /\ pc = "send" /\ Scalars /\ Sending
      /\ UNCHANGED <<xid, auth, buf, left, last_fragment, record, res, down, peer, work, runs>>
  BY DEF SendSome, CallInv, callVars, serverVars, Asked, Executed, Lost, Reading, ReadTo
<1>2. PICK n \in 1..Len(out) : /\ up' = IF peer = "open" THEN up \o Front(out, n) ELSE up
                               /\ out' = Rest(out, n)
                               /\ pc' = IF n = Len(out) THEN "mark" ELSE "send"
  BY DEF SendSome, AllSent
<1>3. PICK a : /\ a \in 0..(MsgLen - 1) /\ out = Seg(Msg, a, MsgLen)
               /\ peer = "open" => up = Seg(Msg, 0, a) /\ runs = 0
  BY <1>1 DEF Sending
<1>4. Msg \in Seq(Units) /\ Len(Msg) = MsgLen /\ MsgLen \in Nat /\ MsgLen > MarkLen
  BY <1>1, CallFacts DEF Scalars, Msg
<1>5. Within(Msg, a, MsgLen) /\ Within(Msg, 0, a) /\ a \in Nat
  BY <1>3, <1>4 DEF Within, MarkLen
<1>6. Len(out) = MsgLen - a
  <2>1. Len(Seg(Msg, a, MsgLen)) = MsgLen - a
    BY <1>5, SegIsSeq
  <2> QED BY <1>3, <2>1
<1>7. PICK c : c \in Nat /\ c = a + n /\ a < c /\ c <= MsgLen /\ n = c - a
  BY <1>3, <1>4, <1>5, <1>6
<1>8. Within(Msg, a, c) /\ Within(Msg, c, MsgLen)
  BY <1>4, <1>5, <1>7 DEF Within
<1>9. Front(out, n) = Seg(Msg, a, c) /\ out' = Seg(Msg, c, MsgLen)
  <2>1. Front(Seg(Msg, a, MsgLen), n) = Seg(Msg, a, c)
        /\ Rest(Seg(Msg, a, MsgLen), n) = Seg(Msg, c, MsgLen)
    BY <1>7, <1>8, SegSplit
  <2> QED BY <1>2, <1>3, <2>1, Zenon
<1>10. peer = "open" => up' = Seg(Msg, 0, c)
  <2>1. Seg(Msg, 0, a) \o Seg(Msg, a, c) = Seg(Msg, 0, c)
    BY <1>5, <1>8, SegJoin
  <2> QED BY <1>2, <1>3, <1>9, <2>1, Zenon
<1>11. Msg' = Msg
  BY <1>1 DEF Msg
<1>12. /\ Fresh' /\ down' = <<>> /\ work' = Nothing /\ (peer = "open" => runs' = 0)
       /\ peer = "closed" => AtPeer'
  BY <1>1, <1>2, <1>3 DEF Sending, Fresh, AtPeer
<1>13. CASE c < MsgLen
  <2>1. pc' = "send" /\ c \in 0..(MsgLen - 1)
    BY <1>2, <1>4, <1>5, <1>6, <1>7, <1>13
  <2>2. Scalars'
    BY <1>1, <2>1 DEF Scalars
  <2>3. out' = Seg(Msg', c, MsgLen) /\ (peer' = "open" => up' = Seg(Msg', 0, c) /\ runs' = 0)
    BY <1>1, <1>9, <1>10, <1>11, <1>12, Zenon
  <2>4. \E b \in 0..(MsgLen - 1) : /\ out' = Seg(Msg', b, MsgLen)
                                   /\ peer' = "open" => up' = Seg(Msg', 0, b) /\ runs' = 0
    BY <2>1, <2>3, Zenon
  <2> QED BY <1>1, <1>12, <2>1, <2>2, <2>4 DEF CallInv, Sending
<1>14. CASE c = MsgLen
  <2>1. pc' = "mark"
    BY <1>2, <1>6, <1>7, <1>14
  <2>2. Scalars'
    BY <1>1, <2>1 DEF Scalars
  <2>3. out' = <<>>
    BY <1>4, <1>9, <1>14, SegEmpty
  <2>4. peer = "open" => up' = Msg'
    <3>1. Seg(Msg, 0, MsgLen) = Msg
      BY <1>4, SegAll
    <3> QED BY <1>10, <1>11, <1>14, <3>1, Zenon
  <2>5. CASE peer = "open"
    BY <1>1, <1>12, <2>1, <2>2, <2>3, <2>4, <2>5 DEF CallInv, Asked
  <2>6. CASE peer = "closed"
    BY <1>1, <1>12, <2>1, <2>2, <2>3, <2>6 DEF CallInv, Lost, Quiet
  <2> QED BY <1>1, <2>5, <2>6 DEF Scalars
<1> QED BY <1>4, <1>7, <1>13, <1>14

\* When a record is parsed it is the reply of this call, and nothing else is under way.
LEMMA ParseFacts ==
    ASSUME CallInv, pc = "parse"
    PROVE  /\ Quiet
           /\ \E st \in {"ok", "denied"} : record = Reply(xid, st) /\ (st = "ok" => runs = 1)
<1>1. Scalars /\ Reading
  BY DEF CallInv, Sending, Asked, Executed, Lost
<1>2. PICK st, r, d, f, p, q : Position(st, r, d, f, p, q)
  BY <1>1, ReadingAt
<1>3. /\ Within(d.stream, p, q) /\ r = Reply(xid, st) /\ (st = "ok" => runs = 1)
      /\ down = Seg(d.stream, p, q) /\ p = Len(d.stream) /\ record = r
      /\ st \in {"ok", "denied"}
  BY <1>2 DEF Position, ReadTo
<1>4. p = q /\ p \in Nat
  BY <1>3 DEF Within
<1>5. down = <<>>
  BY <1>3, <1>4, SegEmpty
<1> QED BY <1>1, <1>3, <1>5 DEF Reading, Quiet, AtPeer

\* The call ends.
LEMMA EndKeeps ==
    ASSUME CallInv, Quiet, NEW r \in {NoResult, Thrown} \cup {Result(x) : x \in 0..W-1}, End(r),
           UNCHANGED <<callVars, up, down, peer, serverVars>>
    PROVE  CallInv'
<1>1. Scalars'
  BY DEF End, CallInv, Scalars, callVars, serverVars
<1> QED BY <1>1 DEF CallInv, End, Fresh, Quiet, AtPeer, serverVars

\* send() or recv() fails: without interrupts the peer has closed, and nothing is left.
LEMMA FailureKeeps ==
    ASSUME Interrupts = FALSE, CallInv, SendFails \/ RecvFails
    PROVE  CallInv' /\ Quiet
<1>1. /\ End(Thrown) /\ UNCHANGED <<callVars, up, down, peer, serverVars>>
      /\ peer = "closed" /\ (pc = "send" \/ (pc \in {"mark", "data"} /\ down = <<>>))
  BY DEF SendFails, RecvFails
<1>2. CASE pc = "send"
  <2>1. Sending
    BY <1>2 DEF CallInv, Asked, Executed, Lost, Reading, ReadTo
  <2>2. Quiet
    BY <1>1, <2>1 DEF Sending, Quiet
  <2> QED BY <1>1, <2>2, EndKeeps
<1>3. CASE pc \in {"mark", "data"} /\ down = <<>>
  <2>1. Lost \/ Reading
    BY <1>1, <1>3 DEF CallInv, Sending, Asked, Executed
  <2>2. Quiet
    BY <1>3, <2>1 DEF Lost, Reading, Quiet, AtPeer
  <2> QED BY <1>1, <2>2, EndKeeps
<1> QED BY <1>1, <1>2, <1>3

\* SIGPIPE ends the process.
LEMMA KilledKeeps ==
    ASSUME CallInv, SendKilled
    PROVE  CallInv'
<1>1. /\ pc = "send" /\ pc' = "killed" /\ peer = "closed" /\ Scalars /\ Sending
      /\ UNCHANGED <<xid, auth, out, buf, left, last_fragment, record, res, up, down, peer,
                     work, runs>>
  BY DEF SendKilled, CallInv, callVars, bufVars, serverVars, Asked, Executed, Lost, Reading,
         ReadTo
<1>2. Msg' = Msg
  BY <1>1 DEF Msg
<1>3. Sending'
  BY <1>1, <1>2 DEF Sending, Fresh, AtPeer
<1>4. Scalars'
  BY <1>1 DEF Scalars
<1> QED BY <1>3, <1>4 DEF CallInv

\* parseReply returns the result of this call, or throws.
LEMMA ParseReplyKeeps ==
    ASSUME CallInv, ParseReply
    PROVE  /\ CallInv'
           /\ \/ res' = Thrown
              \/ res' = Result(xid) /\ runs = 1
<1>1. /\ pc = "parse" /\ UNCHANGED <<callVars, up, down, peer, serverVars>>
      /\ End(IF Accepted THEN Result(record[1].xid) ELSE Thrown)
  BY DEF ParseReply
<1>2. PICK st \in {"ok", "denied"} : record = Reply(xid, st) /\ (st = "ok" => runs = 1)
  BY <1>1, ParseFacts
<1>3. xid \in 0..W-1
  BY DEF CallInv, Scalars
<1>4. record[1].stat = st /\ record[1].xid = xid
  <2>1. Reply(xid, st)[1].stat = st /\ Reply(xid, st)[1].xid = xid
    BY <1>3, ReplyFacts
  <2> QED BY <1>2, <2>1
<1>5. CASE Accepted
  <2>1. End(Result(xid))
    BY <1>1, <1>4, <1>5
  <2>2. st = "ok" /\ runs = 1
    BY <1>2, <1>4, <1>5 DEF Accepted
  <2>3. CallInv'
    BY <1>1, <1>3, <2>1, ParseFacts, EndKeeps
  <2> QED BY <2>1, <2>2, <2>3 DEF End
<1>6. CASE ~Accepted
  <2>1. End(Thrown)
    BY <1>1, <1>6
  <2>2. CallInv'
    BY <1>1, <2>1, ParseFacts, EndKeeps
  <2> QED BY <2>1, <2>2 DEF End
<1> QED BY <1>5, <1>6

-----------------------------------------------------------------------------
(* The server and the connection.                                          *)

\* The server takes the CALL when all of it has arrived, and takes it for what it is.
LEMMA SrvTakeKeeps ==
    ASSUME CallInv, SrvTake
    PROVE  CallInv' /\ runs = 0 /\ runs' \in 0..1
<1>1. PICK n \in 1..(ReqLen + 1) :
          /\ Received(n)
          /\ IF WellFormed(n)
               THEN /\ \/ /\ work' = [xid |-> up[MarkLen + 1].xid, stat |-> "ok"]
                          /\ runs' = IF up[MarkLen + 1].xid = xid THEN runs + 1 ELSE runs
                       \/ /\ work' = [xid |-> up[MarkLen + 1].xid, stat |-> "denied"]
                          /\ UNCHANGED runs
                    /\ up' = Rest(up, MarkLen + n)
                    /\ UNCHANGED peer
               ELSE peer' = "closed" /\ up' = <<>> /\ UNCHANGED serverVars
  BY DEF SrvTake
<1>2. /\ Scalars /\ peer = "open" /\ work = Nothing
      /\ UNCHANGED <<pc, xid, auth, out, buf, left, last_fragment, record, res, down>>
  BY DEF SrvTake, CallInv, clientVars, callVars, bufVars
<1>3. /\ Msg \in Seq(Units) /\ Len(Msg) = MsgLen /\ MsgLen \in Nat /\ MsgLen > MarkLen
      /\ Front(Msg, MarkLen) = Mark(TRUE, ReqLen)
      /\ \A i \in 1..ReqLen :
            Msg[MarkLen + i] = [kind |-> "call", xid |-> xid, auth |-> auth, pos |-> i]
  BY <1>2, CallFacts DEF Scalars, Msg
<1>4. ReqLen \in Nat \ {0} /\ MarkLen = 2 /\ MsgLen = 2 + ReqLen /\ n \in Nat /\ n >= 1
  BY LenAssumption DEF MarkLen, MsgLen
<1>5. Len(up) >= MarkLen + n /\ Front(up, MarkLen) = Mark(TRUE, n)
  BY <1>1 DEF Received
<1>6. up # <<>>
  BY <1>4, <1>5
<1>7. ~Sending
  <2>1. SUFFICES ASSUME Sending PROVE FALSE
    OBVIOUS
  <2>2. PICK a \in 0..(MsgLen - 1) : up = Seg(Msg, 0, a)
    BY <1>2, <2>1 DEF Sending
  <2>3. Within(Msg, 0, a)
    BY <1>3 DEF Within
  <2>4. Len(up) = a - 0
    <3>1. Len(Seg(Msg, 0, a)) = a - 0
      BY <2>3, SegIsSeq
    <3> QED BY <2>2, <3>1
  <2>5. MarkLen <= a /\ a < MsgLen /\ MarkLen + n <= a
    BY <1>3, <1>4, <1>5, <2>4
  <2>6. Within(Msg, 0, MarkLen) /\ Within(Msg, MarkLen, a) /\ MarkLen = MarkLen - 0
    BY <1>3, <1>4, <2>5 DEF Within
  <2>7. Front(Seg(Msg, 0, a), MarkLen) = Seg(Msg, 0, MarkLen)
    BY <2>6, SegSplit
  <2>8. Front(Msg, MarkLen) = Seg(Msg, 0, MarkLen)
    BY DEF Front, Seg
  <2>9. Mark(TRUE, n) = Mark(TRUE, ReqLen)
    BY <1>3, <1>5, <2>2, <2>7, <2>8, Zenon
  <2>10. TRUE \in BOOLEAN /\ ReqLen \in Nat /\ n \in Nat
    BY <1>4
  <2>11. n = ReqLen
    BY <2>9, <2>10, MarkInjective
  <2> QED BY <1>4, <2>5, <2>11
<1>8. Asked /\ out = <<>>
  BY <1>2, <1>6, <1>7 DEF CallInv, Quiet, AtPeer, Executed, Lost, Reading
<1>9. n = ReqLen
  <2>1. Mark(TRUE, n) = Mark(TRUE, ReqLen)
    BY <1>3, <1>5, <1>8, Zenon DEF Asked
  <2>2. TRUE \in BOOLEAN /\ ReqLen \in Nat /\ n \in Nat
    BY <1>4
  <2> QED BY <2>1, <2>2, MarkInjective
<1>10. \A i \in 1..ReqLen :
          up[MarkLen + i] = [kind |-> "call", xid |-> xid, auth |-> auth, pos |-> i]
  BY <1>3, <1>8 DEF Asked
<1>11. up[MarkLen + 1].xid = xid
  <2>1. 1 \in 1..ReqLen
    BY <1>4
  <2>2. up[MarkLen + 1] = [kind |-> "call", xid |-> xid, auth |-> auth, pos |-> 1]
    BY <1>10, <2>1
  <2> QED BY <2>2
<1>12. WellFormed(n)
  <2>1. ASSUME NEW i \in 1..ReqLen
        PROVE  /\ up[MarkLen + i].kind = "call" /\ up[MarkLen + i].pos = i
               /\ up[MarkLen + i].xid = up[MarkLen + 1].xid
    <3>1. PICK u : u = up[MarkLen + i]
      OBVIOUS
    <3>2. u = [kind |-> "call", xid |-> xid, auth |-> auth, pos |-> i]
      BY <1>10, <3>1
    <3>3. u.kind = "call" /\ u.pos = i /\ u.xid = xid
      BY <3>2
    <3> QED BY <1>11, <3>1, <3>3, Zenon
  <2> QED BY <1>9, <2>1, Zenon DEF WellFormed
<1>13. up' = <<>>
  <2>1. up' = SubSeq(up, (MarkLen + n) + 1, Len(up))
    BY <1>1, <1>12 DEF Rest
  <2>2. Len(up) = MarkLen + n
    BY <1>3, <1>8, <1>9 DEF Asked, MsgLen
  <2>3. MarkLen + n + 1 \in Int /\ MarkLen + n \in Int /\ MarkLen + n < (MarkLen + n) + 1
    BY <1>4
  <2> QED BY <2>1, <2>2, <2>3, SubSeqEmpty
<1>14. /\ runs = 0 /\ peer' = "open" /\ runs' \in 0..1
       /\ \E st \in {"ok", "denied"} :
             work' = [xid |-> xid', stat |-> st] /\ (st = "ok" => runs' = 1)
  BY <1>1, <1>2, <1>8, <1>11, <1>12 DEF Asked
<1>15. Scalars'
  BY <1>2, <1>14 DEF Scalars
<1>16. Executed'
  BY <1>2, <1>8, <1>13, <1>14 DEF Executed, Asked, Fresh
<1> QED BY <1>2, <1>8, <1>14, <1>15, <1>16 DEF CallInv

\* The server sends its reply.
LEMMA SrvReplyKeeps ==
    ASSUME CallInv, SrvReply
    PROVE  CallInv'
<1>1. /\ peer = "open" /\ work # Nothing /\ work' = Nothing /\ Scalars
      /\ UNCHANGED <<pc, xid, auth, out, buf, left, last_fragment, record, res, up, peer, runs>>
  BY DEF SrvReply, CallInv, clientVars, callVars, bufVars
<1>2. Executed /\ out = <<>>
  BY <1>1 DEF CallInv, Quiet, Sending, Asked, Lost, Reading
<1>3. PICK st \in {"ok", "denied"} : work = [xid |-> xid, stat |-> st] /\ (st = "ok" => runs = 1)
  BY <1>2 DEF Executed
<1>4. PICK r : r = Reply(xid, st)
  OBVIOUS
<1>5. Reply(work.xid, work.stat) = r
  BY <1>3, <1>4
<1>6. r \in Seq(Units) /\ Len(r) = RepLen
  BY <1>1, <1>4, ReplyFacts DEF Scalars
<1>7. \E d \in Sendings(r) : down' = d.stream
  <2>1. CASE down' = down \o Mark(TRUE, RepLen) \o r
    <3>1. TRUE \in BOOLEAN /\ RepLen \in Nat
      BY LenAssumption
    <3>2. down \o Mark(TRUE, RepLen) = Mark(TRUE, RepLen)
      BY <1>2, <3>1, MarkFacts, ConcatEmptySeq DEF Executed
    <3>3. down' = Mark(TRUE, RepLen) \o r
      BY <2>1, <3>2, Zenon
    <3>4. [stream |-> Mark(TRUE, RepLen) \o r, frags |-> {Fragment(0, RepLen, 0)}] \in Sendings(r)
      BY DEF Sendings
    <3> QED BY <3>3, <3>4
  <2>2. ASSUME NEW k \in 0..RepLen,
               down' = down \o Mark(FALSE, k) \o Front(r, k)
                            \o Mark(TRUE, RepLen - k) \o Rest(r, k)
        PROVE  \E d \in Sendings(r) : down' = d.stream
    <3>1. FALSE \in BOOLEAN /\ k \in Nat
      BY LenAssumption
    <3>2. down \o Mark(FALSE, k) = Mark(FALSE, k)
      BY <1>2, <3>1, MarkFacts, ConcatEmptySeq DEF Executed
    <3>3. down' = Mark(FALSE, k) \o Front(r, k) \o Mark(TRUE, RepLen - k) \o Rest(r, k)
      BY <2>2, <3>2, Zenon
    <3>4. [stream |-> Mark(FALSE, k) \o Front(r, k) \o Mark(TRUE, RepLen - k) \o Rest(r, k),
           frags |-> {Fragment(0, k, 0), Fragment(MarkLen + k, RepLen - k, k)}] \in Sendings(r)
      BY DEF Sendings
    <3> QED BY <3>3, <3>4
  <2> QED BY <1>5, <2>1, <2>2 DEF SrvReply
<1>8. PICK d \in Sendings(r) : down' = d.stream
  BY <1>7
<1>9. Carries(d.stream, d.frags, r)
  BY <1>6, SendingsCarry
<1>10. PICK f \in d.frags : f.base = 0 /\ f.before = 0
  BY <1>9 DEF Carries
<1>11. d.stream \in Seq(Units) /\ Len(d.stream) \in Nat
  BY <1>9, LenProperties DEF Carries
<1>12. Within(d.stream, 0, Len(d.stream))
  BY <1>11 DEF Within
<1>13. ReadTo(r, d.stream, f, 0, Len(d.stream))'
  <2>1. down' = Seg(d.stream, 0, Len(d.stream))
    BY <1>8, <1>11, SegAll
  <2>2. buf' = Seg(d.stream, f.base, 0) /\ record' = Seg(r, 0, f.before)
    BY <1>1, <1>2, <1>10, SegEmpty DEF Executed, Fresh
  <2>3. pc' = "mark" /\ left' = 0 /\ last_fragment' = FALSE
    BY <1>1, <1>2 DEF Executed, Fresh
  <2> QED BY <1>10, <1>11, <2>1, <2>2, <2>3 DEF ReadTo, MarkLen
<1>14. /\ Scalars' /\ up' = <<>> /\ out' = <<>> /\ r = Reply(xid', st)
       /\ (st = "ok" => runs' = 1)
  BY <1>1, <1>2, <1>3, <1>4 DEF Scalars, Executed
<1> QED BY <1>1, <1>8, <1>10, <1>12, <1>13, <1>14, ReadingOn

\* The connection breaks.
LEMMA SrvClosesKeeps ==
    ASSUME CallInv, SrvCloses
    PROVE  CallInv'
<1>1. /\ peer = "open" /\ peer' = "closed" /\ up' \in {up, <<>>} /\ work' = Nothing /\ Scalars
      /\ UNCHANGED <<pc, xid, auth, out, buf, left, last_fragment, record, res, runs>>
  BY DEF SrvCloses, CallInv, clientVars, callVars, bufVars
<1>2. PICK n \in 0..Len(down) : down' = Front(down, n)
  BY DEF SrvCloses
<1>3. Scalars'
  BY <1>1 DEF Scalars
<1>4. ASSUME down = <<>> PROVE down' = <<>>
  <2>1. n = 0
    BY <1>4
  <2> QED BY <1>2, <1>4, <2>1, SubSeqEmpty DEF Front
<1>9. Msg \in Seq(Units) /\ Len(Msg) = MsgLen /\ MsgLen \in Nat
  BY <1>1, CallFacts DEF Scalars, Msg
<1>5. CASE pc \in {"new", "idle", "gone"} /\ Fresh /\ Quiet /\ out = <<>>
  BY <1>1, <1>3, <1>4, <1>5 DEF CallInv, Fresh, Quiet, AtPeer
<1>6. CASE Sending
  <2>1. PICK a \in 0..(MsgLen - 1) : /\ out = Seg(Msg, a, MsgLen)
                                     /\ up = Seg(Msg, 0, a) /\ runs = 0
    BY <1>1, <1>6 DEF Sending
  <2>2. out' = Seg(Msg', a, MsgLen)
    BY <1>1, <2>1 DEF Msg
  <2>3. AtPeer'
    <3>1. Within(Msg, 0, a)
      BY <1>9 DEF Within
    <3>2. Len(Seg(Msg, 0, a)) = a - 0
      BY <3>1, SegIsSeq
    <3>3. Len(up) <= MsgLen
      BY <1>9, <2>1, <3>2
    <3> QED BY <1>1, <2>1, <3>3 DEF AtPeer
  <2>4. \E b \in 0..(MsgLen - 1) : /\ out' = Seg(Msg', b, MsgLen)
                                   /\ peer' = "open" => up' = Seg(Msg', 0, b) /\ runs' = 0
    BY <1>1, <2>2, Zenon
  <2>5. pc' \in {"send", "killed"} /\ Fresh' /\ down' = <<>> /\ work' = Nothing
    BY <1>1, <1>4, <1>6 DEF Sending, Fresh
  <2> QED BY <1>1, <1>3, <2>3, <2>4, <2>5 DEF CallInv, Sending
<1>7. CASE out = <<>> /\ (Asked \/ Executed)
  <2>1. Lost' /\ out' = <<>>
    BY <1>1, <1>4, <1>7, <1>9 DEF Asked, Executed, Lost, Fresh, Quiet, AtPeer
  <2> QED BY <1>3, <2>1 DEF CallInv
<1>8. CASE out = <<>> /\ Reading
  <2>1. PICK st, r, d, f, p, q : Position(st, r, d, f, p, q)
    BY <1>1, <1>8, ReadingAt
  <2> DEFINE s == d.stream
  <2>2. /\ Within(s, p, q) /\ down = Seg(s, p, q) /\ ReadTo(r, s, f, p, q)
        /\ r = Reply(xid, st) /\ (st = "ok" => runs = 1) /\ d \in Sendings(r) /\ f \in d.frags
        /\ st \in {"ok", "denied"}
    BY <2>1 DEF Position, ReadTo
  <2> HIDE DEF s
  <2>3. PICK c : c = p + n
    OBVIOUS
  <2>4. c \in Nat /\ c <= q /\ Within(s, p, c) /\ down' = Seg(s, p, c)
    BY <1>2, <2>2, <2>3, NextUnits
  <2>5. p \in Nat /\ q \in Nat /\ q <= Len(s) /\ p <= c /\ c <= Len(s) /\ Len(s) \in Nat
    BY <2>2, <2>4, LenProperties DEF Within
  <2>6. ReadTo(r, s, f, p, c)'
    BY <1>1, <2>2, <2>4, <2>5 DEF ReadTo
  <2>7. r = Reply(xid', st) /\ (st = "ok" => runs' = 1) /\ out' = <<>> /\ up' = <<>>
    BY <1>1, <1>8, <2>2 DEF Reading
  <2> QED BY <1>1, <1>3, <2>2, <2>4, <2>6, <2>7, ReadingOn DEF s
<1> QED BY <1>1, <1>5, <1>6, <1>7, <1>8 DEF CallInv, Lost

\* A request that was with the server is executed after the connection broke.
LEMMA SrvLateKeeps ==
    ASSUME CallInv, SrvLate
    PROVE  CallInv' /\ runs = 0 /\ runs' \in 0..1
<1>1. /\ peer = "closed" /\ up' = <<>> /\ Scalars /\ runs' \in {runs, runs + 1}
      /\ UNCHANGED <<pc, xid, auth, out, buf, left, last_fragment, record, res, down, peer, work>>
  BY DEF SrvLate, CallInv, clientVars, callVars, bufVars
<1>2. up # <<>>
  <2>1. PICK n \in 1..ReqLen : Len(up) >= MarkLen + n
    BY DEF SrvLate, Received
  <2>2. ReqLen \in Nat /\ MarkLen = 2
    BY LenAssumption DEF MarkLen
  <2> QED BY <2>1, <2>2
<1>3. runs = 0 /\ ~Reading
  BY <1>1, <1>2 DEF CallInv, Quiet, AtPeer, Sending, Asked, Executed, Lost, Reading
<1>4. Scalars' /\ runs' \in 0..1 /\ AtPeer'
  BY <1>1, <1>3 DEF Scalars, AtPeer
<1>5. Msg' = Msg
  BY <1>1 DEF Msg
<1>6. Sending => Sending'
  BY <1>1, <1>4, <1>5 DEF Sending, Fresh
<1>7. Lost => Lost'
  BY <1>1, <1>4 DEF Lost, Fresh, Quiet
<1>8. CallInv'
  BY <1>1, <1>3, <1>4, <1>6, <1>7 DEF CallInv, Asked, Executed, Fresh, Quiet
<1> QED BY <1>3, <1>4, <1>8

-----------------------------------------------------------------------------
(* The theorems.                                                           *)

\* CallInv holds in every state.
LEMMA CallInvariance ==
    ASSUME Interrupts = FALSE
    PROVE  Spec => []CallInv
<1>1. Init => CallInv
  <2> SUFFICES ASSUME Init PROVE CallInv
    OBVIOUS
  <2>1. Scalars
    <3>1. last_fragment \in BOOLEAN
      BY Zenon DEF Init
    <3> QED BY <3>1, WAssumption DEF Init, Scalars
  <2> QED BY <2>1 DEF Init, CallInv, Fresh, Quiet, AtPeer
<1>2. CallInv /\ [Next]_vars => CallInv'
  <2> SUFFICES ASSUME CallInv, [Next]_vars PROVE CallInv'
    OBVIOUS
  <2>1. CASE Connect \/ SetAuth \/ Destroy
    BY <2>1, IdleStepKeeps
  <2>2. CASE Call
    BY <2>2, CallKeeps
  <2>3. CASE SendSome
    BY <2>3, SendSomeKeeps
  <2>4. CASE SendFails \/ RecvFails
    BY <2>4, FailureKeeps
  <2>5. CASE RecvMark
    BY <2>5, RecvMarkKeeps
  <2>6. CASE RecvData
    BY <2>6, RecvDataKeeps
  <2>7. CASE ParseReply
    BY <2>7, ParseReplyKeeps
  <2>8. CASE SrvTake
    BY <2>8, SrvTakeKeeps
  <2>9. CASE SrvReply
    BY <2>9, SrvReplyKeeps
  <2>10. CASE SrvCloses
    BY <2>10, SrvClosesKeeps
  <2>11. CASE UNCHANGED vars
    <3>1. UNCHANGED <<pc, xid, auth, out, buf, left, last_fragment, record, res, up, down, peer,
                      work, runs>>
      BY <2>11 DEF vars, clientVars, callVars, bufVars, serverVars
    <3>2. Scalars'
      BY <3>1 DEF CallInv, Scalars
    <3>3. Msg' = Msg
      BY <3>1 DEF Msg
    <3>4. Sending => Sending'
      BY <3>1, <3>3 DEF Sending, Fresh, AtPeer
    <3>5. (Asked => Asked') /\ (Executed => Executed') /\ (Lost => Lost')
      BY <3>1, <3>3 DEF Asked, Executed, Lost, Fresh, Quiet, AtPeer
    <3>6. Reading => Reading'
      BY <3>1 DEF Reading, ReadTo
    <3> QED BY <3>1, <3>2, <3>4, <3>5, <3>6 DEF CallInv, Fresh, Quiet, AtPeer
  <2>12. CASE SendKilled
    BY <2>12, KilledKeeps
  <2>13. CASE SrvLate
    BY <2>13, SrvLateKeeps
  <2> QED
    BY <2>1, <2>2, <2>3, <2>4, <2>5, <2>6, <2>7, <2>8, <2>9, <2>10, <2>11, <2>12, <2>13
    DEF Next, ClientStep, ServerStep
<1> QED BY <1>1, <1>2, PTL DEF Spec

\* The parts of the invariant bound what is in the buffers and on the connection.
LEMMA Bounded ==
    ASSUME CallInv
    PROVE  TypeOK
<1>1. Scalars /\ MsgLen = MarkLen + ReqLen /\ MsgLen \in Nat /\ MarkLen = 2 /\ RepLen \in Nat
  BY LenAssumption DEF CallInv, MsgLen, MarkLen
<1>2. Msg \in Seq(Units) /\ Len(Msg) = MsgLen
  BY <1>1, CallFacts DEF Scalars, Msg
<1>3. work \in [xid : 0..W, stat : {"none", "ok", "denied"}]
  <2>1. work = Nothing \/ \E st \in {"ok", "denied"} : work = [xid |-> xid, stat |-> st]
    BY DEF CallInv, Quiet, Sending, Asked, Executed, Lost, Reading
  <2>2. xid \in 0..W /\ W \in 0..W
    BY <1>1, WAssumption DEF Scalars
  <2> QED BY <2>1, <2>2 DEF Nothing
<1>4. Len(out) <= MsgLen /\ Len(up) <= MsgLen
  <2>1. CASE Sending
    <3>1. PICK n \in 0..(MsgLen - 1) : /\ out = Seg(Msg, n, MsgLen)
                                       /\ up = Seg(Msg, 0, n) \/ AtPeer
      BY <1>1, <2>1 DEF Sending, Scalars
    <3>2. Within(Msg, n, MsgLen) /\ Within(Msg, 0, n)
      BY <1>1, <1>2 DEF Within
    <3>3. Len(Seg(Msg, n, MsgLen)) = MsgLen - n /\ Len(Seg(Msg, 0, n)) = n - 0
      BY <3>2, SegIsSeq
    <3>4. Len(out) = MsgLen - n /\ (Len(up) = n \/ Len(up) = 0 \/ Len(up) <= MsgLen)
      BY <3>1, <3>3 DEF AtPeer
    <3> QED BY <1>1, <3>4
  <2>2. CASE ~Sending
    <3>1. out = <<>> /\ (up = <<>> \/ up = Msg \/ Len(up) <= MsgLen)
      BY <2>2 DEF CallInv, Quiet, AtPeer, Asked, Executed, Lost, Reading
    <3> QED BY <1>1, <1>2, <3>1
  <2> QED BY <2>1, <2>2
<1>5. /\ Len(buf) < MarkLen /\ left \in 0..RepLen /\ last_fragment \in BOOLEAN
      /\ Len(record) <= RepLen /\ Len(down) <= 2 * MarkLen + RepLen
  <2>1. CASE Reading
    <3>1. PICK st, r, d, f, p, q : Position(st, r, d, f, p, q)
      BY <1>1, <2>1, ReadingAt
    <3> DEFINE s == d.stream
    <3>2. /\ Within(s, p, q) /\ Carries(s, d.frags, r) /\ ReadTo(r, s, f, p, q)
          /\ r \in Seq(Units) /\ Len(r) = RepLen /\ f \in d.frags
      BY <3>1 DEF Position
    <3> HIDE DEF s
    <3>3. Holds(s, d.frags, r, f)
      BY <3>2 DEF Carries
    <3>4. PICK bs, ln, bf, e : bs = f.base /\ ln = f.len /\ bf = f.before /\ e = EndOf(f)
      OBVIOUS
    <3>5. /\ bs \in Nat /\ ln \in 0..RepLen /\ bf \in Nat /\ bf + ln <= RepLen /\ e <= Len(s)
          /\ e = bs + 2 + ln
      BY <1>1, <3>3, <3>4 DEF Holds, EndOf
    <3>6. /\ p \in Nat /\ q \in Nat /\ p <= q /\ q <= Len(s)
          /\ Len(s) \in Nat /\ Len(s) <= 2 * MarkLen + RepLen
      BY <3>2, LenProperties DEF Within, Carries
    <3>7. Len(down) <= 2 * MarkLen + RepLen
      <4>1. Len(Seg(s, p, q)) = q - p
        BY <3>2, SegIsSeq
      <4>2. Len(down) = q - p
        BY <3>2, <4>1 DEF ReadTo
      <4> QED BY <1>1, <3>6, <4>2
    <3>8. CASE pc = "mark"
      <4>1. /\ bs <= p /\ p < bs + 2 /\ buf = Seg(s, bs, p) /\ left = 0 /\ last_fragment = FALSE
            /\ record = Seg(r, 0, bf)
        BY <1>1, <3>2, <3>4, <3>8 DEF ReadTo
      <4>2. Within(s, bs, p) /\ Within(r, 0, bf)
        BY <1>1, <3>2, <3>5, <3>6, <4>1 DEF Within
      <4>3. Len(Seg(s, bs, p)) = p - bs /\ Len(Seg(r, 0, bf)) = bf - 0
        BY <4>2, SegIsSeq
      <4>4. Len(buf) = p - bs /\ Len(record) = bf
        BY <3>5, <4>1, <4>3
      <4>5. Len(buf) < MarkLen /\ Len(record) <= RepLen /\ left \in 0..RepLen
        BY <1>1, <3>5, <3>6, <4>1, <4>4
      <4> QED BY <3>7, <4>1, <4>5
    <3>9. CASE pc = "data"
      <4>1. /\ bs + 2 <= p /\ p < e /\ buf = <<>> /\ left = e - p
            /\ last_fragment <=> IsLast(s, f)
            /\ record = Seg(r, 0, bf + (p - bs - 2))
        BY <1>1, <3>2, <3>4, <3>9 DEF ReadTo
      <4>2. PICK j : j = bf + (p - bs - 2)
        OBVIOUS
      <4>3. j \in Nat /\ j <= RepLen /\ left \in 0..RepLen
        BY <1>1, <3>5, <3>6, <4>1, <4>2
      <4>4. Within(r, 0, j)
        BY <1>1, <3>2, <4>3 DEF Within
      <4>5. Len(Seg(r, 0, j)) = j - 0
        BY <4>4, SegIsSeq
      <4>6. Len(record) = j /\ Len(buf) = 0
        BY <4>1, <4>2, <4>3, <4>5
      <4>7. last_fragment \in BOOLEAN
        BY <1>1, Zenon DEF Scalars
      <4> QED BY <1>1, <3>7, <4>3, <4>6, <4>7
    <3>10. CASE pc = "parse"
      <4>1. buf = <<>> /\ left = 0 /\ last_fragment /\ record = r
        BY <3>2, <3>10 DEF ReadTo
      <4>2. Len(buf) = 0 /\ Len(record) = RepLen
        BY <3>2, <4>1
      <4>3. last_fragment \in BOOLEAN
        BY <1>1, Zenon DEF Scalars
      <4> QED BY <1>1, <3>7, <4>1, <4>2, <4>3
    <3> QED BY <3>2, <3>8, <3>9, <3>10 DEF ReadTo
  <2>2. CASE ~Reading
    <3>1. Fresh /\ down = <<>>
      BY <2>2 DEF CallInv, Quiet, Sending, Asked, Executed, Lost
    <3>2. Len(buf) = 0 /\ left = 0 /\ last_fragment = FALSE /\ Len(record) = 0 /\ Len(down) = 0
      BY <3>1 DEF Fresh
    <3>3. Len(buf) < MarkLen /\ left \in 0..RepLen /\ Len(record) <= RepLen
          /\ Len(down) <= 2 * MarkLen + RepLen
      BY <1>1, <3>2
    <3> QED BY <3>2, <3>3
  <2> QED BY <2>1, <2>2
<1> QED BY <1>1, <1>3, <1>4, <1>5 DEF TypeOK, Scalars

\* Every variable of the client, the connection and the server keeps its type, and no
\* buffer and no direction of the connection ever holds more than one message.
THEOREM TypeCorrect ==
    ASSUME Interrupts = FALSE
    PROVE  Spec => []TypeOK
<1>1. CallInv => TypeOK
  BY Bounded
<1> QED BY <1>1, CallInvariance, PTL

\* Between calls nothing is left on a working connection, however the messages were cut
\* and whichever calls failed before: recvRecord reads exactly the units of the reply.
THEOREM NothingLeft ==
    ASSUME Interrupts = FALSE
    PROVE  Spec => []NoResidue
<1>1. CallInv => NoResidue
  BY DEF CallInv, NoResidue, Quiet, AtPeer, Sending, Asked, Executed, Lost, Reading, ReadTo
<1> QED BY <1>1, CallInvariance, PTL

\* The record that parseReply gets is a whole reply, for any fragmentation by the server
\* and any sizes that recv() returns.
THEOREM RecordWhole ==
    ASSUME Interrupts = FALSE
    PROVE  Spec => []WholeRecord
<1>1. CallInv => WholeRecord
  <2> SUFFICES ASSUME CallInv, pc = "parse"
               PROVE  \E x \in 0..W-1, st \in {"ok", "denied"} : record = Reply(x, st)
    BY DEF WholeRecord
  <2>1. xid \in 0..W-1
    BY DEF CallInv, Scalars
  <2> QED BY <2>1, ParseFacts
<1> QED BY <1>1, CallInvariance, PTL

\* A step of the client and the server is a step of Rpc, or invisible in it.
LEMMA StepRefines ==
    ASSUME Interrupts = FALSE, CallInv, [Next]_vars
    PROVE  [Abstract!Next]_(Abstract!vars)
<1> DEFINE Busy(c) == c \in {"send", "mark", "data", "parse", "killed"}
<1>1. CASE Connect \/ SetAuth \/ Destroy
  <2>1. Busy(pc) = Busy(pc') /\ UNCHANGED <<xid, runs, res>>
    BY <1>1 DEF Connect, SetAuth, Destroy, callVars, serverVars
  <2> QED BY <2>1 DEF Abstract!vars
<1>2. CASE Call
  BY <1>2 DEF Call, NextXid, NoResult, Abstract!Next, Abstract!Call, Abstract!NoResult
<1>3. CASE SendSome \/ SendKilled \/ RecvMark \/ RecvData
  <2>1. Busy(pc) /\ Busy(pc') /\ UNCHANGED <<xid, runs, res>>
    BY <1>3 DEF SendSome, SendKilled, RecvMark, RecvData, callVars, serverVars
  <2> QED BY <2>1 DEF Abstract!vars
<1>4. CASE SendFails \/ RecvFails
  <2>1. Busy(pc) /\ pc' = "idle" /\ res' = Thrown /\ UNCHANGED <<xid, runs>>
    BY <1>4 DEF SendFails, RecvFails, End, callVars, serverVars
  <2> QED BY <2>1 DEF Thrown, Abstract!Next, Abstract!Throw, Abstract!Thrown
<1>5. CASE ParseReply
  <2>1. Busy(pc) /\ pc' = "idle" /\ UNCHANGED <<xid, runs>>
    BY <1>5 DEF ParseReply, End, callVars, serverVars
  <2>2. res' = Thrown \/ (res' = Result(xid) /\ runs = 1)
    BY <1>5, ParseReplyKeeps
  <2> QED BY <2>1, <2>2 DEF Thrown, Result, Abstract!Next, Abstract!Throw, Abstract!Thrown,
                            Abstract!Return, Abstract!Result
<1>6. CASE SrvTake \/ SrvLate
  <2>1. UNCHANGED <<pc, xid, res>>
    BY <1>6 DEF SrvTake, SrvLate, clientVars, callVars
  <2>2. runs = 0 /\ (runs' = 0 \/ runs' = 1)
    BY <1>6, SrvTakeKeeps, SrvLateKeeps
  <2> QED BY <2>1, <2>2 DEF Abstract!vars, Abstract!Next, Abstract!Execute
<1>7. CASE SrvReply \/ SrvCloses
  <2>1. UNCHANGED <<pc, xid, runs, res>>
    BY <1>7 DEF SrvReply, SrvCloses, clientVars, callVars
  <2> QED BY <2>1 DEF Abstract!vars
<1>8. CASE UNCHANGED vars
  <2>1. UNCHANGED <<pc, xid, runs, res>>
    BY <1>8 DEF vars, clientVars, callVars, serverVars
  <2> QED BY <2>1 DEF Abstract!vars
<1> QED BY <1>1, <1>2, <1>3, <1>4, <1>5, <1>6, <1>7, <1>8 DEF Next, ClientStep, ServerStep

\* TcpRpcClient implements Rpc: call() throws, or returns the result of its own request,
\* which the server executed exactly once.
THEOREM RpcRefinement ==
    ASSUME Interrupts = FALSE
    PROVE  Spec => ImplementsRpc
<1>1. Init => Abstract!Init
  BY DEF Init, NoResult, Abstract!Init, Abstract!NoResult
<1>2. CallInv /\ [Next]_vars => [Abstract!Next]_(Abstract!vars)
  BY StepRefines
<1> QED BY <1>1, <1>2, CallInvariance, PTL DEF Spec, ImplementsRpc, Abstract!Spec
=============================================================================
