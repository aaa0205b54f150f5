----------------------------- MODULE RpcClient ------------------------------
(***************************************************************************)
(* TcpRpcClient (src/rpc/rpc_client.cpp): one call at a time over a TCP    *)
(* connection with record marking, and the server at the other end.        *)
(*                                                                         *)
(* The two directions of the connection are sequences of units.  A record  *)
(* mark is MarkLen units, so that send() and recv() can stop inside one,   *)
(* as inside a CALL or a REPLY; a data unit says which message it belongs  *)
(* to and its place there, which is all the properties ask of its bytes.   *)
(***************************************************************************)
EXTENDS Integers, Sequences

CONSTANTS
    W,             \* transaction ids are counted modulo W (2^32 in the code)
    ReqLen,        \* data units of a CALL
    RepLen,        \* data units of a REPLY
    Interrupts     \* a signal may end send() and recv() with EINTR

ASSUME WAssumption          == W \in Nat /\ W >= 2
ASSUME LenAssumption        == ReqLen \in Nat \ {0} /\ RepLen \in Nat \ {0}
ASSUME InterruptsAssumption == Interrupts \in BOOLEAN

VARIABLES
    \* the client object
    pc,            \* "new", "idle", "send", "mark", "data", "parse", "gone", "killed"
    xid,           \* xid_ - 1: the id of the last call
    auth,          \* auth_sys_: "none" or "sys"
    out,           \* sendAll: what is left to send
    buf,           \* recvRecord: mark_buf
    left,          \* recvRecord: units of the fragment still to read
    last_fragment, \* recvRecord: the bit of the mark
    record,        \* recvRecord: the reassembled record
    res,           \* how the last call ended
    \* the connection
    up, down,      \* what is in transit to the server and to the client
    peer,          \* the server's end: "open", "closed"
    \* the server
    work,          \* the reply it is about to write: [xid, stat], or Nothing
    runs           \* how often it executed the current call

callVars   == <<xid, auth>>
bufVars    == <<out, buf, left, last_fragment, record>>
clientVars == <<pc, callVars, bufVars, res>>
serverVars == <<work, runs>>
vars       == <<clientVars, up, down, peer, serverVars>>

MarkLen      == 2
Mark(l, n)   == [i \in 1..MarkLen |-> [kind |-> "mark", last |-> l, len |-> n, part |-> i]]
Request(x)   == [i \in 1..ReqLen |-> [kind |-> "call", xid |-> x, auth |-> auth, pos |-> i]]
Reply(x, st) == [i \in 1..RepLen |-> [kind |-> "reply", xid |-> x, stat |-> st, pos |-> i]]
Nothing      == [xid |-> W, stat |-> "none"]
NoResult     == [kind |-> "none", xid |-> 0]
Thrown       == [kind |-> "thrown", xid |-> 0]
Result(x)    == [kind |-> "ok", xid |-> x]

Front(s, n)  == SubSeq(s, 1, n)
Rest(s, n)   == SubSeq(s, n + 1, Len(s))

TypeOK ==
    /\ pc \in {"new", "idle", "send", "mark", "data", "parse", "gone", "killed"}
    /\ xid \in 0..W-1
    /\ auth \in {"none", "sys"}
    /\ Len(out) <= MarkLen + ReqLen
    /\ Len(buf) < MarkLen
    /\ left \in 0..RepLen
    /\ last_fragment \in BOOLEAN
    /\ Len(record) <= RepLen
    /\ res \in {NoResult, Thrown} \cup {Result(x) : x \in 0..W-1}
    /\ Len(up) <= MarkLen + ReqLen
    /\ Len(down) <= 2 * MarkLen + RepLen
    /\ peer \in {"open", "closed"}
    /\ work \in [xid : 0..W, stat : {"none", "ok", "denied"}]
    /\ runs \in 0..1

Init ==
    /\ pc = "new"
    /\ xid = 0
    /\ auth = "none"
    /\ out = <<>>
    /\ buf = <<>>
    /\ left = 0
    /\ last_fragment = FALSE
    /\ record = <<>>
    /\ res = NoResult
    /\ up = <<>>
    /\ down = <<>>
    /\ peer = "closed"
    /\ work = Nothing
    /\ runs = 0

-----------------------------------------------------------------------------
(* The client.                                                             *)

\* Constructor: connect() succeeds, or the constructor throws.
Connect ==
    /\ pc = "new"
    /\ \/ pc' = "idle" /\ peer' = "open"
       \/ pc' = "gone" /\ UNCHANGED peer
    /\ UNCHANGED <<callVars, bufVars, res, up, down, serverVars>>

\* set_auth_sys and clear_auth.
SetAuth ==
    /\ pc = "idle"
    /\ auth' \in {"none", "sys"}
    /\ UNCHANGED <<pc, xid, bufVars, res, up, down, peer, serverVars>>

\* Destructor: the socket is closed.
Destroy ==
    /\ pc = "idle"
    /\ pc' = "gone"
    /\ UNCHANGED <<callVars, bufVars, res, up, down, peer, serverVars>>

\* A mutant: the mark announces one unit too many.
addRecordMark_Long(payload) == Mark(TRUE, Len(payload) + 1) \o payload
\* The payload behind a mark with its length, as one last fragment.
addRecordMark(payload) == Mark(TRUE, Len(payload)) \o payload

\* A mutant: xid_ does not wrap.
NextXid_NoWrap(x) == x + 1
\* xid_++
NextXid(x) == (x + 1) % W

\* call(): xid_++, buildCallMessage and addRecordMark.
Call ==
    /\ pc = "idle"
    /\ xid' = NextXid(xid)
    /\ out' = addRecordMark(Request(xid'))
    /\ record' = <<>>
    /\ res' = NoResult
    /\ runs' = 0
    /\ pc' = "send"
    /\ UNCHANGED <<auth, buf, left, last_fragment, up, down, peer, work>>

\* The call ends with result r; its buffers are locals and go.
End(r) ==
    /\ pc' = "idle"
    /\ res' = r
    /\ out' = <<>>
    /\ buf' = <<>>
    /\ left' = 0
    /\ last_fragment' = FALSE
    /\ record' = <<>>

\* A mutant: sendAll takes the first send() for all.
AllSent_Short(n) == TRUE
\* sendAll: total has reached data.size().
AllSent(n) == n = Len(out)

\* sendAll: send() takes the next n units, which go nowhere if the server has closed.
SendSome ==
    /\ pc = "send"
    /\ \E n \in 1..Len(out) :
          /\ up' = IF peer = "open" THEN up \o Front(out, n) ELSE up
          /\ out' = Rest(out, n)
          /\ pc' = IF AllSent(n) THEN "mark" ELSE "send"
    /\ UNCHANGED <<callVars, buf, left, last_fragment, record, res, down, peer, serverVars>>

\* sendAll: send() fails and call() throws.
SendFails ==
    /\ pc = "send"
    /\ Interrupts \/ peer = "closed"
    /\ End(Thrown)
    /\ UNCHANGED <<callVars, up, down, peer, serverVars>>

\* sendAll: the flags of send() are 0 and nothing in the program ignores SIGPIPE, so that
\* a send on a connection known to be broken ends the process before it can return.
SendKilled ==
    /\ pc = "send"
    /\ peer = "closed"
    /\ pc' = "killed"
    /\ UNCHANGED <<callVars, bufVars, res, up, down, peer, serverVars>>

\* What mark_buf means: a mark, or any number if the stream is out of step.
Marks(b) ==
    {m \in BOOLEAN \X (0..RepLen) :
        b = Mark(m[1], m[2]) \/ \A l \in BOOLEAN, n \in 0..RepLen : b # Mark(l, n)}

\* A mutant: recvRecord takes the first fragment for the record.
Complete_First(l) == TRUE
\* recvRecord: if (last_fragment) break
Complete(l) == l

\* recvRecord: recv() of the mark; with the last unit of it the fragment begins.
RecvMark ==
    /\ pc = "mark"
    /\ \E n \in 1..(MarkLen - Len(buf)) :
          /\ n <= Len(down)
          /\ down' = Rest(down, n)
          /\ LET b == buf \o Front(down, n)
             IN  IF Len(b) < MarkLen
                   THEN buf' = b /\ UNCHANGED <<pc, left, last_fragment>>
                   ELSE \E m \in Marks(b) :
                          /\ buf' = <<>>
                          /\ last_fragment' = m[1]
                          /\ left' = m[2]
                          /\ pc' = IF m[2] > 0 THEN "data"
                                   ELSE IF Complete(m[1]) THEN "parse" ELSE "mark"
    /\ UNCHANGED <<callVars, out, record, res, up, peer, serverVars>>

\* recvRecord: recv() of the data of the fragment.
RecvData ==
    /\ pc = "data"
    /\ \E n \in 1..left :
          /\ n <= Len(down)
          /\ down' = Rest(down, n)
          /\ record' = record \o Front(down, n)
          /\ left' = left - n
          /\ pc' = IF n < left THEN "data"
                   ELSE IF Complete(last_fragment) THEN "parse" ELSE "mark"
    /\ UNCHANGED <<callVars, out, buf, last_fragment, res, up, peer, serverVars>>

\* recvRecord: recv() returns 0 or -1 and call() throws.
RecvFails ==
    /\ pc \in {"mark", "data"}
    /\ Interrupts \/ (peer = "closed" /\ down = <<>>)
    /\ End(Thrown)
    /\ UNCHANGED <<callVars, up, down, peer, serverVars>>

\* A mutant: accept_stat and reply_stat are not looked at.
Accepted_Any == record # <<>> /\ record[1].kind = "reply"
\* parseReply accepts the record, whatever its xid.
Accepted == record # <<>> /\ record[1].kind = "reply" /\ record[1].stat = "ok"

\* parseReply: the body of the record, or an exception.
ParseReply ==
    /\ pc = "parse"
    /\ End(IF Accepted THEN Result(record[1].xid) ELSE Thrown)
    /\ UNCHANGED <<callVars, up, down, peer, serverVars>>

-----------------------------------------------------------------------------
(* The server, external to the repository.                                 *)

\* The CALL at the front of the stream is complete.
Received(n) == /\ Len(up) >= MarkLen + n
               /\ Front(up, MarkLen) = Mark(TRUE, n)

\* It is one message.
WellFormed(n) == \A i \in 1..n : up[MarkLen + i].kind = "call"
                              /\ up[MarkLen + i].xid = up[MarkLen + 1].xid
                              /\ up[MarkLen + i].pos = i

\* The server executes a request, or rejects it; a garbled one ends the connection.
SrvTake ==
    /\ peer = "open"
    /\ work = Nothing
    /\ \E n \in 1..(ReqLen + 1) :
          /\ Received(n)
          /\ IF WellFormed(n)
               THEN /\ \/ /\ work' = [xid |-> up[MarkLen + 1].xid, stat |-> "ok"]
                          /\ runs' = IF up[MarkLen + 1].xid = xid THEN runs + 1 ELSE runs
                       \/ /\ work' = [xid |-> up[MarkLen + 1].xid, stat |-> "denied"]
                          /\ UNCHANGED runs
                    /\ up' = Rest(up, MarkLen + n)
                    /\ UNCHANGED peer
               ELSE peer' = "closed" /\ up' = <<>> /\ UNCHANGED serverVars
    /\ UNCHANGED <<clientVars, down>>

\* The reply goes out as one fragment or as two, either of which may be empty.
SrvReply ==
    /\ peer = "open"
    /\ work # Nothing
    /\ LET r == Reply(work.xid, work.stat)
       IN  \/ down' = down \o Mark(TRUE, RepLen) \o r
           \/ \E k \in 0..RepLen :
                 down' = down \o Mark(FALSE, k) \o Front(r, k)
                              \o Mark(TRUE, RepLen - k) \o Rest(r, k)
    /\ work' = Nothing
    /\ UNCHANGED <<clientVars, up, peer, runs>>

\* The connection breaks: what the client has not read is lost from some point on.  What
\* it has sent is lost too, or is with the server by now.
SrvCloses ==
    /\ peer = "open"
    /\ peer' = "closed"
    /\ up' \in {up, <<>>}
    /\ work' = Nothing
    /\ \E n \in 0..Len(down) : down' = Front(down, n)
    /\ UNCHANGED <<clientVars, runs>>

\* A request that the server had received is executed after the connection broke, and
\* its answer goes nowhere.
SrvLate ==
    /\ peer = "closed"
    /\ \E n \in 1..ReqLen : Received(n) /\ WellFormed(n)
    /\ runs' = IF up[MarkLen + 1].xid = xid THEN runs + 1 ELSE runs
    /\ up' = <<>>
    /\ UNCHANGED <<clientVars, down, peer, work>>

-----------------------------------------------------------------------------
ClientStep ==
    \/ SendSome \/ SendFails \/ SendKilled
    \/ RecvMark \/ RecvData \/ RecvFails \/ ParseReply
ServerStep == SrvTake \/ SrvReply

Next ==
    \/ Connect \/ SetAuth \/ Destroy \/ Call \/ ClientStep
    \/ ServerStep \/ SrvCloses \/ SrvLate

Spec == Init /\ [][Next]_vars

\* A call in progress and a server with a request both go on; nothing makes the
\* application call, and nothing makes a connection break.
FairSpec == Spec /\ WF_vars(ClientStep) /\ WF_vars(ServerStep)

-----------------------------------------------------------------------------
(* Properties.                                                             *)

\* Between calls a working connection is empty in both directions: recvRecord has
\* read exactly the units of the reply, so the next call begins in step.
NoResidue ==
    (pc = "idle" /\ peer = "open") => up = <<>> /\ down = <<>> /\ work = Nothing

\* The record handed to parseReply is the whole reply, in order, however it was
\* fragmented and however recv() cut it.
WholeRecord ==
    pc = "parse" => \E x \in 0..W-1, st \in {"ok", "denied"} : record = Reply(x, st)

\* TcpRpcClient implements Rpc: call() returns the result of its own request, which
\* the server executed once, or throws.
Abstract == INSTANCE Rpc WITH busy <- pc \in {"send", "mark", "data", "parse", "killed"},
                              req  <- xid
ImplementsRpc == Abstract!Spec

\* A call never hangs on a connection that works or is known to be broken: it returns or
\* throws, unless SIGPIPE ends the process, which only a send on a broken connection does.
CallEnds == pc = "send" ~> pc = "idle" \/ (pc = "killed" /\ peer = "closed")

\* "sends it, reads the REPLY, and returns the raw XDR bytes of the procedure result
\* body": the result of a call is the result of that call.
OwnReply == res.kind = "ok" => res.xid = xid
=============================================================================
