---------------------------- MODULE Nfs41Session ----------------------------
(***************************************************************************)
(* Nfs41Client (src/nfs41_client.cpp) and the NFSv4.1 server it talks to.  *)
(*                                                                         *)
(* A client object is built once (EXCHANGE_ID, CREATE_SESSION,             *)
(* RECLAIM_COMPLETE, PUTROOTFH + GETFH), then runs one COMPOUND at a time  *)
(* on slot 0 of its session, and ends in its destructor.  An object that   *)
(* lost its session or its connection never gets a new one, so the         *)
(* instance c also names its verifier, its clientid and its sessionid.     *)
(* Every instance registers the same owner string "nfsclient-v41", so the  *)
(* server keeps one confirmed and one unconfirmed client record for all.   *)
(*                                                                         *)
(* TcpRpcClient is taken to keep the promise of module Rpc: a call gets    *)
(* the reply of its own request, or throws because nothing was sent, or    *)
(* throws because the connection is gone, and then the server may execute  *)
(* the request even after that.  Sequence ids are uint32_t in the code and *)
(* 0 .. W-1 here.  The OPEN seqid the client also counts (open_seqid_) is  *)
(* ignored by a v4.1 server and left out.                                  *)
(***************************************************************************)
EXTENDS Integers

CONSTANTS
    Clients,       \* the Nfs41Client objects of the run
    Callers,       \* those whose application calls their methods
    Files,         \* files they open
    None,          \* no client record
    W,             \* sequence ids are counted modulo W (2^32 in the code)
    MaxSkew,       \* bound: compounds of one session the server did not accept
    MaxStateid,    \* bound: open stateids handed out
    MaxRestarts,   \* bound: server restarts
    LeaseLapses    \* an idle client may lose its lease

ASSUME CallersAssumption == Callers \subseteq Clients
ASSUME WAssumption       == W \in Nat /\ W >= 2
ASSUME SkewAssumption    == MaxSkew \in Nat /\ MaxSkew <= W - 2
ASSUME BoundsAssumption  == MaxStateid \in Nat /\ MaxRestarts \in Nat /\ LeaseLapses \in BOOLEAN
ASSUME NoneAssumption    == None \notin Clients /\ None \notin Files

VARIABLES
    \* the client objects
    life,          \* "new", "boot" (in the constructor), "ready", "failed", "gone"
    conn,          \* the TCP connection works
    slot_seqid,    \* slot_seqid_: the sequence id of the next COMPOUND
    cur,           \* the call in progress: [op, file, sid]
    files,         \* Nfs4File values returned by open and not yet closed
    closed,        \* Nfs4File values whose close() returned normally
    \* the connection: at most one request or reply is on it
    chan,          \* "idle", "request", "reply", "backoff" (sleep(5) after GRACE)
    seq,           \* sa_sequenceid of the request
    status,        \* status of the COMPOUND in the reply
    rsid,          \* stateid in the reply to OPEN
    \* the server
    unconf, conf,  \* unconfirmed and confirmed record of the owner string
    sess,          \* live sessions
    slot,          \* sequence id last accepted on slot 0 of each session
    opens,         \* current open stateid of each client and file, 0 if closed
    lastsid,       \* stateids handed out so far
    late,          \* a request whose connection broke, and its sa_sequenceid: [call, seq]
    grace,         \* the server is in its grace period
    restarts,
    \* bookkeeping
    skew           \* compounds sent on this session and not accepted by the server

clientVars == <<life, conn, slot_seqid, cur, files, closed>>
chanVars   == <<chan, seq, status, rsid>>
serverVars == <<unconf, conf, sess, slot, opens, lastsid, late, grace, restarts>>
vars       == <<clientVars, chanVars, serverVars, skew>>

Handles  == [file : Files, sid : 1..MaxStateid]
SeqOps   == {"reclaim_complete", "root", "open", "close", "io", "query", "modify"}
BootOps  == {"exchange_id", "create_session", "reclaim_complete", "root"}
Ops      == SeqOps \cup BootOps \cup {"destroy_session", "none"}
Statuses == {"none", "ok", "grace", "err", "bad_stateid", "unusable", "badsession",
             "misordered", "replay", "rejected", "stale_clientid"}
Call(o, f, s) == [op |-> o, file |-> f, sid |-> s]
NoCall        == Call("none", None, 0)
Calls         == [op : Ops, file : Files \cup {None}, sid : 0..MaxStateid]
NoRequest     == [call |-> NoCall, seq |-> 0]

TypeOK ==
    /\ life \in [Clients -> {"new", "boot", "ready", "failed", "gone"}]
    /\ conn \in [Clients -> BOOLEAN]
    /\ slot_seqid \in [Clients -> 0..W-1]
    /\ cur \in [Clients -> Calls]
    /\ files \in [Clients -> SUBSET Handles]
    /\ closed \in [Clients -> SUBSET Handles]
    /\ chan \in [Clients -> {"idle", "request", "reply", "backoff"}]
    /\ seq \in [Clients -> 0..W-1]
    /\ status \in [Clients -> Statuses]
    /\ rsid \in [Clients -> 0..MaxStateid]
    /\ unconf \in Clients \cup {None}
    /\ conf \in Clients \cup {None}
    /\ sess \in SUBSET Clients
    /\ slot \in [Clients -> 0..W-1]
    /\ opens \in [Clients -> [Files -> 0..MaxStateid]]
    /\ lastsid \in 0..MaxStateid
    /\ late \in [Clients -> [call : Calls, seq : 0..W-1]]
    /\ grace \in BOOLEAN
    /\ restarts \in 0..MaxRestarts
    /\ skew \in [Clients -> 0..MaxSkew]

Init ==
    /\ life = [c \in Clients |-> "new"]
    /\ conn = [c \in Clients |-> FALSE]
    /\ slot_seqid = [c \in Clients |-> 1]
    /\ cur = [c \in Clients |-> NoCall]
    /\ files = [c \in Clients |-> {}]
    /\ closed = [c \in Clients |-> {}]
    /\ chan = [c \in Clients |-> "idle"]
    /\ seq = [c \in Clients |-> 0]
    /\ status = [c \in Clients |-> "none"]
    /\ rsid = [c \in Clients |-> 0]
    /\ unconf = None
    /\ conf = None
    /\ sess = {}
    /\ slot = [c \in Clients |-> 0]
    /\ opens = [c \in Clients |-> [f \in Files |-> 0]]
    /\ lastsid = 0
    /\ late = [c \in Clients |-> NoRequest]
    /\ grace = FALSE
    /\ restarts = 0
    /\ skew = [c \in Clients |-> 0]

-----------------------------------------------------------------------------
(* The client.                                                             *)

\* uint32_t addition: a and b are below W, b may be W itself
Plus(a, b) == IF a + b < W THEN a + b ELSE a + b - W

\* A mutant: the post-increment of slot_seqid_ is lost.
NextSeqid_Stuck(s) == s
\* A mutant: the counter does not wrap.
NextSeqid_NoWrap(s) == s + 1
\* slot_seqid_++
NextSeqid(s) == Plus(s, 1)

\* The request leaves the client: call_compound reaches the socket.
Send(c, call) ==
    /\ cur' = [cur EXCEPT ![c] = call]
    /\ chan' = [chan EXCEPT ![c] = "request"]

\* compound41: SEQUENCE with the current slot_seqid_, which advances before the
\* call and whatever its outcome.
Compound41(c, call) ==
    /\ seq' = [seq EXCEPT ![c] = slot_seqid[c]]
    /\ slot_seqid' = [slot_seqid EXCEPT ![c] = NextSeqid(@)]
    /\ Send(c, call)

\* A call ends, its request and reply buffers go; the object is left in life l.
Finish(c, l) ==
    /\ life' = [life EXCEPT ![c] = l]
    /\ cur' = [cur EXCEPT ![c] = NoCall]
    /\ chan' = [chan EXCEPT ![c] = "idle"]
    /\ status' = [status EXCEPT ![c] = "none"]
    /\ rsid' = [rsid EXCEPT ![c] = 0]
    /\ seq' = [seq EXCEPT ![c] = 0]

\* Constructor: getport, connect, and the EXCHANGE_ID of do_bootstrap.
Construct(c) ==
    /\ life[c] = "new"
    /\ life' = [life EXCEPT ![c] = "boot"]
    /\ conn' = [conn EXCEPT ![c] = TRUE]
    /\ Send(c, Call("exchange_id", None, 0))
    /\ UNCHANGED <<slot_seqid, files, closed, seq, status, rsid, serverVars, skew>>

\* Constructor: portmap or connect throws, there is no object.
ConstructFails(c) ==
    /\ life[c] = "new"
    /\ life' = [life EXCEPT ![c] = "failed"]
    /\ UNCHANGED <<conn, slot_seqid, cur, files, closed, chanVars, serverVars, skew>>

\* The reply to operation o is read.
Receive(c, o) ==
    /\ chan[c] = "reply"
    /\ cur[c].op = o

\* The constructor throws after an error reply, or because the send of its next request
\* is interrupted.  No destructor runs: the socket is closed and a session the server may
\* have made is left behind.
BootFails(c) ==
    /\ chan[c] = "reply"
    /\ cur[c].op \in BootOps
    /\ status[c] # "ok" \/ cur[c].op # "root"
    /\ Finish(c, "failed")
    /\ conn' = [conn EXCEPT ![c] = FALSE]
    /\ UNCHANGED <<slot_seqid, files, closed, serverVars, skew>>

\* do_bootstrap: EXCHANGE_ID answered, CREATE_SESSION goes out.
RecvExchangeId(c) ==
    /\ Receive(c, "exchange_id")
    /\ status[c] = "ok"
    /\ Send(c, Call("create_session", None, 0))
    /\ UNCHANGED <<life, conn, slot_seqid, files, closed, seq, status, rsid,
                   serverVars, skew>>

\* A mutant: slot_seqid_ starts at 0.
FirstSeqid_Zero == 0
\* slot_seqid_ = 1
FirstSeqid == 1

\* Constructor: slot_seqid_ = 1 and RECLAIM_COMPLETE, the first COMPOUND of the session.
RecvCreateSession(c) ==
    /\ Receive(c, "create_session")
    /\ status[c] = "ok"
    /\ seq' = [seq EXCEPT ![c] = FirstSeqid]
    /\ slot_seqid' = [slot_seqid EXCEPT ![c] = NextSeqid(FirstSeqid)]
    /\ Send(c, Call("reclaim_complete", None, 0))
    /\ UNCHANGED <<life, conn, files, closed, status, rsid, serverVars, skew>>

\* Constructor: PUTROOTFH + GETFH.
RecvReclaimComplete(c) ==
    /\ Receive(c, "reclaim_complete")
    /\ status[c] = "ok"
    /\ Compound41(c, Call("root", None, 0))
    /\ UNCHANGED <<life, conn, files, closed, status, rsid, serverVars, skew>>

\* The constructor returns.
RecvRoot(c) ==
    /\ Receive(c, "root")
    /\ status[c] = "ok"
    /\ Finish(c, "ready")
    /\ UNCHANGED <<conn, slot_seqid, files, closed, serverVars, skew>>

\* A method of the object may be called.
Idle(c) == life[c] = "ready" /\ cur[c] = NoCall

\* The method sends its COMPOUND.  A session that is out of step is followed for
\* MaxSkew compounds.
Issue(c, call) ==
    /\ Idle(c)
    /\ conn[c]
    /\ c \in Callers
    /\ skew[c] = 0 \/ skew[c] < MaxSkew
    /\ Compound41(c, call)
    /\ UNCHANGED <<life, conn, files, closed, status, rsid, serverVars, skew>>

\* open_read and open_write; do_open sends PUTFH + OPEN + GETFH.
Open(c, f) == lastsid < MaxStateid /\ Issue(c, Call("open", f, 0))

\* close(f): PUTFH + CLOSE.
Close(c, h) == h \in files[c] /\ Issue(c, Call("close", h.file, h.sid))

\* read and write on an open file.
Io(c, h) == h \in files[c] \cup closed[c] /\ Issue(c, Call("io", h.file, h.sid))

\* lookup, getattr and access; readdir is one such COMPOUND per page.
Query(c) == Issue(c, Call("query", None, 0))

\* commit, which sends no stateid, mkdir, remove, rename, symlink, readlink and setattr.
Modify(c) == Issue(c, Call("modify", None, 0))

\* send() of a COMPOUND, or of the next attempt of do_open, is interrupted before anything
\* is sent: slot_seqid_ has advanced, nothing is on the connection, and the method throws.
\* (On a connection that is gone every method throws as well, and moves only a number that
\* nobody will see again.)
SendFails(c) ==
    /\ Idle(c) \/ chan[c] = "backoff"
    /\ conn[c]
    /\ c \in Callers
    /\ skew[c] < MaxSkew
    /\ slot_seqid' = [slot_seqid EXCEPT ![c] = NextSeqid(@)]
    /\ skew' = [skew EXCEPT ![c] = @ + 1]
    /\ Finish(c, life[c])
    /\ UNCHANGED <<conn, files, closed, serverVars>>

\* A mutant: do_open retries after every error.
RetriedStatus_All == Statuses \ {"ok", "unusable"}
\* A mutant: do_open also retries when only a later operation of its COMPOUND failed.
RetriedStatus_Opened == {"grace", "unusable"}
\* do_open: the error that the loop answers with sleep(5) and another attempt.
RetriedStatus == {"grace"}

\* do_open: status 0 for the COMPOUND and OPEN4_RESULT_CONFIRM not set.
UsableOpen(c) == status[c] = "ok"

\* do_open returns an Nfs4File, or throws.
RecvOpen(c) ==
    /\ Receive(c, "open")
    /\ status[c] \notin RetriedStatus
    /\ files' = [files EXCEPT ![c] = IF UsableOpen(c)
                      THEN @ \cup {[file |-> cur[c].file, sid |-> rsid[c]]} ELSE @]
    /\ Finish(c, "ready")
    /\ UNCHANGED <<conn, slot_seqid, closed, serverVars, skew>>

\* do_open: NFS4ERR_GRACE, sleep(5).
OpenBackoff(c) ==
    /\ Receive(c, "open")
    /\ status[c] \in RetriedStatus
    /\ chan' = [chan EXCEPT ![c] = "backoff"]
    /\ UNCHANGED <<clientVars, seq, status, rsid, serverVars, skew>>

\* do_open: the next attempt, a new COMPOUND with a new sequence id.
OpenRetry(c) ==
    /\ chan[c] = "backoff"
    /\ conn[c]
    /\ skew[c] = 0 \/ skew[c] < MaxSkew
    /\ Compound41(c, cur[c])
    /\ UNCHANGED <<life, conn, files, closed, status, rsid, serverVars, skew>>

\* A mutant: close() swallows the error of its COMPOUND.
CloseSucceeded_Any(c) == TRUE
\* A mutant: close() throws after a success, and returns after an error.
CloseSucceeded_Inverted(c) == status[c] # "ok"
\* close(): check_compound_status did not throw.
CloseSucceeded(c) == status[c] = "ok"

\* close() returns, or throws and leaves the caller with the handle.
RecvClose(c) ==
    /\ Receive(c, "close")
    /\ LET h == [file |-> cur[c].file, sid |-> cur[c].sid]
           done == IF CloseSucceeded(c) THEN {h} ELSE {}
       IN  /\ files' = [files EXCEPT ![c] = @ \ done]
           /\ closed' = [closed EXCEPT ![c] = @ \cup done]
    /\ Finish(c, "ready")
    /\ UNCHANGED <<conn, slot_seqid, serverVars, skew>>

\* A mutant: the sequence id of a COMPOUND that failed is taken back.
RecvOther_TakesBack(c) ==
    /\ chan[c] = "reply"
    /\ cur[c].op \in {"io", "query", "modify"}
    /\ slot_seqid' = [slot_seqid EXCEPT ![c] = IF status[c] = "ok" THEN @ ELSE seq[c]]
    /\ Finish(c, "ready")
    /\ UNCHANGED <<conn, files, closed, serverVars, skew>>
\* The remaining methods return or throw; the object keeps nothing of the reply.
RecvOther(c) ==
    /\ chan[c] = "reply"
    /\ cur[c].op \in {"io", "query", "modify"}
    /\ Finish(c, "ready")
    /\ UNCHANGED <<conn, slot_seqid, files, closed, serverVars, skew>>

\* Destructor: DESTROY_SESSION without SEQUENCE, on a connection that works.
Destroy(c) ==
    /\ Idle(c)
    /\ conn[c]
    /\ Send(c, Call("destroy_session", None, 0))
    /\ UNCHANGED <<life, conn, slot_seqid, files, closed, seq, status, rsid,
                   serverVars, skew>>

\* Destructor: whatever the reply, or the exception of a dead connection, the
\* socket is closed.
Destroyed(c) ==
    /\ \/ Receive(c, "destroy_session")
       \/ Idle(c) /\ ~conn[c]
    /\ Finish(c, "gone")
    /\ conn' = [conn EXCEPT ![c] = FALSE]
    /\ UNCHANGED <<slot_seqid, files, closed, serverVars, skew>>

\* The object a call leaves behind when its connection fails under it.
AfterFailure(c) ==
    CASE life[c] = "boot"               -> "failed"
      [] cur[c].op = "destroy_session"  -> "gone"
      [] OTHER                          -> life[c]

\* send() or recv() finds the connection broken: the call throws.  The server has
\* executed the request, or may still do so, or never does.
ConnectionLost(c) ==
    /\ conn[c]
    /\ conn' = [conn EXCEPT ![c] = FALSE]
    /\ late' = [late EXCEPT ![c] = IF chan[c] = "request"
                     THEN [call |-> cur[c], seq |-> seq[c]] ELSE NoRequest]
    /\ Finish(c, AfterFailure(c))
    /\ UNCHANGED <<slot_seqid, files, closed, unconf, conf, sess, slot, opens, lastsid,
                   grace, restarts, skew>>

-----------------------------------------------------------------------------
(* The server, external to the repository: as RFC 8881 and the code's use   *)
(* of it say.                                                               *)

Reply(c, st) ==
    /\ chan' = [chan EXCEPT ![c] = "reply"]
    /\ status' = [status EXCEPT ![c] = st]

Requested(c, o) == chan[c] = "request" /\ cur[c].op = o

\* A new verifier for the known owner: the unconfirmed record is replaced.
SrvExchangeId(c) ==
    /\ Requested(c, "exchange_id")
    /\ \/ unconf' = c /\ Reply(c, "ok")
       \/ UNCHANGED unconf /\ Reply(c, "err")
    /\ UNCHANGED <<clientVars, seq, rsid, conf, sess, slot, opens, lastsid, late, grace,
                   restarts, skew>>

\* All open state of the clients in S is released.
Released(S) == [d \in Clients |-> IF d \in S THEN [f \in Files |-> 0] ELSE opens[d]]

\* The slot tables of the sessions of the clients in S are freed.
FreedSlots(S) == [d \in Clients |-> IF d \in S THEN 0 ELSE slot[d]]

\* Confirming the record discards the one it replaces, with its sessions and opens.
Confirm(c) ==
    /\ unconf = c
    /\ unconf' = None
    /\ conf' = c
    /\ sess' = {c}
    /\ slot' = FreedSlots(Clients)
    /\ opens' = Released(Clients \ {c})

SrvCreateSession(c) ==
    /\ Requested(c, "create_session")
    /\ IF unconf = c
         THEN Confirm(c) /\ Reply(c, "ok")
         ELSE /\ Reply(c, "stale_clientid")
              /\ UNCHANGED <<unconf, conf, sess, slot, opens>>
    /\ UNCHANGED <<clientVars, seq, rsid, lastsid, late, grace, restarts, skew>>

EndSession(c) == sess' = sess \ {c} /\ slot' = FreedSlots({c})

SrvDestroySession(c) ==
    /\ Requested(c, "destroy_session")
    /\ EndSession(c)
    /\ Reply(c, IF c \in sess THEN "ok" ELSE "badsession")
    /\ UNCHANGED <<clientVars, seq, rsid, unconf, conf, opens, lastsid, late, grace,
                   restarts, skew>>

Sequenced(c) == chan[c] = "request" /\ cur[c].op \in SeqOps

\* SEQUENCE fails and the COMPOUND is not executed: the slot keeps its sequence id.
\* "rejected" stands for the errors a server may give a well-numbered request,
\* NFS4ERR_REQ_TOO_BIG for a WRITE above ca_maxrequestsize among them.
SrvSequenceFails(c) ==
    /\ Sequenced(c)
    /\ \/ /\ c \notin sess
          /\ Reply(c, "badsession")
          /\ UNCHANGED skew
       \/ /\ c \in sess
          /\ seq[c] = slot[c]
          /\ Reply(c, "replay")
          /\ UNCHANGED skew
       \/ /\ c \in sess
          /\ seq[c] # slot[c]
          /\ skew[c] < MaxSkew
          /\ skew' = [skew EXCEPT ![c] = @ + 1]
          /\ Reply(c, IF seq[c] = Plus(slot[c], 1) THEN "rejected" ELSE "misordered")
    /\ UNCHANGED <<clientVars, seq, rsid, serverVars>>

\* SEQUENCE accepts the number q, the next one of the slot.
InSequence(c, q) ==
    /\ c \in sess
    /\ q = Plus(slot[c], 1)
    /\ slot' = [slot EXCEPT ![c] = q]

\* SEQUENCE accepts the request, which is then executed.
Accepts(c) ==
    /\ Sequenced(c)
    /\ InSequence(c, seq[c])
    /\ UNCHANGED <<clientVars, seq, unconf, conf, sess, late, grace, restarts, skew>>

\* One open-owner per client: an OPEN of a file already open moves its stateid on.
OpenFile(c, f) ==
    /\ ~grace
    /\ lastsid < MaxStateid
    /\ lastsid' = lastsid + 1
    /\ opens' = [opens EXCEPT ![c][f] = lastsid + 1]

\* "unusable": the file is open, but a later operation of the COMPOUND failed or
\* the server asked for OPEN_CONFIRM.
SrvOpen(c) ==
    /\ cur[c].op = "open"
    /\ Accepts(c)
    /\ \/ /\ OpenFile(c, cur[c].file)
          /\ rsid' = [rsid EXCEPT ![c] = lastsid + 1]
          /\ \E st \in {"ok", "unusable"} : Reply(c, st)
       \/ /\ Reply(c, IF grace THEN "grace" ELSE "err")
          /\ UNCHANGED <<opens, lastsid, rsid>>

CloseFile(c, f, s) == opens[c][f] = s /\ opens' = [opens EXCEPT ![c][f] = 0]

SrvClose(c) ==
    /\ cur[c].op = "close"
    /\ Accepts(c)
    /\ IF opens[c][cur[c].file] = cur[c].sid
         THEN CloseFile(c, cur[c].file, cur[c].sid) /\ Reply(c, "ok")
         ELSE /\ Reply(c, "bad_stateid")
              /\ UNCHANGED opens
    /\ UNCHANGED <<rsid, lastsid>>

\* Operations that leave sessions and opens alone.
SrvOther(c) ==
    /\ cur[c].op \in {"reclaim_complete", "root", "io", "query", "modify"}
    /\ Accepts(c)
    /\ IF cur[c].op = "io" /\ opens[c][cur[c].file] # cur[c].sid
         THEN Reply(c, "bad_stateid")
         ELSE \E st \in {"ok", "err"} : Reply(c, st)
    /\ UNCHANGED <<rsid, opens, lastsid>>

\* A request that reached the server although its connection broke is executed after its
\* call has thrown; nobody reads the answer.  One that is refused changes nothing.
SrvLate(c) ==
    /\ late' = [late EXCEPT ![c] = NoRequest]
    /\ LET call == late[c].call
       IN  \/ /\ call.op = "exchange_id"
              /\ unconf' = c
              /\ UNCHANGED <<conf, sess, slot, opens, lastsid>>
           \/ /\ call.op = "create_session"
              /\ Confirm(c)
              /\ UNCHANGED lastsid
           \/ /\ call.op = "destroy_session"
              /\ EndSession(c)
              /\ UNCHANGED <<unconf, conf, opens, lastsid>>
           \/ /\ call.op \in SeqOps
              /\ InSequence(c, late[c].seq)
              /\ \/ call.op = "open" /\ OpenFile(c, call.file)
                 \/ call.op = "close" /\ CloseFile(c, call.file, call.sid) /\ UNCHANGED lastsid
                 \/ UNCHANGED <<opens, lastsid>>
              /\ UNCHANGED <<unconf, conf, sess>>
    /\ UNCHANGED <<clientVars, chanVars, grace, restarts, skew>>

\* The lease of an idle client runs out (nothing in the library renews it).
LeaseExpires ==
    /\ LeaseLapses
    /\ conf # None
    /\ chan[conf] \in {"idle", "backoff"}
    /\ conf' = None
    /\ sess' = sess \ {conf}
    /\ slot' = FreedSlots({conf})
    /\ opens' = Released({conf})
    /\ UNCHANGED <<clientVars, chanVars, unconf, lastsid, late, grace, restarts, skew>>

\* The server restarts: all client state is lost, connections break, grace begins.
ServerRestart ==
    /\ restarts < MaxRestarts
    /\ restarts' = restarts + 1
    /\ unconf' = None
    /\ conf' = None
    /\ sess' = {}
    /\ opens' = Released(Clients)
    /\ grace' = TRUE
    /\ conn' = [c \in Clients |-> FALSE]
    /\ life' = [c \in Clients |-> IF conn[c] THEN AfterFailure(c) ELSE life[c]]
    /\ cur' = [c \in Clients |-> NoCall]
    /\ chan' = [c \in Clients |-> "idle"]
    /\ status' = [c \in Clients |-> "none"]
    /\ rsid' = [c \in Clients |-> 0]
    /\ seq' = [c \in Clients |-> 0]
    /\ slot' = FreedSlots(Clients)
    /\ late' = [c \in Clients |-> NoRequest]
    /\ UNCHANGED <<slot_seqid, files, closed, lastsid, skew>>

GraceEnds ==
    /\ grace
    /\ grace' = FALSE
    /\ UNCHANGED <<clientVars, chanVars, unconf, conf, sess, slot, opens, lastsid, late,
                   restarts, skew>>

-----------------------------------------------------------------------------
\* What the application decides to do.
UserStep(c) ==
    \/ Construct(c) \/ ConstructFails(c) \/ Destroy(c)
    \/ Query(c) \/ Modify(c)
    \/ \E f \in Files : Open(c, f)
    \/ \E h \in Handles : Close(c, h) \/ Io(c, h)

\* What the client does by itself.
ClientStep(c) ==
    \/ BootFails(c) \/ RecvExchangeId(c) \/ RecvCreateSession(c)
    \/ RecvReclaimComplete(c) \/ RecvRoot(c)
    \/ RecvOpen(c) \/ OpenBackoff(c) \/ OpenRetry(c)
    \/ RecvClose(c) \/ RecvOther(c) \/ Destroyed(c)

\* What the server does with a request.
ServerStep(c) ==
    \/ SrvExchangeId(c) \/ SrvCreateSession(c) \/ SrvDestroySession(c)
    \/ SrvSequenceFails(c) \/ SrvOpen(c) \/ SrvClose(c) \/ SrvOther(c)

Failure ==
    \/ \E c \in Clients : SendFails(c) \/ ConnectionLost(c) \/ SrvLate(c)
    \/ LeaseExpires \/ ServerRestart

Next ==
    \/ \E c \in Clients : UserStep(c) \/ ClientStep(c) \/ ServerStep(c)
    \/ Failure
    \/ GraceEnds

Spec == Init /\ [][Next]_vars

\* The application is free to stop; the client and the server go on with a call
\* that has begun (the client is single-threaded and blocks in recv, the server
\* answers or the connection breaks), and a grace period ends.
Fairness ==
    /\ \A c \in Clients : WF_vars(ClientStep(c)) /\ WF_vars(ServerStep(c))
    /\ WF_vars(GraceEnds)

FairSpec == Spec /\ Fairness

-----------------------------------------------------------------------------
(* Properties.                                                             *)

\* A COMPOUND on the connection that the server has not looked at yet.
Pending(c) == IF Sequenced(c) THEN 1 ELSE 0

\* The sequence id the client will use next is the one after the last the server
\* accepted on the slot, plus the compounds that compound41 numbered in vain
\* (slot_seqid_++ before the call is never taken back).
SlotInStep ==
    \A c \in Clients :
        (c \in sess /\ conn[c] /\ cur[c].op # "create_session") =>
            slot_seqid[c] = Plus(slot[c], 1 + skew[c] + Pending(c))

\* The server never takes a new COMPOUND for the retransmission of an earlier one:
\* no caller of compound41 is handed the result of another operation, however many
\* calls failed before and however often the 32-bit counter wrapped.
NoFalseReplay ==
    \A c \in Clients : ~(chan[c] = "reply" /\ status[c] = "replay")

\* After a COMPOUND of a live session was lost the server executes no later one: the
\* number that compound41 gave it is never used again, and slot_seqid_ does not come
\* round to the number the server waits for.  So an operation takes effect only if
\* SEQUENCE accepted every one before it.
NothingAfterLost ==
    [][\A c \in Clients :
          skew[c] > 0 /\ c \in sess /\ c \in sess' =>
              slot'[c] = slot[c] /\ opens'[c] = opens[c]]_vars

\* Once close() has returned normally the stateid of that Nfs4File is not open on
\* the server, and no later open() brings it back.
CloseReleases ==
    \A c \in Clients : \A h \in closed[c] : opens[c][h.file] # h.sid

\* An Nfs4File that open returned and no close() is acting on stays open on
\* the server while the connection works and the server knows the client: it is
\* replaced only by a later open of the same file, or gone because a later handle
\* of that file was closed.
HeldStaysOpen ==
    \A c \in Clients : \A h \in files[c] :
        (conf = c /\ conn[c] /\ ~(cur[c].op = "close" /\ cur[c].file = h.file)) =>
            \/ opens[c][h.file] >= h.sid
            \/ \E g \in closed[c] : g.file = h.file /\ g.sid > h.sid

\* The call of open_read, open_write or close in progress.
FileCall == [c \in Clients |-> IF cur[c].op \in {"open", "close"} THEN cur[c] ELSE NoCall]

\* The stateid that its operation opened or closed on the server, once it was executed.
Executed ==
    [c \in Clients |->
        IF Receive(c, "open") /\ status[c] \in {"ok", "unusable"} THEN rsid[c]
        ELSE IF Receive(c, "close") /\ status[c] = "ok" THEN cur[c].sid ELSE 0]

\* The call of open or close that threw and whose request the server may still execute.
LateCall ==
    [c \in Clients |-> IF late[c].call.op \in {"open", "close"} THEN late[c].call ELSE NoCall]

\* open and close keep the promise of module OpenFiles: however often do_open sends its
\* OPEN the server opens the file at most once, and a call returns only if the server
\* executed the operation of this call, whatever is lost, refused or restarted meanwhile.
Abstract == INSTANCE OpenFiles WITH call <- FileCall, done <- Executed, late <- LateCall
ImplementsOpenFiles == Abstract!Spec

\* do_open ends: its NFS4ERR_GRACE loop outlasts the grace period and stops at
\* every other answer, whatever happens to the session meanwhile.
OpenEnds ==
    \A c \in Callers : cur[c].op = "open" ~> cur[c].op # "open"

\* "unique owner string identifying this client instance": the session of a
\* client object lasts as long as the object and its connection do.
SessionKept ==
    \A c \in Clients : (life[c] = "ready" /\ conn[c] /\ cur[c].op # "destroy_session")
                            => c \in sess

\* "SEQUENCE first op; slotid/seqid accepted": a COMPOUND on a live session is
\* never refused for its sequence id.
SeqidAccepted ==
    \A c \in Clients : ~(chan[c] = "reply" /\ status[c] = "misordered")
=============================================================================
