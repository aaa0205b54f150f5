----------------------------- MODULE Nfs40Open ------------------------------
(***************************************************************************)
(* Nfs4Client (src/nfs4_client.cpp) and the NFSv4.0 server it talks to:    *)
(* the client id handshake of the constructor, and OPEN, OPEN_CONFIRM and  *)
(* CLOSE, which a v4.0 server sequences per open-owner.                    *)
(*                                                                         *)
(* As in Nfs41Session an object is built once and never reconnects, so the *)
(* instance c names its verifier and its clientid, and all instances       *)
(* register the same string "nfsclient-v4".  Each has one open-owner and   *)
(* one seqid counter, open_seqid_.                                         *)
(*                                                                         *)
(* TcpRpcClient is taken to keep the promise of module Rpc, as there: a    *)
(* call that throws because the connection is gone may still be executed.  *)
(* The seqids are uint32_t in the code; MaxSeqid stands below their wrap.  *)
(***************************************************************************)
EXTENDS Integers

CONSTANTS
    Clients,       \* the Nfs4Client objects of the run
    Openers,       \* those whose application opens files
    Files,         \* files they open
    None,          \* no client record, no file
    MaxSeqid,      \* bound: seqids an object uses
    MaxRestarts    \* bound: server restarts

ASSUME OpenersAssumption == Openers \subseteq Clients
ASSUME BoundsAssumption == MaxSeqid \in Nat /\ MaxRestarts \in Nat
ASSUME NoneAssumption   == None \notin Clients /\ None \notin Files

VARIABLES
    \* the client objects
    life,          \* "new", "boot" (in the constructor), "ready", "failed", "gone"
    conn,          \* the TCP connection works
    open_seqid,    \* open_seqid_: the last seqid used
    cur,           \* the call in progress: [op, file, sid, seq]
    files,         \* Nfs4File values returned by open and not yet closed
    closed,        \* Nfs4File values whose close() returned normally
    \* the connection: at most one request or reply is on it
    chan,          \* "idle", "request", "reply", "backoff" (sleep(5) after GRACE)
    status,        \* status of the COMPOUND in the reply
    rsid,          \* stateid in the reply
    rconfirm,      \* OPEN4_RESULT_CONFIRM in the reply to OPEN
    \* the server
    unconf, conf,  \* unconfirmed and confirmed record of the client string
    owner,         \* open-owner of each client: "none", "unconfirmed", "confirmed"
    last,          \* seqid of the last operation executed for the owner
    cached,        \* status of that operation, kept for retransmissions
    opens,         \* current open stateid of each client and file, 0 if closed
    lastsid,       \* stateids handed out to each client so far
    late,          \* a request whose connection broke: [op, file, sid, seq]
    grace,         \* the server is in its grace period
    restarts,
    \* bookkeeping
    lost           \* seqids used since, and not executed for the owner

clientVars == <<life, conn, open_seqid, cur, files, closed>>
chanVars   == <<chan, status, rsid, rconfirm>>
recordVars == <<unconf, conf, late>>
ownerVars  == <<owner, last, cached, opens, lastsid, lost>>
vars       == <<clientVars, chanVars, recordVars, ownerVars, grace, restarts>>

Seqids   == 0..MaxSeqid
Handles  == [file : Files, sid : 1..MaxSeqid, seq : Seqids]
OwnerOps == {"open", "open_confirm"}
BootOps  == {"setclientid", "setclientid_confirm", "root"}
Ops      == OwnerOps \cup BootOps \cup {"close", "io", "other", "none"}
Statuses == {"none", "ok", "grace", "err", "bad_stateid", "unusable", "bad_seqid",
             "replay", "stale_clientid"}
Call(o, f, s, q) == [op |-> o, file |-> f, sid |-> s, seq |-> q]
NoCall           == Call("none", None, 0, 0)
Calls            == [op : Ops, file : Files \cup {None}, sid : Seqids, seq : Seqids]
Handle(f, s, q)  == [file |-> f, sid |-> s, seq |-> q]

TypeOK ==
    /\ life \in [Clients -> {"new", "boot", "ready", "failed", "gone"}]
    /\ conn \in [Clients -> BOOLEAN]
    /\ open_seqid \in [Clients -> Seqids]
    /\ cur \in [Clients -> Calls]
    /\ files \in [Clients -> SUBSET Handles]
    /\ closed \in [Clients -> SUBSET Handles]
    /\ chan \in [Clients -> {"idle", "request", "reply", "backoff"}]
    /\ status \in [Clients -> Statuses]
    /\ rsid \in [Clients -> Seqids]
    /\ rconfirm \in [Clients -> BOOLEAN]
    /\ unconf \in Clients \cup {None}
    /\ conf \in Clients \cup {None}
    /\ owner \in [Clients -> {"none", "unconfirmed", "confirmed"}]
    /\ last \in [Clients -> Seqids]
    /\ cached \in [Clients -> Statuses]
    /\ opens \in [Clients -> [Files -> Seqids]]
    /\ lastsid \in [Clients -> Seqids]
    /\ late \in [Clients -> Calls]
    /\ grace \in BOOLEAN
    /\ restarts \in 0..MaxRestarts
    /\ lost \in [Clients -> Seqids]

Init ==
    /\ life = [c \in Clients |-> "new"]
    /\ conn = [c \in Clients |-> FALSE]
    /\ open_seqid = [c \in Clients |-> 0]
    /\ cur = [c \in Clients |-> NoCall]
    /\ files = [c \in Clients |-> {}]
    /\ closed = [c \in Clients |-> {}]
    /\ chan = [c \in Clients |-> "idle"]
    /\ status = [c \in Clients |-> "none"]
    /\ rsid = [c \in Clients |-> 0]
    /\ rconfirm = [c \in Clients |-> FALSE]
    /\ unconf = None
    /\ conf = None
    /\ owner = [c \in Clients |-> "none"]
    /\ last = [c \in Clients |-> 0]
    /\ cached = [c \in Clients |-> "none"]
    /\ opens = [c \in Clients |-> [f \in Files |-> 0]]
    /\ lastsid = [c \in Clients |-> 0]
    /\ late = [c \in Clients |-> NoCall]
    /\ grace = FALSE
    /\ restarts = 0
    /\ lost = [c \in Clients |-> 0]

-----------------------------------------------------------------------------
(* The client.                                                             *)

\* The request leaves the client: call_compound reaches the socket.
Send(c, call) ==
    /\ cur' = [cur EXCEPT ![c] = call]
    /\ chan' = [chan EXCEPT ![c] = "request"]

\* A call ends, its request and reply buffers go; the object is left in life l.
Finish(c, l) ==
    /\ life' = [life EXCEPT ![c] = l]
    /\ cur' = [cur EXCEPT ![c] = NoCall]
    /\ chan' = [chan EXCEPT ![c] = "idle"]
    /\ status' = [status EXCEPT ![c] = "none"]
    /\ rsid' = [rsid EXCEPT ![c] = 0]
    /\ rconfirm' = [rconfirm EXCEPT ![c] = FALSE]

\* The reply to operation o is read.
Receive(c, o) ==
    /\ chan[c] = "reply"
    /\ cur[c].op = o

\* Constructor: getport, connect, and SETCLIENTID with a fresh verifier.
Construct(c) ==
    /\ life[c] = "new"
    /\ life' = [life EXCEPT ![c] = "boot"]
    /\ conn' = [conn EXCEPT ![c] = TRUE]
    /\ Send(c, Call("setclientid", None, 0, 0))
    /\ UNCHANGED <<open_seqid, files, closed, status, rsid, rconfirm, recordVars,
                   ownerVars, grace, restarts>>

\* Constructor: portmap or connect throws, there is no object.
ConstructFails(c) ==
    /\ life[c] = "new"
    /\ life' = [life EXCEPT ![c] = "failed"]
    /\ UNCHANGED <<conn, open_seqid, cur, files, closed, chanVars, recordVars,
                   ownerVars, grace, restarts>>

\* The constructor throws after an error reply, or because the send of its next request
\* is interrupted.
BootFails(c) ==
    /\ chan[c] = "reply"
    /\ cur[c].op \in BootOps
    /\ status[c] # "ok" \/ cur[c].op # "root"
    /\ Finish(c, "failed")
    /\ conn' = [conn EXCEPT ![c] = FALSE]
    /\ UNCHANGED <<open_seqid, files, closed, recordVars, ownerVars, grace, restarts>>

\* do_setclientid_confirm: SETCLIENTID answered, SETCLIENTID_CONFIRM goes out.
RecvSetclientid(c) ==
    /\ Receive(c, "setclientid")
    /\ status[c] = "ok"
    /\ Send(c, Call("setclientid_confirm", None, 0, 0))
    /\ UNCHANGED <<life, conn, open_seqid, files, closed, status, rsid, rconfirm,
                   recordVars, ownerVars, grace, restarts>>

\* do_get_root_fh: PUTROOTFH + GETFH.
RecvSetclientidConfirm(c) ==
    /\ Receive(c, "setclientid_confirm")
    /\ status[c] = "ok"
    /\ Send(c, Call("root", None, 0, 0))
    /\ UNCHANGED <<life, conn, open_seqid, files, closed, status, rsid, rconfirm,
                   recordVars, ownerVars, grace, restarts>>

\* The constructor returns.
RecvRoot(c) ==
    /\ Receive(c, "root")
    /\ status[c] = "ok"
    /\ Finish(c, "ready")
    /\ UNCHANGED <<conn, open_seqid, files, closed, recordVars, ownerVars, grace, restarts>>

\* A method of the object may be called.
Idle(c) == life[c] = "ready" /\ cur[c] = NoCall

\* A mutant: the seqid is read before it is incremented.
UsedSeqid_Post(c) == open_seqid[c]
\* ++open_seqid_
UsedSeqid(c) == open_seqid[c] + 1

\* open_read and open_write; do_open sends PUTFH + OPEN + GETFH with a new seqid.
Open(c, f) ==
    /\ Idle(c)
    /\ conn[c]
    /\ c \in Openers
    /\ open_seqid[c] + 1 < MaxSeqid
    /\ Send(c, Call("open", f, 0, UsedSeqid(c)))
    /\ open_seqid' = [open_seqid EXCEPT ![c] = @ + 1]
    /\ UNCHANGED <<life, conn, files, closed, status, rsid, rconfirm, recordVars,
                   ownerVars, grace, restarts>>

\* do_open: send() is interrupted before anything is sent, and the method throws.  The
\* seqid is used up.  (A method without a seqid that fails so changes nothing.)
OpenSendFails(c) ==
    /\ Idle(c)
    /\ conn[c]
    /\ c \in Openers
    /\ open_seqid[c] + 1 < MaxSeqid
    /\ open_seqid' = [open_seqid EXCEPT ![c] = @ + 1]
    /\ lost' = [lost EXCEPT ![c] = @ + 1]
    /\ UNCHANGED <<life, conn, cur, files, closed, chanVars, recordVars, owner, last,
                   cached, opens, lastsid, grace, restarts>>

\* close(f): PUTFH + CLOSE with the seqid the Nfs4File was opened with.
Close(c, h) ==
    /\ Idle(c)
    /\ conn[c]
    /\ h \in files[c]
    /\ Send(c, Call("close", h.file, h.sid, h.seq))
    /\ UNCHANGED <<life, conn, open_seqid, files, closed, status, rsid, rconfirm,
                   recordVars, ownerVars, grace, restarts>>

\* read and write on an open file.
Io(c, h) ==
    /\ Idle(c)
    /\ conn[c]
    /\ h \in files[c] \cup closed[c]
    /\ Send(c, Call("io", h.file, h.sid, 0))
    /\ UNCHANGED <<life, conn, open_seqid, files, closed, status, rsid, rconfirm,
                   recordVars, ownerVars, grace, restarts>>

\* lookup, getattr, access, commit, the namespace operations, readdir (once per page) and
\* renew.
Other(c) ==
    /\ Idle(c)
    /\ conn[c]
    /\ Send(c, Call("other", None, 0, 0))
    /\ UNCHANGED <<life, conn, open_seqid, files, closed, status, rsid, rconfirm,
                   recordVars, ownerVars, grace, restarts>>

\* A mutant: do_open retries after every error.
RetriedStatus_All == Statuses \ {"ok", "unusable"}
\* do_open: the error that the loop answers with sleep(5) and another attempt.
RetriedStatus == {"grace"}

\* A mutant: do_open returns a handle after any reply that is not retried.
UsableOpen_Any(c) == TRUE
\* do_open: check_compound_status and the decoders did not throw.
UsableOpen(c) == status[c] = "ok"

\* A mutant: OPEN4_RESULT_CONFIRM is ignored.
MustConfirm_Never(c) == FALSE
\* do_open: rflags & OPEN4_RESULT_CONFIRM
MustConfirm(c) == rconfirm[c]

\* A mutant: the seqid of an OPEN that failed is taken back.
RecvOpen_TakesBack(c) ==
    /\ Receive(c, "open")
    /\ status[c] \notin RetriedStatus
    /\ ~(UsableOpen(c) /\ MustConfirm(c))
    /\ files' = [files EXCEPT ![c] = IF UsableOpen(c)
                      THEN @ \cup {Handle(cur[c].file, rsid[c], cur[c].seq)} ELSE @]
    /\ open_seqid' = [open_seqid EXCEPT ![c] = IF UsableOpen(c) THEN @ ELSE @ - 1]
    /\ Finish(c, "ready")
    /\ UNCHANGED <<conn, closed, recordVars, ownerVars, grace, restarts>>
\* do_open without OPEN_CONFIRM: it returns an Nfs4File, or throws.
RecvOpen(c) ==
    /\ Receive(c, "open")
    /\ status[c] \notin RetriedStatus
    /\ ~(UsableOpen(c) /\ MustConfirm(c))
    /\ files' = [files EXCEPT ![c] = IF UsableOpen(c)
                      THEN @ \cup {Handle(cur[c].file, rsid[c], cur[c].seq)} ELSE @]
    /\ Finish(c, "ready")
    /\ UNCHANGED <<conn, open_seqid, closed, recordVars, ownerVars, grace, restarts>>

\* A mutant: the seqid of OPEN_CONFIRM is open_seqid_ + 1, and not stored.
OpenConfirm_NotStored(c) ==
    /\ Receive(c, "open")
    /\ UsableOpen(c)
    /\ MustConfirm(c)
    /\ Send(c, Call("open_confirm", cur[c].file, rsid[c], UsedSeqid(c)))
    /\ UNCHANGED <<life, conn, open_seqid, files, closed, status, rsid, rconfirm,
                   recordVars, ownerVars, grace, restarts>>
\* do_open: OPEN_CONFIRM with the next seqid.
OpenConfirm(c) ==
    /\ Receive(c, "open")
    /\ UsableOpen(c)
    /\ MustConfirm(c)
    /\ Send(c, Call("open_confirm", cur[c].file, rsid[c], UsedSeqid(c)))
    /\ open_seqid' = [open_seqid EXCEPT ![c] = @ + 1]
    /\ UNCHANGED <<life, conn, files, closed, status, rsid, rconfirm, recordVars,
                   ownerVars, grace, restarts>>

\* do_open: the send of OPEN_CONFIRM is interrupted and the method throws.
ConfirmSendFails(c) ==
    /\ Receive(c, "open")
    /\ UsableOpen(c)
    /\ MustConfirm(c)
    /\ open_seqid' = [open_seqid EXCEPT ![c] = @ + 1]
    /\ lost' = [lost EXCEPT ![c] = @ + 1]
    /\ Finish(c, "ready")
    /\ UNCHANGED <<conn, files, closed, recordVars, owner, last, cached, opens, lastsid,
                   grace, restarts>>

\* do_open returns the Nfs4File with the confirmed stateid, or throws.
RecvOpenConfirm(c) ==
    /\ Receive(c, "open_confirm")
    /\ files' = [files EXCEPT ![c] = IF status[c] = "ok"
                      THEN @ \cup {Handle(cur[c].file, rsid[c], cur[c].seq)} ELSE @]
    /\ Finish(c, "ready")
    /\ UNCHANGED <<conn, open_seqid, closed, recordVars, ownerVars, grace, restarts>>

\* do_open: NFS4ERR_GRACE, sleep(5).
OpenBackoff(c) ==
    /\ Receive(c, "open")
    /\ status[c] \in RetriedStatus
    /\ chan' = [chan EXCEPT ![c] = "backoff"]
    /\ UNCHANGED <<clientVars, status, rsid, rconfirm, recordVars, ownerVars, grace, restarts>>

\* do_open: the same OPEN again, with the same seqid.
OpenRetry(c) ==
    /\ chan[c] = "backoff"
    /\ Send(c, cur[c])
    /\ UNCHANGED <<life, conn, open_seqid, files, closed, status, rsid, rconfirm,
                   recordVars, ownerVars, grace, restarts>>

\* do_open: the send of that OPEN is interrupted and the method throws.  Its seqid was
\* executed before, with NFS4ERR_GRACE.
RetrySendFails(c) ==
    /\ chan[c] = "backoff"
    /\ Finish(c, "ready")
    /\ UNCHANGED <<conn, open_seqid, files, closed, recordVars, ownerVars, grace, restarts>>

\* close() returns, or throws and leaves the caller with the handle.
RecvClose(c) ==
    /\ Receive(c, "close")
    /\ LET done == IF status[c] = "ok"
                     THEN {Handle(cur[c].file, cur[c].sid, cur[c].seq)} ELSE {}
       IN  /\ files' = [files EXCEPT ![c] = @ \ done]
           /\ closed' = [closed EXCEPT ![c] = @ \cup done]
    /\ Finish(c, "ready")
    /\ UNCHANGED <<conn, open_seqid, recordVars, ownerVars, grace, restarts>>

\* The remaining methods return or throw; the object keeps nothing of the reply.
RecvOther(c) ==
    /\ chan[c] = "reply"
    /\ cur[c].op \in {"io", "other"}
    /\ Finish(c, "ready")
    /\ UNCHANGED <<conn, open_seqid, files, closed, recordVars, ownerVars, grace, restarts>>

\* The implicit destructor closes the socket; the server is told nothing.
Destroy(c) ==
    /\ Idle(c)
    /\ Finish(c, "gone")
    /\ conn' = [conn EXCEPT ![c] = FALSE]
    /\ UNCHANGED <<open_seqid, files, closed, recordVars, ownerVars, grace, restarts>>

\* The object a call leaves behind when its connection fails under it.
AfterFailure(c) == IF life[c] = "boot" THEN "failed" ELSE life[c]

\* send() or recv() finds the connection broken: the call throws.  The server has
\* executed the request, or may still do so, or never does.
ConnectionLost(c) ==
    /\ conn[c]
    /\ conn' = [conn EXCEPT ![c] = FALSE]
    /\ late' = [late EXCEPT ![c] = IF chan[c] = "request" THEN cur[c] ELSE NoCall]
    /\ Finish(c, AfterFailure(c))
    /\ UNCHANGED <<open_seqid, files, closed, unconf, conf, ownerVars, grace, restarts>>

-----------------------------------------------------------------------------
(* The server, external to the repository: as RFC 7530 and the code's use   *)
(* of it say.                                                               *)

Reply(c, st) ==
    /\ chan' = [chan EXCEPT ![c] = "reply"]
    /\ status' = [status EXCEPT ![c] = st]

Requested(c, o) == chan[c] = "request" /\ cur[c].op = o

\* A new verifier for the known string: the unconfirmed record is replaced.
SrvSetclientid(c) ==
    /\ Requested(c, "setclientid")
    /\ \/ unconf' = c /\ Reply(c, "ok")
       \/ UNCHANGED unconf /\ Reply(c, "err")
    /\ UNCHANGED <<clientVars, rsid, rconfirm, conf, late, ownerVars, grace, restarts>>

\* The open-owners, and the opens, of the clients in S are forgotten.
Forget(S) ==
    /\ owner' = [d \in Clients |-> IF d \in S THEN "none" ELSE owner[d]]
    /\ last' = [d \in Clients |-> IF d \in S THEN 0 ELSE last[d]]
    /\ cached' = [d \in Clients |-> IF d \in S THEN "none" ELSE cached[d]]
    /\ opens' = [d \in Clients |-> IF d \in S THEN [f \in Files |-> 0] ELSE opens[d]]

\* Confirming the record discards the one it replaces, with its open-owners.
Register(c) ==
    /\ unconf = c
    /\ unconf' = None
    /\ conf' = c
    /\ Forget(Clients)

SrvSetclientidConfirm(c) ==
    /\ Requested(c, "setclientid_confirm")
    /\ IF unconf = c
         THEN Register(c) /\ Reply(c, "ok")
         ELSE /\ Reply(c, "stale_clientid")
              /\ UNCHANGED <<unconf, conf, owner, last, cached, opens>>
    /\ UNCHANGED <<clientVars, rsid, rconfirm, lastsid, late, lost, grace, restarts>>

\* An operation of the owner that the server does not execute: PUTFH failed before
\* it, the client id is not known, or the seqid is not the expected one.  The owner
\* keeps its seqid; a new seqid of the client is lost.
SrvRefuses(c, st) ==
    /\ Reply(c, st)
    /\ lost' = IF cur[c].op \in OwnerOps THEN [lost EXCEPT ![c] = @ + 1] ELSE lost
    /\ UNCHANGED <<clientVars, rsid, rconfirm, recordVars, owner, last, cached, opens,
                   lastsid, grace, restarts>>

\* An operation with seqid q is executed with status st, which the owner keeps.
Counts(c, q, st) ==
    /\ last' = [last EXCEPT ![c] = q]
    /\ cached' = [cached EXCEPT ![c] = st]
    /\ lost' = [lost EXCEPT ![c] = 0]

SrvExecutes(c, st) ==
    /\ Reply(c, st)
    /\ Counts(c, cur[c].seq, st)
    /\ UNCHANGED <<clientVars, recordVars, grace, restarts>>

\* A confirmed owner and an operation with a seqid that is not the next.  If it is
\* the last one the server answers from its cache, or sees that the operation is
\* another one; an OPEN or OPEN_CONFIRM answered so is marked "replay".
OutOfSequence(c) ==
    /\ cur[c].seq # last[c] + 1
    /\ \/ SrvRefuses(c, "bad_seqid")
       \/ /\ cur[c].seq = last[c]
          /\ Reply(c, IF cur[c].op = "close" THEN cached[c] ELSE "replay")
          /\ UNCHANGED <<clientVars, rsid, rconfirm, recordVars, ownerVars, grace, restarts>>

SrvOutOfSequence(c) ==
    /\ chan[c] = "request"
    /\ cur[c].op \in OwnerOps
    /\ conf = c
    /\ owner[c] = "confirmed"
    /\ OutOfSequence(c)

\* The COMPOUND ends before OPEN, OPEN_CONFIRM or CLOSE is looked at.
SrvStops(c) ==
    /\ chan[c] = "request"
    /\ cur[c].op \in {"open", "open_confirm", "close"}
    /\ SrvRefuses(c, IF conf # c THEN "stale_clientid" ELSE "err")

\* OPEN of a new owner, or of an unconfirmed one, which it replaces with its opens,
\* is taken with any seqid; of a confirmed one with the next.
TakesOpen(c, call) ==
    /\ conf = c
    /\ owner[c] = "confirmed" => call.seq = last[c] + 1

OpensBefore(c) == IF owner[c] = "confirmed" THEN opens[c] ELSE [f \in Files |-> 0]

\* OPEN succeeds; must: the owner has to be confirmed.
OpenFile(c, f, must) ==
    /\ ~grace
    /\ lastsid[c] + 1 < MaxSeqid
    /\ must => owner[c] # "confirmed"
    /\ lastsid' = [lastsid EXCEPT ![c] = @ + 1]
    /\ opens' = [opens EXCEPT ![c] = [OpensBefore(c) EXCEPT ![f] = lastsid[c] + 1]]
    /\ owner' = [owner EXCEPT ![c] = IF must THEN "unconfirmed" ELSE "confirmed"]

\* OPEN fails, and still counts for the owner.
OpenFails(c) ==
    /\ owner' = [owner EXCEPT ![c] = IF @ = "none" THEN "unconfirmed" ELSE @]
    /\ opens' = [opens EXCEPT ![c] = OpensBefore(c)]
    /\ UNCHANGED lastsid

\* "unusable": the file is open, but GETFH failed.
SrvOpen(c) ==
    /\ Requested(c, "open")
    /\ TakesOpen(c, cur[c])
    /\ \/ \E st \in {"ok", "unusable"}, must \in BOOLEAN :
             /\ OpenFile(c, cur[c].file, must)
             /\ rsid' = [rsid EXCEPT ![c] = lastsid[c] + 1]
             /\ rconfirm' = [rconfirm EXCEPT ![c] = must]
             /\ SrvExecutes(c, st)
       \/ /\ OpenFails(c)
          /\ SrvExecutes(c, IF grace THEN "grace" ELSE "err")
          /\ UNCHANGED <<rsid, rconfirm>>

\* OPEN_CONFIRM in sequence: the owner is confirmed and the stateid moves on.
TakesConfirm(c, call) ==
    /\ conf = c
    /\ owner[c] = "unconfirmed"
    /\ call.seq = last[c] + 1
    /\ opens[c][call.file] = call.sid

ConfirmOwner(c, f) ==
    /\ owner' = [owner EXCEPT ![c] = "confirmed"]
    /\ lastsid' = [lastsid EXCEPT ![c] = @ + 1]
    /\ opens' = [opens EXCEPT ![c][f] = lastsid[c] + 1]

SrvOpenConfirm(c) ==
    /\ Requested(c, "open_confirm")
    /\ conf = c
    /\ owner[c] = "unconfirmed"
    /\ IF TakesConfirm(c, cur[c])
         THEN /\ ConfirmOwner(c, cur[c].file)
              /\ rsid' = [rsid EXCEPT ![c] = lastsid[c] + 1]
              /\ SrvExecutes(c, "ok")
              /\ UNCHANGED rconfirm
         ELSE SrvRefuses(c, "bad_seqid")

\* CLOSE: in sequence it is executed, unless the stateid is not the current one,
\* which does not count for the owner.
TakesClose(c, call) ==
    /\ conf = c
    /\ owner[c] = "confirmed"
    /\ call.seq = last[c] + 1
    /\ opens[c][call.file] = call.sid

CloseFile(c, f) ==
    /\ opens' = [opens EXCEPT ![c][f] = 0]
    /\ UNCHANGED <<owner, lastsid>>

SrvClose(c) ==
    /\ Requested(c, "close")
    /\ conf = c
    /\ IF owner[c] = "confirmed" /\ cur[c].seq # last[c] + 1
         THEN OutOfSequence(c)
         ELSE IF TakesClose(c, cur[c])
                THEN /\ CloseFile(c, cur[c].file)
                     /\ SrvExecutes(c, "ok")
                     /\ UNCHANGED <<rsid, rconfirm>>
                ELSE SrvRefuses(c, "bad_stateid")

\* Operations that leave the open-owners alone.
SrvOther(c) ==
    /\ chan[c] = "request"
    /\ cur[c].op \in {"root", "io", "other"}
    /\ IF cur[c].op = "io" /\ (conf # c \/ opens[c][cur[c].file] # cur[c].sid)
         THEN Reply(c, "bad_stateid")
         ELSE \E st \in {"ok", "err"} : Reply(c, st)
    /\ UNCHANGED <<clientVars, rsid, rconfirm, recordVars, ownerVars, grace, restarts>>

\* A request that reached the server although its connection broke is looked at after its
\* call has thrown; nobody reads the answer.  One that is refused changes nothing.
SrvLate(c) ==
    /\ late' = [late EXCEPT ![c] = NoCall]
    /\ LET call == late[c]
       IN  \/ /\ call.op = "setclientid"
              /\ unconf' = c
              /\ UNCHANGED <<conf, ownerVars>>
           \/ /\ call.op = "setclientid_confirm"
              /\ Register(c)
              /\ UNCHANGED <<lastsid, lost>>
           \/ /\ call.op = "open"
              /\ TakesOpen(c, call)
              /\ \/ \E must \in BOOLEAN : OpenFile(c, call.file, must) /\ Counts(c, call.seq, "ok")
                 \/ OpenFails(c) /\ Counts(c, call.seq, IF grace THEN "grace" ELSE "err")
              /\ UNCHANGED <<unconf, conf>>
           \/ /\ call.op = "open_confirm"
              /\ TakesConfirm(c, call)
              /\ ConfirmOwner(c, call.file)
              /\ Counts(c, call.seq, "ok")
              /\ UNCHANGED <<unconf, conf>>
           \/ /\ call.op = "close"
              /\ IF TakesClose(c, call)
                   THEN CloseFile(c, call.file) /\ Counts(c, call.seq, "ok")
                   ELSE UNCHANGED ownerVars
              /\ UNCHANGED <<unconf, conf>>
    /\ UNCHANGED <<clientVars, chanVars, grace, restarts>>

\* The lease of an idle client runs out (renew() is left to the application).
LeaseExpires ==
    /\ conf # None
    /\ chan[conf] \in {"idle", "backoff"}
    /\ conf' = None
    /\ Forget({conf})
    /\ UNCHANGED <<clientVars, chanVars, unconf, lastsid, late, lost, grace, restarts>>

\* The server restarts: all client state is lost, connections break, grace begins.
ServerRestart ==
    /\ restarts < MaxRestarts
    /\ restarts' = restarts + 1
    /\ unconf' = None
    /\ conf' = None
    /\ Forget(Clients)
    /\ grace' = TRUE
    /\ conn' = [c \in Clients |-> FALSE]
    /\ life' = [c \in Clients |-> IF conn[c] THEN AfterFailure(c) ELSE life[c]]
    /\ cur' = [c \in Clients |-> NoCall]
    /\ chan' = [c \in Clients |-> "idle"]
    /\ status' = [c \in Clients |-> "none"]
    /\ rsid' = [c \in Clients |-> 0]
    /\ rconfirm' = [c \in Clients |-> FALSE]
    /\ late' = [c \in Clients |-> NoCall]
    /\ UNCHANGED <<open_seqid, files, closed, lastsid, lost>>

GraceEnds ==
    /\ grace
    /\ grace' = FALSE
    /\ UNCHANGED <<clientVars, chanVars, recordVars, ownerVars, restarts>>

-----------------------------------------------------------------------------
\* What the application decides to do.
UserStep(c) ==
    \/ Construct(c) \/ ConstructFails(c) \/ Destroy(c) \/ Other(c)
    \/ \E f \in Files : Open(c, f)
    \/ \E h \in Handles : Close(c, h) \/ Io(c, h)

\* What the client does by itself.
ClientStep(c) ==
    \/ BootFails(c) \/ RecvSetclientid(c) \/ RecvSetclientidConfirm(c) \/ RecvRoot(c)
    \/ RecvOpen(c) \/ OpenConfirm(c) \/ RecvOpenConfirm(c)
    \/ OpenBackoff(c) \/ OpenRetry(c) \/ RecvClose(c) \/ RecvOther(c)

\* What the server does with a request.
ServerStep(c) ==
    \/ SrvSetclientid(c) \/ SrvSetclientidConfirm(c) \/ SrvOutOfSequence(c)
    \/ SrvStops(c) \/ SrvOpen(c) \/ SrvOpenConfirm(c) \/ SrvClose(c) \/ SrvOther(c)

Failure ==
    \/ \E c \in Clients : \/ OpenSendFails(c) \/ ConfirmSendFails(c) \/ RetrySendFails(c)
                           \/ ConnectionLost(c) \/ SrvLate(c)
    \/ LeaseExpires \/ ServerRestart

Next ==
    \/ \E c \in Clients : UserStep(c) \/ ClientStep(c) \/ ServerStep(c)
    \/ Failure
    \/ GraceEnds

Spec == Init /\ [][Next]_vars

\* As in Nfs41Session: a call that has begun goes on, and a grace period ends.
Fairness ==
    /\ \A c \in Clients : WF_vars(ClientStep(c)) /\ WF_vars(ServerStep(c))
    /\ WF_vars(GraceEnds)

FairSpec == Spec /\ Fairness

-----------------------------------------------------------------------------
(* Properties.                                                             *)

\* An OPEN or OPEN_CONFIRM the server has not answered for good.
Pending(c) == IF cur[c].op \in OwnerOps /\ chan[c] = "request" THEN 1 ELSE 0

\* The seqid do_open last used is the one the server last executed for the owner,
\* plus those that were used in vain (++open_seqid_ before the call is never taken
\* back, and a refused operation does not count for the server).
OwnerInStep ==
    \A c \in Clients :
        (conf = c /\ conn[c] /\ owner[c] = "confirmed") =>
            open_seqid[c] = last[c] + lost[c] + Pending(c)

\* do_open never gets the cached answer of an earlier operation, although it sends
\* the OPEN again with the same seqid after NFS4ERR_GRACE.
NoFalseReplay ==
    \A c \in Clients : ~(chan[c] = "reply" /\ status[c] = "replay")

\* After do_open used a seqid of a confirmed open-owner in vain the server executes
\* no later operation of this owner, not even a close(): the next number is one that do_open
\* has used up, and the seqid an Nfs4File keeps for its CLOSE is older still.
NothingAfterLost ==
    [][\A c \in Clients :
          /\ life[c] = "ready" /\ owner[c] = "confirmed" /\ lost[c] > 0
          /\ conf = c /\ conf' = c
          => last'[c] = last[c] /\ opens'[c] = opens[c]]_vars

\* An Nfs4File that do_open returned stays open, under a confirmed open-owner, while
\* the connection works and the server knows the client: no later OPEN of this
\* client, failed or not, makes the server drop it.
HeldStaysOpen ==
    \A c \in Clients : \A h \in files[c] :
        (conf = c /\ conn[c] /\ ~(cur[c].op = "close" /\ cur[c].file = h.file)) =>
            /\ owner[c] = "confirmed"
            /\ opens[c][h.file] >= h.sid

\* do_open ends: the OPEN it repeats with the same seqid is executed afresh once the
\* grace period is over.
OpenEnds ==
    \A c \in Openers : cur[c].op \in OwnerOps ~> cur[c].op \notin OwnerOps

\* "CLOSE(seqid, stateid) -> invalidated stateid4": once close() has returned, the
\* stateid of the Nfs4File is not open on the server.
CloseReleases ==
    \A c \in Clients : \A h \in closed[c] : opens[c][h.file] # h.sid
=============================================================================
