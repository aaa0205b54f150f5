-------------------------- MODULE Nfs40OpenProofs ---------------------------
(***************************************************************************)
(* Theorems about Nfs40Open, for any number of client objects and files,   *)
(* any number of seqids and any number of server restarts.                 *)
(***************************************************************************)
EXTENDS Nfs40Open, TLAPS

FileOps == OwnerOps \cup {"close", "io"}

\* What a call in progress says about the object and its connection.
CallInv(c) ==
    /\ chan[c] = "idle" <=> cur[c].op = "none"
    /\ cur[c].op = "none" => cur[c] = NoCall
    /\ chan[c] # "idle" => conn[c]
    /\ chan[c] = "backoff" => cur[c].op = "open"
    /\ cur[c].op \in BootOps <=> life[c] = "boot"
    /\ cur[c].op \in FileOps => cur[c].file \in Files
    /\ cur[c].op \in OwnerOps => cur[c].seq = open_seqid[c]
    /\ cur[c].op = "open" => open_seqid[c] < MaxSeqid
    /\ cur[c].op = "close" => Handle(cur[c].file, cur[c].sid, cur[c].seq) \in files[c]

\* An object that is not yet built has no record on the server and no file.
FreshInv(c) ==
    /\ life[c] = "new" => ~conn[c] /\ conf # c /\ unconf # c
    /\ life[c] \in {"new", "boot"} => files[c] = {} /\ closed[c] = {}

\* The reply of an OPEN or OPEN_CONFIRM that was executed has arrived.
Opened(c, o) == Receive(c, o) /\ status[c] = "ok"

\* Such a reply has a stateid; below MaxSeqid there is one left for OPEN_CONFIRM.
ReplyInv(c) ==
    /\ Opened(c, "open") => rsid[c] # 0 /\ lastsid[c] < MaxSeqid
    /\ Requested(c, "open_confirm") => lastsid[c] < MaxSeqid
    /\ Opened(c, "open_confirm") => rsid[c] # 0
    /\ \A f \in Files : opens[c][f] <= lastsid[c]

\* do_open waits for the end of the grace period, or is about to.
Waiting(c) == chan[c] = "backoff" \/ (Receive(c, "open") /\ status[c] = "grace")

\* No more seqids are lost than were used, and none when do_open waits: the OPEN it
\* will repeat was the last operation of the owner.
LostInv(c) ==
    /\ lost[c] + Pending(c) <= open_seqid[c]
    /\ Waiting(c) => lost[c] = 0 /\ open_seqid[c] > 0

\* In a grace period no owner is confirmed, and none is while do_open waits: a repeated
\* OPEN finds an owner that takes any seqid.
GraceInv(c) ==
    /\ grace => /\ owner[c] # "confirmed"
                /\ cur[c].op # "open_confirm"
                /\ ~Opened(c, "open")
    /\ Waiting(c) /\ conf = c => owner[c] # "confirmed"

\* OwnerInStep and NoFalseReplay, of one client.
StepInv(c) ==
    /\ conf = c /\ conn[c] /\ owner[c] = "confirmed" =>
           open_seqid[c] = last[c] + lost[c] + Pending(c)
    /\ ~(chan[c] = "reply" /\ status[c] = "replay")
    /\ cached[c] # "replay"

\* A file that is held was opened by an operation the owner has behind it, so that
\* the seqid of its CLOSE is never the next one; an executed OPEN whose reply is on
\* its way is the last operation of the owner.
HeldInv(c) ==
    conf = c /\ conn[c] =>
        /\ \A h \in files[c] : /\ owner[c] = "confirmed"
                               /\ opens[c][h.file] >= h.sid
                               /\ h.seq <= last[c]
        /\ Opened(c, "open") => /\ last[c] = cur[c].seq
                                /\ opens[c][cur[c].file] = rsid[c]
                                /\ ~rconfirm[c] => owner[c] = "confirmed"
        /\ Opened(c, "open_confirm") => /\ last[c] = cur[c].seq
                                        /\ opens[c][cur[c].file] = rsid[c]
                                        /\ owner[c] = "confirmed"

LocalInv(c) ==
    /\ CallInv(c) /\ FreshInv(c) /\ ReplyInv(c) /\ LostInv(c) /\ GraceInv(c)
    /\ StepInv(c) /\ HeldInv(c)

\* The inductive invariant, of the objects and the server.
OwnerInv == TypeOK /\ \A c \in Clients : LocalInv(c)

\* A request whose connection broke: its call has thrown and the object makes no other.
\* The seqid of an OPEN or OPEN_CONFIRM is still the last one its object used, and that
\* of a CLOSE is one the owner has behind it.
LateInv ==
    \A c \in Clients : late[c].op # "none" =>
        /\ ~conn[c] /\ life[c] # "new"
        /\ late[c].op \in BootOps => life[c] = "failed"
        /\ late[c].op \in FileOps => late[c].file \in Files
        /\ late[c].op = "open_confirm" => lastsid[c] < MaxSeqid /\ ~grace
        /\ late[c].op \in OwnerOps /\ conf = c /\ owner[c] = "confirmed" =>
               late[c].seq = last[c] + lost[c] + 1
        /\ late[c].op = "close" /\ conf = c =>
               owner[c] = "confirmed" /\ late[c].seq <= last[c]

USE BoundsAssumption, NoneAssumption
USE DEF Call, NoCall, Handle, Handles, Seqids, OwnerOps, BootOps, Ops, FileOps, Statuses,
        Calls, clientVars, chanVars, recordVars, ownerVars

-----------------------------------------------------------------------------
(* A step of one client leaves the others alone.                           *)

\* Nothing that LocalInv(d) speaks of changes, except that another client may take
\* the place of d, or of a client that was about to, in the records of the server.
Same(d) ==
    /\ life'[d] = life[d] /\ conn'[d] = conn[d] /\ open_seqid'[d] = open_seqid[d]
    /\ cur'[d] = cur[d] /\ files'[d] = files[d] /\ closed'[d] = closed[d]
    /\ chan'[d] = chan[d] /\ status'[d] = status[d] /\ rsid'[d] = rsid[d]
    /\ rconfirm'[d] = rconfirm[d] /\ owner'[d] = owner[d] /\ last'[d] = last[d]
    /\ cached'[d] = cached[d] /\ opens'[d] = opens[d] /\ lastsid'[d] = lastsid[d]
    /\ lost'[d] = lost[d]
    /\ grace' = grace
    /\ conf' = d => conf = d
    /\ unconf' = d => unconf = d

\* So its invariant is kept.
LEMMA OthersKept ==
    ASSUME NEW d \in Clients, LocalInv(d), Same(d)
    PROVE  LocalInv(d)'
<1>1. CallInv(d)'
  BY DEF LocalInv, CallInv, Same
<1>2. FreshInv(d)'
  BY DEF LocalInv, FreshInv, Same
<1>3. ReplyInv(d)'
  BY DEF LocalInv, ReplyInv, Same, Opened, Receive, Requested
<1>4. LostInv(d)'
  BY DEF LocalInv, LostInv, Same, Waiting, Receive, Pending
<1>5. GraceInv(d)'
  BY DEF LocalInv, GraceInv, Same, Waiting, Opened, Receive
<1>6. StepInv(d)'
  BY DEF LocalInv, StepInv, Same, Pending
<1>7. HeldInv(d)'
  BY DEF LocalInv, HeldInv, Same, Opened, Receive
<1> QED BY <1>1, <1>2, <1>3, <1>4, <1>5, <1>6, <1>7 DEF LocalInv

\* The types of the state of one client.
LocalType(c) ==
    /\ life[c] \in {"new", "boot", "ready", "failed", "gone"}
    /\ conn[c] \in BOOLEAN
    /\ open_seqid[c] \in Seqids
    /\ cur[c] \in Calls
    /\ late[c] \in Calls
    /\ files[c] \in SUBSET Handles
    /\ status[c] \in Statuses
    /\ rsid[c] \in Seqids
    /\ rconfirm[c] \in BOOLEAN
    /\ last[c] \in Seqids
    /\ cached[c] \in Statuses
    /\ opens[c] \in [Files -> Seqids]
    /\ lastsid[c] \in Seqids
    /\ lost[c] \in Seqids

\* TypeOK, for one client.
LEMMA TypeOfClient ==
    ASSUME TypeOK, NEW c \in Clients
    PROVE  LocalType(c)
BY DEF TypeOK, LocalType

\* A step of c that keeps the invariant: the other clients are left alone.
Preserved(c) == TypeOK' /\ LocalInv(c)' /\ \A d \in Clients \ {c} : Same(d)

\* A step that is so preserves the invariant of all clients.
LEMMA PreservedSuffices ==
    ASSUME OwnerInv, NEW c \in Clients, Preserved(c)
    PROVE  OwnerInv'
BY OthersKept DEF OwnerInv, Preserved

\* The parts of the state that a step of c leaves alone, and the end of its call.
ObjectKept(c) ==
    /\ life'[c] = life[c] /\ conn'[c] = conn[c] /\ open_seqid'[c] = open_seqid[c]
    /\ files'[c] = files[c] /\ closed'[c] = closed[c]
ReplyKept(c) ==
    status'[c] = status[c] /\ rsid'[c] = rsid[c] /\ rconfirm'[c] = rconfirm[c]
OwnerKept(c) ==
    /\ owner'[c] = owner[c] /\ last'[c] = last[c] /\ cached'[c] = cached[c]
    /\ opens'[c] = opens[c] /\ lastsid'[c] = lastsid[c] /\ lost'[c] = lost[c]
RecordsKept == conf' = conf /\ unconf' = unconf /\ grace' = grace
CallEnded(c) ==
    /\ cur'[c] = NoCall /\ chan'[c] = "idle" /\ status'[c] = "none" /\ rsid'[c] = 0
    /\ rconfirm'[c] = FALSE

\* The owner and the opens of a client are forgotten.
Forgotten(d) ==
    /\ owner'[d] = "none" /\ last'[d] = 0 /\ cached'[d] = "none"
    /\ opens'[d] = [f \in Files |-> 0] /\ lastsid'[d] = lastsid[d] /\ lost'[d] = lost[d]

\* So they may be, when the client is not registered any more.
LEMMA ForgottenKept ==
    ASSUME NEW d \in Clients, LocalType(d), LocalInv(d), Forgotten(d), ObjectKept(d),
           ReplyKept(d), cur'[d] = cur[d], chan'[d] = chan[d], grace' = grace,
           conf' # d, unconf' = d => unconf = d
    PROVE  LocalInv(d)'
BY DEF LocalInv, LocalType, CallInv, FreshInv, ReplyInv, LostInv, GraceInv, StepInv, HeldInv,
       Opened, Waiting, Pending, Receive, Requested, Forgotten, ObjectKept, ReplyKept

-----------------------------------------------------------------------------
(* Each action: what it does to its client (<2>1), from which follow the    *)
(* invariant of that client (<2>2) and the types (<2>3), and that it leaves *)
(* the other clients alone (<2>4).                                         *)

\* What the application does.
LEMMA UserStepKeeps ==
    ASSUME TypeOK, NEW c \in Clients, LocalInv(c), UserStep(c)
    PROVE  Preserved(c)
<1>0. LocalType(c)
  BY TypeOfClient
<1>1. CASE Construct(c)
  <2>1. /\ life[c] = "new" /\ life'[c] = "boot" /\ conn'[c] = TRUE
        /\ open_seqid'[c] = open_seqid[c] /\ cur'[c] = Call("setclientid", None, 0, 0)
        /\ files'[c] = files[c] /\ closed'[c] = closed[c] /\ chan'[c] = "request"
        /\ ReplyKept(c) /\ OwnerKept(c) /\ RecordsKept
    BY <1>1 DEF TypeOK, ReplyKept, OwnerKept, RecordsKept, Construct, Send
  <2>2. LocalInv(c)'
    BY <1>0, <2>1 DEF LocalInv, LocalType, CallInv, FreshInv, ReplyInv, LostInv,
           GraceInv, StepInv, HeldInv, Opened, Waiting, Pending, Receive, Requested,
           ReplyKept, OwnerKept, RecordsKept
  <2>3. TypeOK'
    BY <1>0, <1>1, <2>1 DEF TypeOK, Construct, Send
  <2>4. ASSUME NEW d \in Clients \ {c} PROVE Same(d)
    BY <1>1 DEF Same, TypeOK, Construct, Send
  <2> QED BY <2>2, <2>3, <2>4 DEF Preserved
<1>2. CASE ConstructFails(c)
  <2>1. /\ life[c] = "new" /\ life'[c] = "failed" /\ conn'[c] = conn[c]
        /\ open_seqid'[c] = open_seqid[c] /\ cur'[c] = cur[c] /\ files'[c] = files[c]
        /\ closed'[c] = closed[c] /\ chan'[c] = chan[c] /\ ReplyKept(c) /\ OwnerKept(c)
        /\ RecordsKept
    BY <1>2 DEF TypeOK, ReplyKept, OwnerKept, RecordsKept, ConstructFails
  <2>2. LocalInv(c)'
    BY <1>0, <2>1 DEF LocalInv, LocalType, CallInv, FreshInv, ReplyInv, LostInv,
           GraceInv, StepInv, HeldInv, Opened, Waiting, Pending, Receive, Requested,
           ReplyKept, OwnerKept, RecordsKept
  <2>3. TypeOK'
    BY <1>0, <1>2, <2>1 DEF TypeOK, ConstructFails
  <2>4. ASSUME NEW d \in Clients \ {c} PROVE Same(d)
    BY <1>2 DEF Same, TypeOK, ConstructFails
  <2> QED BY <2>2, <2>3, <2>4 DEF Preserved
<1>3. CASE Destroy(c)
  <2>1. /\ life[c] = "ready" /\ life'[c] = "gone" /\ conn'[c] = FALSE
        /\ open_seqid'[c] = open_seqid[c] /\ files'[c] = files[c]
        /\ closed'[c] = closed[c] /\ CallEnded(c) /\ OwnerKept(c) /\ RecordsKept
    BY <1>3 DEF TypeOK, CallEnded, OwnerKept, RecordsKept, Destroy, Idle, Finish
  <2>2. LocalInv(c)'
    BY <1>0, <2>1 DEF LocalInv, LocalType, CallInv, FreshInv, ReplyInv, LostInv,
           GraceInv, StepInv, HeldInv, Opened, Waiting, Pending, Receive, Requested,
           CallEnded, OwnerKept, RecordsKept
  <2>3. TypeOK'
    BY <1>0, <1>3, <2>1 DEF TypeOK, Destroy, Idle, Finish
  <2>4. ASSUME NEW d \in Clients \ {c} PROVE Same(d)
    BY <1>3 DEF Same, TypeOK, Destroy, Idle, Finish
  <2> QED BY <2>2, <2>3, <2>4 DEF Preserved
<1>4. CASE Other(c)
  <2>1. /\ life[c] = "ready" /\ cur[c] = NoCall /\ conn[c]
        /\ cur'[c] = Call("other", None, 0, 0) /\ chan'[c] = "request" /\ ObjectKept(c)
        /\ ReplyKept(c) /\ OwnerKept(c) /\ RecordsKept
    BY <1>4 DEF TypeOK, ObjectKept, ReplyKept, OwnerKept, RecordsKept, Other, Idle,
           Send
  <2>2. LocalInv(c)'
    BY <1>0, <2>1 DEF LocalInv, LocalType, CallInv, FreshInv, ReplyInv, LostInv,
           GraceInv, StepInv, HeldInv, Opened, Waiting, Pending, Receive, Requested,
           ObjectKept, ReplyKept, OwnerKept, RecordsKept
  <2>3. TypeOK'
    BY <1>0, <1>4, <2>1 DEF TypeOK, Other, Idle, Send
  <2>4. ASSUME NEW d \in Clients \ {c} PROVE Same(d)
    BY <1>4 DEF Same, TypeOK, Other, Idle, Send
  <2> QED BY <2>2, <2>3, <2>4 DEF Preserved
<1>5. ASSUME NEW f \in Files, Open(c, f) PROVE Preserved(c)
  <2>1. /\ life[c] = "ready" /\ cur[c] = NoCall /\ conn[c]
        /\ open_seqid[c] + 1 < MaxSeqid /\ life'[c] = life[c] /\ conn'[c] = conn[c]
        /\ open_seqid'[c] = open_seqid[c] + 1
        /\ cur'[c] = Call("open", f, 0, open_seqid[c] + 1) /\ files'[c] = files[c]
        /\ closed'[c] = closed[c] /\ chan'[c] = "request" /\ ReplyKept(c)
        /\ OwnerKept(c) /\ RecordsKept
    BY <1>5 DEF TypeOK, ReplyKept, OwnerKept, RecordsKept, Open, UsedSeqid, Idle,
           Send
  <2>2. LocalInv(c)'
    BY <1>0, <2>1, <1>5 DEF LocalInv, LocalType, CallInv, FreshInv, ReplyInv,
           LostInv, GraceInv, StepInv, HeldInv, Opened, Waiting, Pending, Receive,
           Requested, ReplyKept, OwnerKept, RecordsKept
  <2>3. TypeOK'
    BY <1>0, <1>5, <2>1 DEF TypeOK, LocalInv, LocalType, CallInv, ReplyInv, LostInv,
           Opened, Pending, Open, UsedSeqid, Idle, Send
  <2>4. ASSUME NEW d \in Clients \ {c} PROVE Same(d)
    BY <1>5 DEF Same, TypeOK, Open, UsedSeqid, Idle, Send
  <2> QED BY <2>2, <2>3, <2>4 DEF Preserved
<1>6. ASSUME NEW h \in Handles, Close(c, h) PROVE Preserved(c)
  <2>1. /\ life[c] = "ready" /\ cur[c] = NoCall /\ conn[c] /\ h \in files[c]
        /\ cur'[c] = Call("close", h.file, h.sid, h.seq) /\ chan'[c] = "request"
        /\ ObjectKept(c) /\ ReplyKept(c) /\ OwnerKept(c) /\ RecordsKept
    BY <1>6 DEF TypeOK, ObjectKept, ReplyKept, OwnerKept, RecordsKept, Close, Idle,
           Send
  <2>2. LocalInv(c)'
    BY <1>0, <2>1, <1>6 DEF LocalInv, LocalType, CallInv, FreshInv, ReplyInv,
           LostInv, GraceInv, StepInv, HeldInv, Opened, Waiting, Pending, Receive,
           Requested, ObjectKept, ReplyKept, OwnerKept, RecordsKept
  <2>3. TypeOK'
    BY <1>0, <1>6, <2>1 DEF TypeOK, LocalInv, LocalType, CallInv, ReplyInv, LostInv,
           Opened, Pending, Close, Idle, Send
  <2>4. ASSUME NEW d \in Clients \ {c} PROVE Same(d)
    BY <1>6 DEF Same, TypeOK, Close, Idle, Send
  <2> QED BY <2>2, <2>3, <2>4 DEF Preserved
<1>7. ASSUME NEW h \in Handles, Io(c, h) PROVE Preserved(c)
  <2>1. /\ life[c] = "ready" /\ cur[c] = NoCall /\ conn[c]
        /\ cur'[c] = Call("io", h.file, h.sid, 0) /\ chan'[c] = "request"
        /\ ObjectKept(c) /\ ReplyKept(c) /\ OwnerKept(c) /\ RecordsKept
    BY <1>7 DEF TypeOK, ObjectKept, ReplyKept, OwnerKept, RecordsKept, Io, Idle, Send
  <2>2. LocalInv(c)'
    BY <1>0, <2>1, <1>7 DEF LocalInv, LocalType, CallInv, FreshInv, ReplyInv,
           LostInv, GraceInv, StepInv, HeldInv, Opened, Waiting, Pending, Receive,
           Requested, ObjectKept, ReplyKept, OwnerKept, RecordsKept
  <2>3. TypeOK'
    BY <1>0, <1>7, <2>1 DEF TypeOK, LocalInv, LocalType, CallInv, ReplyInv, LostInv,
           Opened, Pending, Io, Idle, Send
  <2>4. ASSUME NEW d \in Clients \ {c} PROVE Same(d)
    BY <1>7 DEF Same, TypeOK, Io, Idle, Send
  <2> QED BY <2>2, <2>3, <2>4 DEF Preserved
<1> QED BY <1>1, <1>2, <1>3, <1>4, <1>5, <1>6, <1>7 DEF UserStep

\* What the client does by itself.
LEMMA ClientStepKeeps ==
    ASSUME TypeOK, NEW c \in Clients, LocalInv(c), ClientStep(c)
    PROVE  Preserved(c)
<1>0. LocalType(c)
  BY TypeOfClient
<1>1. CASE BootFails(c)
  <2>1. /\ cur[c].op \in BootOps /\ life'[c] = "failed" /\ conn'[c] = FALSE
        /\ open_seqid'[c] = open_seqid[c] /\ files'[c] = files[c]
        /\ closed'[c] = closed[c] /\ CallEnded(c) /\ OwnerKept(c) /\ RecordsKept
    BY <1>1 DEF TypeOK, CallEnded, OwnerKept, RecordsKept, BootFails, Finish
  <2>2. LocalInv(c)'
    BY <1>0, <2>1 DEF LocalInv, LocalType, CallInv, FreshInv, ReplyInv, LostInv,
           GraceInv, StepInv, HeldInv, Opened, Waiting, Pending, Receive, Requested,
           CallEnded, OwnerKept, RecordsKept
  <2>3. TypeOK'
    BY <1>0, <1>1, <2>1 DEF TypeOK, BootFails, Finish
  <2>4. ASSUME NEW d \in Clients \ {c} PROVE Same(d)
    BY <1>1 DEF Same, TypeOK, BootFails, Finish
  <2> QED BY <2>2, <2>3, <2>4 DEF Preserved
<1>2. CASE RecvSetclientid(c)
  <2>1. /\ chan[c] = "reply" /\ cur[c].op = "setclientid"
        /\ cur'[c] = Call("setclientid_confirm", None, 0, 0) /\ chan'[c] = "request"
        /\ ObjectKept(c) /\ ReplyKept(c) /\ OwnerKept(c) /\ RecordsKept
    BY <1>2 DEF TypeOK, ObjectKept, ReplyKept, OwnerKept, RecordsKept,
           RecvSetclientid, Receive, Send
  <2>2. LocalInv(c)'
    BY <1>0, <2>1 DEF LocalInv, LocalType, CallInv, FreshInv, ReplyInv, LostInv,
           GraceInv, StepInv, HeldInv, Opened, Waiting, Pending, Receive, Requested,
           ObjectKept, ReplyKept, OwnerKept, RecordsKept
  <2>3. TypeOK'
    BY <1>0, <1>2, <2>1 DEF TypeOK, RecvSetclientid, Receive, Send
  <2>4. ASSUME NEW d \in Clients \ {c} PROVE Same(d)
    BY <1>2 DEF Same, TypeOK, RecvSetclientid, Receive, Send
  <2> QED BY <2>2, <2>3, <2>4 DEF Preserved
<1>3. CASE RecvSetclientidConfirm(c)
  <2>1. /\ chan[c] = "reply" /\ cur[c].op = "setclientid_confirm"
        /\ cur'[c] = Call("root", None, 0, 0) /\ chan'[c] = "request" /\ ObjectKept(c)
        /\ ReplyKept(c) /\ OwnerKept(c) /\ RecordsKept
    BY <1>3 DEF TypeOK, ObjectKept, ReplyKept, OwnerKept, RecordsKept,
           RecvSetclientidConfirm, Receive, Send
  <2>2. LocalInv(c)'
    BY <1>0, <2>1 DEF LocalInv, LocalType, CallInv, FreshInv, ReplyInv, LostInv,
           GraceInv, StepInv, HeldInv, Opened, Waiting, Pending, Receive, Requested,
           ObjectKept, ReplyKept, OwnerKept, RecordsKept
  <2>3. TypeOK'
    BY <1>0, <1>3, <2>1 DEF TypeOK, RecvSetclientidConfirm, Receive, Send
  <2>4. ASSUME NEW d \in Clients \ {c} PROVE Same(d)
    BY <1>3 DEF Same, TypeOK, RecvSetclientidConfirm, Receive, Send
  <2> QED BY <2>2, <2>3, <2>4 DEF Preserved
<1>4. CASE RecvRoot(c)
  <2>1. /\ cur[c].op = "root" /\ life'[c] = "ready" /\ conn'[c] = conn[c]
        /\ open_seqid'[c] = open_seqid[c] /\ files'[c] = files[c]
        /\ closed'[c] = closed[c] /\ CallEnded(c) /\ OwnerKept(c) /\ RecordsKept
    BY <1>4 DEF TypeOK, CallEnded, OwnerKept, RecordsKept, RecvRoot, Receive, Finish
  <2>2. LocalInv(c)'
    BY <1>0, <2>1 DEF LocalInv, LocalType, CallInv, FreshInv, ReplyInv, LostInv,
           GraceInv, StepInv, HeldInv, Opened, Waiting, Pending, Receive, Requested,
           CallEnded, OwnerKept, RecordsKept
  <2>3. TypeOK'
    BY <1>0, <1>4, <2>1 DEF TypeOK, RecvRoot, Receive, Finish
  <2>4. ASSUME NEW d \in Clients \ {c} PROVE Same(d)
    BY <1>4 DEF Same, TypeOK, RecvRoot, Receive, Finish
  <2> QED BY <2>2, <2>3, <2>4 DEF Preserved
<1>5. CASE RecvOpen(c)
  <2>1. /\ chan[c] = "reply" /\ cur[c].op = "open"
        /\ (status[c] = "ok" => ~rconfirm[c]) /\ life'[c] = "ready"
        /\ conn'[c] = conn[c] /\ open_seqid'[c] = open_seqid[c]
        /\ files'[c] = (IF status[c] = "ok"
                          THEN files[c] \cup {Handle(cur[c].file, rsid[c], cur[c].seq)}
                          ELSE files[c])
        /\ closed'[c] = closed[c] /\ CallEnded(c) /\ OwnerKept(c) /\ RecordsKept
    BY <1>5 DEF TypeOK, CallEnded, OwnerKept, RecordsKept, RecvOpen, Receive,
           UsableOpen, MustConfirm, Finish
  <2>2. LocalInv(c)'
    BY <1>0, <2>1 DEF LocalInv, LocalType, CallInv, FreshInv, ReplyInv, LostInv,
           GraceInv, StepInv, HeldInv, Opened, Waiting, Pending, Receive, Requested,
           CallEnded, OwnerKept, RecordsKept
  <2>3. TypeOK'
    BY <1>0, <1>5, <2>1 DEF TypeOK, LocalInv, LocalType, CallInv, ReplyInv, LostInv,
           Opened, Pending, RecvOpen, Receive, UsableOpen, MustConfirm, Finish
  <2>4. ASSUME NEW d \in Clients \ {c} PROVE Same(d)
    BY <1>5 DEF Same, TypeOK, RecvOpen, Receive, UsableOpen, MustConfirm, Finish
  <2> QED BY <2>2, <2>3, <2>4 DEF Preserved
<1>6. CASE OpenConfirm(c)
  <2>1. /\ Opened(c, "open") /\ life'[c] = life[c] /\ conn'[c] = conn[c]
        /\ open_seqid'[c] = open_seqid[c] + 1
        /\ cur'[c] = Call("open_confirm", cur[c].file, rsid[c], open_seqid[c] + 1)
        /\ files'[c] = files[c] /\ closed'[c] = closed[c] /\ chan'[c] = "request"
        /\ ReplyKept(c) /\ OwnerKept(c) /\ RecordsKept
    BY <1>6 DEF TypeOK, Opened, ReplyKept, OwnerKept, RecordsKept, OpenConfirm,
           Receive, UsableOpen, UsedSeqid, Send
  <2>2. LocalInv(c)'
    BY <1>0, <2>1 DEF LocalInv, LocalType, CallInv, FreshInv, ReplyInv, LostInv,
           GraceInv, StepInv, HeldInv, Opened, Waiting, Pending, Receive, Requested,
           ReplyKept, OwnerKept, RecordsKept
  <2>3. TypeOK'
    BY <1>0, <1>6, <2>1 DEF TypeOK, LocalInv, LocalType, CallInv, ReplyInv, LostInv,
           Opened, Pending, OpenConfirm, Receive, UsableOpen, UsedSeqid, Send
  <2>4. ASSUME NEW d \in Clients \ {c} PROVE Same(d)
    BY <1>6 DEF Same, TypeOK, OpenConfirm, Receive, UsableOpen, UsedSeqid, Send
  <2> QED BY <2>2, <2>3, <2>4 DEF Preserved
<1>7. CASE RecvOpenConfirm(c)
  <2>1. /\ chan[c] = "reply" /\ cur[c].op = "open_confirm" /\ life'[c] = "ready"
        /\ conn'[c] = conn[c] /\ open_seqid'[c] = open_seqid[c]
        /\ files'[c] = (IF status[c] = "ok"
                          THEN files[c] \cup {Handle(cur[c].file, rsid[c], cur[c].seq)}
                          ELSE files[c])
        /\ closed'[c] = closed[c] /\ CallEnded(c) /\ OwnerKept(c) /\ RecordsKept
    BY <1>7 DEF TypeOK, CallEnded, OwnerKept, RecordsKept, RecvOpenConfirm, Receive,
           Finish
  <2>2. LocalInv(c)'
    BY <1>0, <2>1 DEF LocalInv, LocalType, CallInv, FreshInv, ReplyInv, LostInv,
           GraceInv, StepInv, HeldInv, Opened, Waiting, Pending, Receive, Requested,
           CallEnded, OwnerKept, RecordsKept
  <2>3. TypeOK'
    BY <1>0, <1>7, <2>1 DEF TypeOK, LocalInv, LocalType, CallInv, ReplyInv, LostInv,
           Opened, Pending, RecvOpenConfirm, Receive, Finish
  <2>4. ASSUME NEW d \in Clients \ {c} PROVE Same(d)
    BY <1>7 DEF Same, TypeOK, RecvOpenConfirm, Receive, Finish
  <2> QED BY <2>2, <2>3, <2>4 DEF Preserved
<1>8. CASE OpenBackoff(c)
  <2>1. /\ chan[c] = "reply" /\ cur[c].op = "open" /\ status[c] = "grace"
        /\ cur'[c] = cur[c] /\ chan'[c] = "backoff" /\ ObjectKept(c) /\ ReplyKept(c)
        /\ OwnerKept(c) /\ RecordsKept
    BY <1>8 DEF TypeOK, ObjectKept, ReplyKept, OwnerKept, RecordsKept, OpenBackoff,
           RetriedStatus, Receive
  <2>2. LocalInv(c)'
    BY <1>0, <2>1 DEF LocalInv, LocalType, CallInv, FreshInv, ReplyInv, LostInv,
           GraceInv, StepInv, HeldInv, Opened, Waiting, Pending, Receive, Requested,
           ObjectKept, ReplyKept, OwnerKept, RecordsKept
  <2>3. TypeOK'
    BY <1>0, <1>8, <2>1 DEF TypeOK, OpenBackoff, RetriedStatus, Receive
  <2>4. ASSUME NEW d \in Clients \ {c} PROVE Same(d)
    BY <1>8 DEF Same, TypeOK, OpenBackoff, RetriedStatus, Receive
  <2> QED BY <2>2, <2>3, <2>4 DEF Preserved
<1>9. CASE OpenRetry(c)
  <2>1. /\ chan[c] = "backoff" /\ cur'[c] = cur[c] /\ chan'[c] = "request"
        /\ ObjectKept(c) /\ ReplyKept(c) /\ OwnerKept(c) /\ RecordsKept
    BY <1>9 DEF TypeOK, ObjectKept, ReplyKept, OwnerKept, RecordsKept, OpenRetry,
           Send
  <2>2. LocalInv(c)'
    BY <1>0, <2>1 DEF LocalInv, LocalType, CallInv, FreshInv, ReplyInv, LostInv,
           GraceInv, StepInv, HeldInv, Opened, Waiting, Pending, Receive, Requested,
           ObjectKept, ReplyKept, OwnerKept, RecordsKept
  <2>3. TypeOK'
    BY <1>0, <1>9, <2>1 DEF TypeOK, OpenRetry, Send
  <2>4. ASSUME NEW d \in Clients \ {c} PROVE Same(d)
    BY <1>9 DEF Same, TypeOK, OpenRetry, Send
  <2> QED BY <2>2, <2>3, <2>4 DEF Preserved
<1>10. CASE RecvClose(c)
  <2>1. /\ cur[c].op = "close" /\ files'[c] \subseteq files[c] /\ life'[c] = "ready"
        /\ conn'[c] = conn[c] /\ open_seqid'[c] = open_seqid[c] /\ CallEnded(c)
        /\ OwnerKept(c) /\ RecordsKept
    BY <1>10 DEF TypeOK, CallEnded, OwnerKept, RecordsKept, RecvClose, Receive,
           Finish
  <2>2. LocalInv(c)'
    BY <1>0, <2>1 DEF LocalInv, LocalType, CallInv, FreshInv, ReplyInv, LostInv,
           GraceInv, StepInv, HeldInv, Opened, Waiting, Pending, Receive, Requested,
           CallEnded, OwnerKept, RecordsKept
  <2>3. TypeOK'
    BY <1>0, <1>10, <2>1 DEF TypeOK, LocalInv, LocalType, CallInv, ReplyInv, LostInv,
           Opened, Pending, RecvClose, Receive, Finish
  <2>4. ASSUME NEW d \in Clients \ {c} PROVE Same(d)
    BY <1>10 DEF Same, TypeOK, RecvClose, Receive, Finish
  <2> QED BY <2>2, <2>3, <2>4 DEF Preserved
<1>11. CASE RecvOther(c)
  <2>1. /\ cur[c].op \in {"io", "other"} /\ life'[c] = "ready" /\ conn'[c] = conn[c]
        /\ open_seqid'[c] = open_seqid[c] /\ files'[c] = files[c]
        /\ closed'[c] = closed[c] /\ CallEnded(c) /\ OwnerKept(c) /\ RecordsKept
    BY <1>11 DEF TypeOK, CallEnded, OwnerKept, RecordsKept, RecvOther, Finish
  <2>2. LocalInv(c)'
    BY <1>0, <2>1 DEF LocalInv, LocalType, CallInv, FreshInv, ReplyInv, LostInv,
           GraceInv, StepInv, HeldInv, Opened, Waiting, Pending, Receive, Requested,
           CallEnded, OwnerKept, RecordsKept
  <2>3. TypeOK'
    BY <1>0, <1>11, <2>1 DEF TypeOK, RecvOther, Finish
  <2>4. ASSUME NEW d \in Clients \ {c} PROVE Same(d)
    BY <1>11 DEF Same, TypeOK, RecvOther, Finish
  <2> QED BY <2>2, <2>3, <2>4 DEF Preserved
<1> QED BY <1>1, <1>2, <1>3, <1>4, <1>5, <1>6, <1>7, <1>8, <1>9, <1>10, <1>11 DEF ClientStep

\* A send that fails, and a connection that breaks.
LEMMA SendFailureKeeps ==
    ASSUME TypeOK, NEW c \in Clients, LocalInv(c),
           OpenSendFails(c) \/ ConfirmSendFails(c) \/ RetrySendFails(c) \/ ConnectionLost(c)
    PROVE  Preserved(c)
<1>0. LocalType(c)
  BY TypeOfClient
<1>1. CASE OpenSendFails(c)
  <2>1. /\ life[c] = "ready" /\ cur[c] = NoCall /\ open_seqid[c] + 1 < MaxSeqid
        /\ life'[c] = life[c] /\ conn'[c] = conn[c]
        /\ open_seqid'[c] = open_seqid[c] + 1 /\ cur'[c] = cur[c]
        /\ files'[c] = files[c] /\ closed'[c] = closed[c] /\ chan'[c] = chan[c]
        /\ owner'[c] = owner[c] /\ last'[c] = last[c] /\ cached'[c] = cached[c]
        /\ opens'[c] = opens[c] /\ lastsid'[c] = lastsid[c] /\ lost'[c] = lost[c] + 1
        /\ ReplyKept(c) /\ RecordsKept
    BY <1>1 DEF TypeOK, ReplyKept, RecordsKept, OpenSendFails, Idle
  <2>2. LocalInv(c)'
    BY <1>0, <2>1 DEF LocalInv, LocalType, CallInv, FreshInv, ReplyInv, LostInv,
           GraceInv, StepInv, HeldInv, Opened, Waiting, Pending, Receive, Requested,
           ReplyKept, RecordsKept
  <2>3. TypeOK'
    BY <1>0, <1>1, <2>1 DEF TypeOK, LocalInv, LocalType, CallInv, ReplyInv, LostInv,
           Opened, Pending, OpenSendFails, Idle
  <2>4. ASSUME NEW d \in Clients \ {c} PROVE Same(d)
    BY <1>1 DEF Same, TypeOK, OpenSendFails, Idle
  <2> QED BY <2>2, <2>3, <2>4 DEF Preserved
<1>2. CASE ConfirmSendFails(c)
  <2>1. /\ Opened(c, "open") /\ life'[c] = "ready" /\ conn'[c] = conn[c]
        /\ open_seqid'[c] = open_seqid[c] + 1 /\ files'[c] = files[c]
        /\ closed'[c] = closed[c] /\ owner'[c] = owner[c] /\ last'[c] = last[c]
        /\ cached'[c] = cached[c] /\ opens'[c] = opens[c] /\ lastsid'[c] = lastsid[c]
        /\ lost'[c] = lost[c] + 1 /\ CallEnded(c) /\ RecordsKept
    BY <1>2 DEF TypeOK, Opened, CallEnded, RecordsKept, ConfirmSendFails, Receive,
           UsableOpen, Finish
  <2>2. LocalInv(c)'
    BY <1>0, <2>1 DEF LocalInv, LocalType, CallInv, FreshInv, ReplyInv, LostInv,
           GraceInv, StepInv, HeldInv, Opened, Waiting, Pending, Receive, Requested,
           CallEnded, RecordsKept
  <2>3. TypeOK'
    BY <1>0, <1>2, <2>1 DEF TypeOK, LocalInv, LocalType, CallInv, ReplyInv, LostInv,
           Opened, Pending, ConfirmSendFails, Receive, UsableOpen, Finish
  <2>4. ASSUME NEW d \in Clients \ {c} PROVE Same(d)
    BY <1>2 DEF Same, TypeOK, ConfirmSendFails, Receive, UsableOpen, Finish
  <2> QED BY <2>2, <2>3, <2>4 DEF Preserved
<1>3. CASE ConnectionLost(c)
  <2>1. /\ conn[c] /\ life'[c] = (IF life[c] = "boot" THEN "failed" ELSE life[c])
        /\ conn'[c] = FALSE /\ open_seqid'[c] = open_seqid[c] /\ files'[c] = files[c]
        /\ closed'[c] = closed[c] /\ CallEnded(c) /\ OwnerKept(c) /\ RecordsKept
    BY <1>3 DEF TypeOK, CallEnded, OwnerKept, RecordsKept, ConnectionLost, Finish,
           AfterFailure
  <2>2. LocalInv(c)'
    BY <1>0, <2>1 DEF LocalInv, LocalType, CallInv, FreshInv, ReplyInv, LostInv,
           GraceInv, StepInv, HeldInv, Opened, Waiting, Pending, Receive, Requested,
           CallEnded, OwnerKept, RecordsKept
  <2>3. TypeOK'
    <3>1. late' \in [Clients -> Calls]
      <4> HIDE DEF Calls, NoCall
      <4>1. NoCall \in Calls
        BY DEF Calls, NoCall
      <4> QED BY <1>0, <1>3, <4>1 DEF TypeOK, LocalType, ConnectionLost
    <3> QED BY <1>0, <1>3, <2>1, <3>1 DEF TypeOK, ConnectionLost, Finish, AfterFailure
  <2>4. ASSUME NEW d \in Clients \ {c} PROVE Same(d)
    BY <1>3 DEF Same, TypeOK, ConnectionLost, Finish, AfterFailure
  <2> QED BY <2>2, <2>3, <2>4 DEF Preserved
<1>4. CASE RetrySendFails(c)
  <2>1. /\ chan[c] = "backoff" /\ life'[c] = "ready" /\ conn'[c] = conn[c]
        /\ open_seqid'[c] = open_seqid[c] /\ files'[c] = files[c]
        /\ closed'[c] = closed[c] /\ CallEnded(c) /\ OwnerKept(c) /\ RecordsKept
    BY <1>4 DEF TypeOK, CallEnded, OwnerKept, RecordsKept, RetrySendFails, Finish
  <2>2. LocalInv(c)'
    BY <1>0, <2>1 DEF LocalInv, LocalType, CallInv, FreshInv, ReplyInv, LostInv,
           GraceInv, StepInv, HeldInv, Opened, Waiting, Pending, Receive, Requested,
           CallEnded, OwnerKept, RecordsKept
  <2>3. TypeOK'
    BY <1>0, <1>4, <2>1 DEF TypeOK, RetrySendFails, Finish
  <2>4. ASSUME NEW d \in Clients \ {c} PROVE Same(d)
    BY <1>4 DEF Same, TypeOK, RetrySendFails, Finish
  <2> QED BY <2>2, <2>3, <2>4 DEF Preserved
<1> QED BY <1>1, <1>2, <1>3, <1>4

\* The server refuses an operation of the owner.
LEMMA RefusalKeeps ==
    ASSUME TypeOK, NEW c \in Clients, LocalInv(c), chan[c] = "request",
           NEW st \in Statuses \ {"ok", "grace", "replay"}, SrvRefuses(c, st)
    PROVE  Preserved(c)
<1>0. LocalType(c)
  BY TypeOfClient
<1>1. /\ cur'[c] = cur[c] /\ chan'[c] = "reply" /\ status'[c] = st
        /\ rsid'[c] = rsid[c] /\ rconfirm'[c] = rconfirm[c] /\ owner'[c] = owner[c]
        /\ last'[c] = last[c] /\ cached'[c] = cached[c] /\ opens'[c] = opens[c]
        /\ lastsid'[c] = lastsid[c]
        /\ lost'[c] = (IF cur[c].op \in OwnerOps THEN lost[c] + 1 ELSE lost[c])
        /\ ObjectKept(c) /\ RecordsKept
  BY DEF TypeOK, ObjectKept, RecordsKept, SrvRefuses, Reply
<1>2. LocalInv(c)'
  BY <1>0, <1>1 DEF LocalInv, LocalType, CallInv, FreshInv, ReplyInv, LostInv,
         GraceInv, StepInv, HeldInv, Opened, Waiting, Pending, Receive, Requested,
         ObjectKept, RecordsKept
<1>3. TypeOK'
  BY <1>0, <1>1 DEF TypeOK, LocalInv, LocalType, CallInv, ReplyInv, LostInv,
         Opened, Pending, SrvRefuses, Reply
<1>4. ASSUME NEW d \in Clients \ {c} PROVE Same(d)
  BY DEF Same, TypeOK, SrvRefuses, Reply
<1> QED BY <1>2, <1>3, <1>4 DEF Preserved
\* The answers of the server that concern neither owners nor records, and SETCLIENTID.
LEMMA AnswerKeeps ==
    ASSUME TypeOK, NEW c \in Clients, LocalInv(c), SrvSetclientid(c) \/ SrvOther(c)
    PROVE  Preserved(c)
<1>0. LocalType(c)
  BY TypeOfClient
<1>1. /\ chan[c] = "request" /\ cur[c].op \in {"setclientid", "root", "io", "other"}
      /\ status' \in [Clients -> Statuses] /\ status'[c] \in {"ok", "err", "bad_stateid"}
      /\ cur' = cur /\ chan' = [chan EXCEPT ![c] = "reply"]
      /\ rsid' = rsid /\ rconfirm' = rconfirm /\ conf' = conf /\ grace' = grace
      /\ unconf' = unconf \/ (cur[c].op = "setclientid" /\ unconf' = c)
      /\ UNCHANGED <<life, conn, open_seqid, files, closed, owner, last, cached, opens,
                     lastsid, late, lost, restarts>>
      /\ \A d \in Clients \ {c} : status'[d] = status[d]
  <2>1. CASE SrvSetclientid(c)
    BY <2>1 DEF SrvSetclientid, Requested, Reply, TypeOK
  <2>2. CASE SrvOther(c) /\ Reply(c, "bad_stateid")
    BY <2>2 DEF SrvOther, Reply, TypeOK
  <2>3. CASE SrvOther(c) /\ \E st \in {"ok", "err"} : Reply(c, st)
    BY <2>3 DEF SrvOther, Reply, TypeOK
  <2> QED BY <2>1, <2>2, <2>3 DEF SrvOther
<1>2. LocalInv(c)'
  BY <1>0, <1>1 DEF LocalInv, LocalType, CallInv, FreshInv, ReplyInv, LostInv, GraceInv,
         StepInv, HeldInv, Opened, Waiting, Pending, Receive, Requested, TypeOK
<1>3. TypeOK'
  BY <1>1 DEF TypeOK
<1>4. ASSUME NEW d \in Clients \ {c} PROVE Same(d)
  BY <1>1 DEF Same, TypeOK
<1> QED BY <1>2, <1>3, <1>4 DEF Preserved

\* An operation that is out of sequence is refused; the cached answer goes only to a
\* CLOSE, because an OPEN or OPEN_CONFIRM is ahead of the owner.
LEMMA OutOfSequenceKeeps ==
    ASSUME TypeOK, NEW c \in Clients, LocalInv(c), chan[c] = "request", conf = c,
           owner[c] = "confirmed", cur[c].op \in OwnerOps \cup {"close"}, OutOfSequence(c)
    PROVE  Preserved(c)
<1>0. LocalType(c)
  BY TypeOfClient
<1>1. CASE SrvRefuses(c, "bad_seqid")
  BY <1>1, RefusalKeeps
<1>2. CASE cur[c].seq = last[c] /\ cur[c].op \in OwnerOps
  BY <1>0, <1>2 DEF LocalInv, CallInv, StepInv, LocalType, Pending
<1>3. CASE /\ cur[c].op = "close"
           /\ Reply(c, cached[c])
           /\ UNCHANGED <<clientVars, rsid, rconfirm, recordVars, ownerVars, grace, restarts>>
  <2>1. LocalInv(c)'
    BY <1>0, <1>3 DEF LocalInv, LocalType, CallInv, FreshInv, ReplyInv, LostInv, GraceInv,
           StepInv, HeldInv, Opened, Waiting, Pending, Receive, Requested, Reply, TypeOK
  <2>2. TypeOK'
    BY <1>0, <1>3 DEF LocalType, TypeOK, Reply
  <2>3. ASSUME NEW d \in Clients \ {c} PROVE Same(d)
    BY <1>3 DEF Same, TypeOK, Reply
  <2> QED BY <2>1, <2>2, <2>3 DEF Preserved
<1> QED BY <1>1, <1>2, <1>3 DEF OutOfSequence

\* OPEN.
LEMMA SrvOpenKeeps ==
    ASSUME TypeOK, NEW c \in Clients, LocalInv(c), SrvOpen(c)
    PROVE  Preserved(c)
<1>0. LocalType(c)
  BY TypeOfClient
<1>1. /\ Requested(c, "open") /\ conf = c
      /\ owner[c] = "confirmed" => cur[c].seq = last[c] + 1
      /\ chan'[c] = "reply" /\ cur'[c] = cur[c] /\ ObjectKept(c) /\ RecordsKept
      /\ last'[c] = cur[c].seq /\ lost'[c] = 0 /\ cached'[c] = status'[c]
  BY DEF SrvOpen, TakesOpen, SrvExecutes, Counts, Reply, TypeOK, ObjectKept, RecordsKept
<1>2. cur[c].file \in Files
  BY <1>1 DEF LocalInv, CallInv, Requested
<1>3. ASSUME NEW st \in {"ok", "unusable"}, NEW must \in BOOLEAN,
             OpenFile(c, cur[c].file, must), rsid' = [rsid EXCEPT ![c] = lastsid[c] + 1],
             rconfirm' = [rconfirm EXCEPT ![c] = must], SrvExecutes(c, st)
      PROVE  Preserved(c)
  <2>1. /\ lastsid'[c] = lastsid[c] + 1 /\ rsid'[c] = lastsid[c] + 1
        /\ opens'[c] = [OpensBefore(c) EXCEPT ![cur[c].file] = lastsid[c] + 1]
        /\ status'[c] = st /\ rconfirm'[c] = must
        /\ owner'[c] = (IF must THEN "unconfirmed" ELSE "confirmed")
        /\ ~grace /\ lastsid[c] + 1 < MaxSeqid /\ (must => owner[c] # "confirmed")
    BY <1>3 DEF OpenFile, SrvExecutes, Counts, Reply, TypeOK
  <2>2. LocalInv(c)'
    BY <1>0, <1>1, <1>2, <2>1 DEF LocalInv, LocalType, CallInv, FreshInv, ReplyInv, LostInv,
           GraceInv, StepInv, HeldInv, Opened, Waiting, Pending, Receive, Requested,
           ObjectKept, RecordsKept, OpensBefore
  <2>3. TypeOK'
    BY <1>0, <1>2, <1>3 DEF TypeOK, LocalType, OpenFile, OpensBefore, SrvExecutes, Counts, Reply
  <2>4. ASSUME NEW d \in Clients \ {c} PROVE Same(d)
    BY <1>3 DEF Same, TypeOK, OpenFile, SrvExecutes, Counts, Reply
  <2> QED BY <2>2, <2>3, <2>4 DEF Preserved
<1>4. CASE /\ OpenFails(c)
           /\ SrvExecutes(c, IF grace THEN "grace" ELSE "err")
           /\ UNCHANGED <<rsid, rconfirm>>
  <2>1. /\ owner'[c] = IF owner[c] = "none" THEN "unconfirmed" ELSE owner[c]
        /\ opens'[c] = OpensBefore(c) /\ status'[c] = (IF grace THEN "grace" ELSE "err")
        /\ rsid'[c] = rsid[c] /\ rconfirm'[c] = rconfirm[c] /\ lastsid'[c] = lastsid[c]
    BY <1>4 DEF OpenFails, SrvExecutes, Counts, Reply, TypeOK
  <2>2. LocalInv(c)'
    BY <1>0, <1>1, <2>1 DEF LocalInv, LocalType, CallInv, FreshInv, ReplyInv, LostInv,
           GraceInv, StepInv, HeldInv, Opened, Waiting, Pending, Receive, Requested,
           ObjectKept, RecordsKept, OpensBefore
  <2>3. TypeOK'
    BY <1>0, <1>4 DEF TypeOK, LocalType, OpenFails, OpensBefore, SrvExecutes, Counts, Reply
  <2>4. ASSUME NEW d \in Clients \ {c} PROVE Same(d)
    BY <1>4 DEF Same, TypeOK, OpenFails, SrvExecutes, Counts, Reply
  <2> QED BY <2>2, <2>3, <2>4 DEF Preserved
<1> QED BY <1>3, <1>4 DEF SrvOpen

\* OPEN_CONFIRM.
LEMMA SrvOpenConfirmKeeps ==
    ASSUME TypeOK, NEW c \in Clients, LocalInv(c), SrvOpenConfirm(c)
    PROVE  Preserved(c)
<1>0. LocalType(c)
  BY TypeOfClient
<1>1. /\ Requested(c, "open_confirm") /\ conf = c /\ owner[c] = "unconfirmed"
      /\ cur[c].file \in Files
  BY DEF SrvOpenConfirm, LocalInv, CallInv, Requested
<1>2. CASE SrvRefuses(c, "bad_seqid")
  BY <1>1, <1>2, RefusalKeeps DEF Requested
<1>3. CASE /\ ConfirmOwner(c, cur[c].file)
           /\ rsid' = [rsid EXCEPT ![c] = lastsid[c] + 1]
           /\ SrvExecutes(c, "ok")
           /\ UNCHANGED rconfirm
  <2>1. /\ owner'[c] = "confirmed" /\ lastsid'[c] = lastsid[c] + 1
        /\ opens'[c] = [opens[c] EXCEPT ![cur[c].file] = lastsid[c] + 1]
        /\ rsid'[c] = lastsid[c] + 1 /\ status'[c] = "ok" /\ cached'[c] = "ok"
        /\ last'[c] = cur[c].seq /\ lost'[c] = 0 /\ chan'[c] = "reply" /\ cur'[c] = cur[c]
        /\ rconfirm'[c] = rconfirm[c] /\ ObjectKept(c) /\ RecordsKept
    BY <1>3 DEF ConfirmOwner, SrvExecutes, Counts, Reply, TypeOK, ObjectKept, RecordsKept
  <2>2. LocalInv(c)'
    BY <1>0, <1>1, <2>1 DEF LocalInv, LocalType, CallInv, FreshInv, ReplyInv, LostInv,
           GraceInv, StepInv, HeldInv, Opened, Waiting, Pending, Receive, Requested,
           ObjectKept, RecordsKept
  <2>3. lastsid[c] < MaxSeqid
    BY <1>1 DEF LocalInv, ReplyInv
  <2>4. TypeOK'
    BY <1>0, <1>1, <1>3, <2>3 DEF TypeOK, LocalType, ConfirmOwner, SrvExecutes, Counts, Reply
  <2>5. ASSUME NEW d \in Clients \ {c} PROVE Same(d)
    BY <1>3 DEF Same, TypeOK, ConfirmOwner, SrvExecutes, Counts, Reply
  <2> QED BY <2>2, <2>4, <2>5 DEF Preserved
<1> QED BY <1>2, <1>3 DEF SrvOpenConfirm

\* The seqid of a CLOSE is not the one the owner expects: it was used, and executed,
\* by the OPEN or OPEN_CONFIRM that opened the file.
LEMMA CloseBehind ==
    ASSUME TypeOK, NEW c \in Clients, LocalInv(c), Requested(c, "close"), conf = c
    PROVE  owner[c] = "confirmed" /\ cur[c].seq <= last[c]
<1>1. LocalType(c)
  BY TypeOfClient
<1> QED BY <1>1 DEF LocalInv, LocalType, CallInv, HeldInv, Requested

\* CLOSE.
LEMMA SrvCloseKeeps ==
    ASSUME TypeOK, NEW c \in Clients, LocalInv(c), SrvClose(c)
    PROVE  Preserved(c)
<1>1. Requested(c, "close") /\ conf = c
  BY DEF SrvClose
<1>2. owner[c] = "confirmed" /\ cur[c].seq # last[c] + 1
  BY <1>1, CloseBehind, TypeOfClient DEF LocalType
<1> QED BY <1>1, <1>2, OutOfSequenceKeeps DEF SrvClose, Requested

\* SETCLIENTID_CONFIRM: the client is registered without an owner, and all others
\* lose theirs.
LEMMA SrvSetclientidConfirmKeeps ==
    ASSUME OwnerInv, NEW c \in Clients, SrvSetclientidConfirm(c)
    PROVE  OwnerInv'
<1>1. CASE unconf # c
  <2>1. /\ Requested(c, "setclientid_confirm") /\ Reply(c, "stale_clientid")
        /\ UNCHANGED <<clientVars, rsid, rconfirm, recordVars, ownerVars, grace, restarts>>
    BY <1>1 DEF SrvSetclientidConfirm
  <2>2. LocalType(c) /\ LocalInv(c)
    BY TypeOfClient DEF OwnerInv
  <2>3. LocalInv(c)'
    BY <2>1, <2>2 DEF LocalInv, LocalType, CallInv, FreshInv, ReplyInv, LostInv, GraceInv,
           StepInv, HeldInv, Opened, Waiting, Pending, Receive, Requested, Reply, TypeOK,
           OwnerInv
  <2>4. TypeOK'
    BY <2>1 DEF OwnerInv, TypeOK, Reply
  <2>5. ASSUME NEW d \in Clients \ {c} PROVE Same(d)
    BY <2>1 DEF Same, OwnerInv, TypeOK, Reply
  <2> QED BY <2>3, <2>4, <2>5, PreservedSuffices DEF Preserved
<1>2. CASE unconf = c
  <2>1. /\ Requested(c, "setclientid_confirm") /\ Reply(c, "ok") /\ Forget(Clients)
        /\ unconf' = None /\ conf' = c
        /\ UNCHANGED <<clientVars, rsid, rconfirm, lastsid, late, lost, grace, restarts>>
    BY <1>2 DEF SrvSetclientidConfirm, Register
  <2>2. TypeOK'
    BY <2>1 DEF OwnerInv, TypeOK, Reply, Forget
  <2>3. ASSUME NEW d \in Clients PROVE LocalInv(d)'
    <3>1. LocalType(d) /\ LocalInv(d)
      BY TypeOfClient DEF OwnerInv
    <3>2. Forgotten(d) /\ ObjectKept(d) /\ rsid'[d] = rsid[d] /\ rconfirm'[d] = rconfirm[d]
          /\ cur'[d] = cur[d]
      BY <2>1 DEF Forgotten, Forget, ObjectKept
    <3>3. CASE d = c
      <4>1. chan'[c] = "reply" /\ status'[c] = "ok" /\ Requested(c, "setclientid_confirm")
        BY <2>1 DEF Reply, OwnerInv, TypeOK
      <4> QED BY <2>1, <3>1, <3>2, <3>3, <4>1 DEF LocalInv, LocalType, CallInv, FreshInv,
                ReplyInv, LostInv, GraceInv, StepInv, HeldInv, Opened, Waiting, Pending,
                Receive, Requested, ObjectKept, Forgotten
    <3>4. CASE d # c
      <4>1. chan'[d] = chan[d] /\ status'[d] = status[d] /\ conf' # d /\ unconf' # d
        BY <2>1, <3>4 DEF Reply, OwnerInv, TypeOK
      <4> QED BY <2>1, <3>1, <3>2, <4>1, ForgottenKept DEF ReplyKept
    <3> QED BY <3>3, <3>4
  <2> QED BY <2>2, <2>3 DEF OwnerInv
<1> QED BY <1>1, <1>2

\* What the server does with a request.
LEMMA ServerStepKeeps ==
    ASSUME OwnerInv, NEW c \in Clients, ServerStep(c)
    PROVE  OwnerInv'
<1>0. TypeOK /\ LocalInv(c)
  BY DEF OwnerInv
<1>1. CASE SrvSetclientid(c) \/ SrvOther(c)
  BY <1>0, <1>1, AnswerKeeps, PreservedSuffices
<1>2. CASE SrvSetclientidConfirm(c)
  BY <1>2, SrvSetclientidConfirmKeeps
<1>3. CASE SrvOutOfSequence(c)
  BY <1>0, <1>3, OutOfSequenceKeeps, PreservedSuffices DEF SrvOutOfSequence
<1>4. CASE SrvStops(c)
  BY <1>0, <1>4, RefusalKeeps, PreservedSuffices DEF SrvStops
<1>5. CASE SrvOpen(c)
  BY <1>0, <1>5, SrvOpenKeeps, PreservedSuffices
<1>6. CASE SrvOpenConfirm(c)
  BY <1>0, <1>6, SrvOpenConfirmKeeps, PreservedSuffices
<1>7. CASE SrvClose(c)
  BY <1>0, <1>7, SrvCloseKeeps, PreservedSuffices
<1> QED BY <1>1, <1>2, <1>3, <1>4, <1>5, <1>6, <1>7 DEF ServerStep

\* The lease of a client runs out.
LEMMA LeaseExpiresKeeps ==
    ASSUME OwnerInv, LeaseExpires
    PROVE  OwnerInv'
<1>1. TypeOK'
  BY DEF OwnerInv, TypeOK, LeaseExpires, Forget
<1>2. ASSUME NEW d \in Clients PROVE LocalInv(d)'
  <2>1. LocalType(d) /\ LocalInv(d)
    BY TypeOfClient DEF OwnerInv
  <2>2. CASE d = conf
    <3>1. /\ Forgotten(d) /\ ObjectKept(d) /\ ReplyKept(d) /\ cur'[d] = cur[d]
          /\ chan'[d] = chan[d] /\ grace' = grace /\ conf' # d /\ unconf' = unconf
      BY <2>2 DEF LeaseExpires, Forgotten, Forget, ObjectKept, ReplyKept
    <3> QED BY <2>1, <3>1, ForgottenKept
  <2>3. CASE d # conf
    <3>1. Same(d)
      BY <2>3 DEF LeaseExpires, Forget, Same
    <3> QED BY <2>1, <3>1, OthersKept
  <2> QED BY <2>2, <2>3
<1> QED BY <1>1, <1>2 DEF OwnerInv

\* The server restarts.
LEMMA ServerRestartKeeps ==
    ASSUME OwnerInv, ServerRestart
    PROVE  OwnerInv'
<1>1. TypeOK'
  BY DEF OwnerInv, TypeOK, ServerRestart, Forget, AfterFailure
<1>2. ASSUME NEW d \in Clients PROVE LocalInv(d)'
  <2>1. LocalType(d) /\ LocalInv(d)
    BY TypeOfClient DEF OwnerInv
  <2>2. /\ Forgotten(d) /\ CallEnded(d) /\ conn'[d] = FALSE /\ conf' = None /\ unconf' = None
        /\ life'[d] = IF conn[d] /\ life[d] = "boot" THEN "failed" ELSE life[d]
        /\ open_seqid'[d] = open_seqid[d] /\ files'[d] = files[d] /\ closed'[d] = closed[d]
    BY DEF ServerRestart, Forgotten, Forget, CallEnded, AfterFailure
  <2> QED BY <2>1, <2>2 DEF LocalInv, LocalType, CallInv, FreshInv, ReplyInv, LostInv,
             GraceInv, StepInv, HeldInv, Opened, Waiting, Pending, Receive, Requested,
             Forgotten, CallEnded
<1> QED BY <1>1, <1>2 DEF OwnerInv

\* The grace period ends.
LEMMA GraceEndsKeeps ==
    ASSUME OwnerInv, GraceEnds
    PROVE  OwnerInv'
<1>1. TypeOK'
  BY DEF OwnerInv, TypeOK, GraceEnds
<1>2. ASSUME NEW d \in Clients PROVE LocalInv(d)'
  BY <1>2 DEF OwnerInv, GraceEnds, LocalInv, CallInv, FreshInv, ReplyInv, LostInv,
         GraceInv, StepInv, HeldInv, Opened, Waiting, Pending, Receive, Requested
<1> QED BY <1>1, <1>2 DEF OwnerInv

-----------------------------------------------------------------------------
(* Requests whose connection broke.                                        *)

\* The object of such a request and its owner are left alone.
LateSame(d) ==
    /\ ~conn'[d] /\ life'[d] # "new" /\ (life[d] = "failed" => life'[d] = "failed")
    /\ lastsid'[d] = lastsid[d]
    /\ conf' = d => /\ conf = d
                    /\ owner'[d] = owner[d] /\ last'[d] = last[d] /\ lost'[d] = lost[d]

\* LateInv holds on as long as this is so.
LEMMA LateKept ==
    ASSUME LateInv, late' = late, grace' => grace,
           \A d \in Clients : ~conn[d] /\ life[d] # "new" => LateSame(d)
    PROVE  LateInv'
BY DEF LateInv, LateSame

\* LateInv is inductive on top of OwnerInv.
LEMMA LateStep ==
    ASSUME OwnerInv, LateInv, Next
    PROVE  LateInv'
<1>1. ASSUME NEW c \in Clients, UserStep(c) PROVE LateInv'
  <2>1. late' = late /\ grace' = grace
    BY <1>1 DEF UserStep, Construct, ConstructFails, Destroy, Other, Open, Close, Io
  <2>2. ASSUME NEW d \in Clients, ~conn[d], life[d] # "new" PROVE LateSame(d)
    BY <1>1, <2>2 DEF UserStep, Construct, ConstructFails, Destroy, Other, Open, Close, Io,
         Send, Finish, Idle, OwnerInv, TypeOK, LateSame
  <2> QED BY <2>1, <2>2, LateKept
<1>2. ASSUME NEW c \in Clients, ClientStep(c) PROVE LateInv'
  <2>1. late' = late /\ grace' = grace
    BY <1>2 DEF ClientStep, BootFails, RecvSetclientid, RecvSetclientidConfirm, RecvRoot,
         RecvOpen, OpenConfirm, RecvOpenConfirm, OpenBackoff, OpenRetry, RecvClose, RecvOther
  <2>2. chan[c] # "idle" /\ conn[c]
    BY <1>2 DEF ClientStep, BootFails, RecvSetclientid, RecvSetclientidConfirm, RecvRoot,
         RecvOpen, OpenConfirm, RecvOpenConfirm, OpenBackoff, OpenRetry, RecvClose, RecvOther,
         Receive, OwnerInv, LocalInv, CallInv
  <2>3. ASSUME NEW d \in Clients, ~conn[d], life[d] # "new" PROVE LateSame(d)
    BY <1>2, <2>2, <2>3 DEF ClientStep, BootFails, RecvSetclientid, RecvSetclientidConfirm,
         RecvRoot, RecvOpen, OpenConfirm, RecvOpenConfirm, OpenBackoff, OpenRetry, RecvClose,
         RecvOther, Send, Finish, OwnerInv, TypeOK, LateSame
  <2> QED BY <2>1, <2>3, LateKept
<1>3. ASSUME NEW c \in Clients, ServerStep(c) PROVE LateInv'
  <2>1. late' = late /\ grace' = grace /\ conn' = conn /\ life' = life
    BY <1>3 DEF ServerStep, SrvSetclientid, SrvSetclientidConfirm, SrvOutOfSequence,
         OutOfSequence, SrvStops, SrvOpen, SrvOpenConfirm, SrvClose, SrvOther, SrvRefuses,
         SrvExecutes
  <2>2. chan[c] = "request" /\ conn[c]
    BY <1>3 DEF ServerStep, SrvSetclientid, SrvSetclientidConfirm, SrvOutOfSequence,
         SrvStops, SrvOpen, SrvOpenConfirm, SrvClose, SrvOther, Requested,
         OwnerInv, LocalInv, CallInv
  <2>3. ASSUME NEW d \in Clients, ~conn[d], life[d] # "new" PROVE LateSame(d)
    <3>0. d # c
      BY <2>2, <2>3
    <3>1. CASE SrvSetclientidConfirm(c)
      BY <2>1, <2>3, <3>0, <3>1 DEF SrvSetclientidConfirm, Register, Forget, LateSame
    <3>2. CASE SrvOpen(c)
      BY <2>1, <2>3, <3>0, <3>2 DEF SrvOpen, OpenFile, OpenFails, SrvExecutes, Counts,
           OwnerInv, TypeOK, LateSame
    <3>3. CASE SrvOpenConfirm(c)
      BY <2>1, <2>3, <3>0, <3>3 DEF SrvOpenConfirm, ConfirmOwner, SrvExecutes, Counts,
           SrvRefuses, OwnerInv, TypeOK, LateSame
    <3>4. CASE SrvClose(c)
      BY <2>1, <2>3, <3>0, <3>4 DEF SrvClose, CloseFile, SrvExecutes, Counts, SrvRefuses,
           OutOfSequence, OwnerInv, TypeOK, LateSame
    <3>5. CASE \/ SrvSetclientid(c) \/ SrvOutOfSequence(c) \/ SrvStops(c) \/ SrvOther(c)
      BY <2>1, <2>3, <3>0, <3>5 DEF SrvSetclientid, SrvOutOfSequence, OutOfSequence, SrvStops,
           SrvOther, SrvRefuses, OwnerInv, TypeOK, LateSame
    <3> QED BY <1>3, <3>1, <3>2, <3>3, <3>4, <3>5 DEF ServerStep
  <2> QED BY <2>1, <2>3, LateKept
<1>4. ASSUME NEW c \in Clients, OpenSendFails(c) \/ ConfirmSendFails(c) \/ RetrySendFails(c)
      PROVE  LateInv'
  <2>1. conn[c]
    BY <1>4 DEF OpenSendFails, ConfirmSendFails, RetrySendFails, Receive, OwnerInv, LocalInv,
         CallInv
  <2>2. ASSUME NEW d \in Clients, ~conn[d], life[d] # "new" PROVE LateSame(d)
    BY <1>4, <2>1, <2>2 DEF OpenSendFails, ConfirmSendFails, RetrySendFails, Finish, OwnerInv,
         TypeOK, LateSame
  <2> QED BY <1>4, <2>2, LateKept DEF OpenSendFails, ConfirmSendFails, RetrySendFails
<1>5. ASSUME NEW c \in Clients, ConnectionLost(c) PROVE LateInv'
  <2>0. TypeOK /\ LocalInv(c) /\ LocalType(c)
    BY TypeOfClient DEF OwnerInv
  <2>1. /\ conn[c] /\ ~conn'[c] /\ life'[c] = (IF life[c] = "boot" THEN "failed" ELSE life[c])
        /\ late'[c] = (IF chan[c] = "request" THEN cur[c] ELSE NoCall)
        /\ UNCHANGED <<conf, owner, last, lost, lastsid, grace>>
    BY <1>5, <2>0 DEF ConnectionLost, Finish, AfterFailure, TypeOK
  <2>2. ASSUME NEW d \in Clients \ {c}
        PROVE  /\ late'[d] = late[d] /\ conn'[d] = conn[d] /\ life'[d] = life[d]
    BY <1>5, <2>0 DEF ConnectionLost, Finish, TypeOK
  <2>3. ASSUME chan[c] = "request"
        PROVE  /\ life[c] # "new" /\ (cur[c].op \in BootOps => life[c] = "boot")
               /\ cur[c].op \in FileOps => cur[c].file \in Files
               /\ cur[c].op = "open_confirm" => lastsid[c] < MaxSeqid /\ ~grace
               /\ cur[c].op \in OwnerOps /\ conf = c /\ owner[c] = "confirmed" =>
                      cur[c].seq = last[c] + lost[c] + 1
    BY <2>0, <2>1, <2>3 DEF LocalInv, CallInv, FreshInv, ReplyInv, GraceInv, StepInv, Pending,
         Requested
  <2>4. ASSUME chan[c] = "request", cur[c].op = "close", conf = c
        PROVE  owner[c] = "confirmed" /\ cur[c].seq <= last[c]
    BY <2>0, <2>4, CloseBehind DEF Requested
  <2> QED BY <2>1, <2>2, <2>3, <2>4 DEF LateInv
<1>6. ASSUME NEW c \in Clients, SrvLate(c) PROVE LateInv'
  <2>1. late'[c] = NoCall /\ UNCHANGED <<life, conn, grace>>
    BY <1>6 DEF SrvLate, OwnerInv, TypeOK
  <2>2. ASSUME NEW d \in Clients \ {c}
        PROVE  /\ late'[d] = late[d] /\ lastsid'[d] = lastsid[d]
               /\ conf' = d => /\ conf = d
                               /\ owner'[d] = owner[d] /\ last'[d] = last[d]
                               /\ lost'[d] = lost[d]
    BY <1>6, <2>2 DEF SrvLate, Register, OpenFile, OpenFails, ConfirmOwner, CloseFile, Counts,
         OwnerInv, TypeOK
  <2> QED BY <2>1, <2>2 DEF LateInv
<1>7. CASE LeaseExpires
  BY <1>7, LateKept DEF LeaseExpires, LateSame
<1>8. CASE ServerRestart
  BY <1>8 DEF ServerRestart, LateInv
<1>9. CASE GraceEnds
  BY <1>9, LateKept DEF GraceEnds, LateSame
<1> QED BY <1>1, <1>2, <1>3, <1>4, <1>5, <1>6, <1>7, <1>8, <1>9 DEF Next, Failure

\* What a late OPEN, OPEN_CONFIRM or CLOSE does to the owner leaves the invariant.
LEMMA LateOwnerKeeps ==
    ASSUME OwnerInv, LateInv, NEW c \in Clients, SrvLate(c),
           late[c].op \in OwnerOps \cup {"setclientid", "close"}
    PROVE  Preserved(c)
<1>0. TypeOK /\ LocalType(c) /\ LocalInv(c)
  BY TypeOfClient DEF OwnerInv
<1>1. /\ ~conn[c] /\ life[c] # "new" /\ (late[c].op # "setclientid" => late[c].file \in Files)
      /\ late[c].op = "open_confirm" => lastsid[c] < MaxSeqid /\ ~grace
  BY DEF LateInv
<1>2. late' \in [Clients -> Calls]
  <2> HIDE DEF Calls, NoCall
  <2>1. NoCall \in Calls
    BY DEF Calls, NoCall
  <2> QED BY <1>0, <2>1 DEF TypeOK, SrvLate
<1>3. /\ ObjectKept(c) /\ ReplyKept(c) /\ cur'[c] = cur[c] /\ chan'[c] = chan[c]
      /\ conf' = conf /\ grace' = grace /\ chan[c] = "idle"
      /\ UNCHANGED <<clientVars, chanVars, grace, restarts>>
  BY <1>0, <1>1 DEF SrvLate, ObjectKept, ReplyKept, LocalInv, CallInv
<1>4. CASE late[c].op = "setclientid"
  <2>1. unconf' = c /\ OwnerKept(c) /\ UNCHANGED ownerVars
    BY <1>4 DEF SrvLate, OwnerKept
  <2>2. LocalInv(c)'
    BY <1>0, <1>1, <1>3, <2>1 DEF LocalInv, LocalType, CallInv, FreshInv, ReplyInv, LostInv,
           GraceInv, StepInv, HeldInv, Opened, Waiting, Pending, Receive, Requested,
           ObjectKept, ReplyKept, OwnerKept
  <2>3. TypeOK'
    BY <1>0, <1>2, <1>3, <2>1 DEF TypeOK
  <2>4. ASSUME NEW d \in Clients \ {c} PROVE Same(d)
    BY <1>3, <2>1 DEF Same
  <2> QED BY <2>2, <2>3, <2>4 DEF Preserved
<1>5. ASSUME NEW must \in BOOLEAN, OpenFile(c, late[c].file, must),
             Counts(c, late[c].seq, "ok"), unconf' = unconf, late[c].op = "open"
      PROVE  Preserved(c)
  <2>1. /\ lastsid'[c] = lastsid[c] + 1 /\ ~grace /\ lastsid[c] + 1 < MaxSeqid
        /\ opens'[c] = [OpensBefore(c) EXCEPT ![late[c].file] = lastsid[c] + 1]
        /\ owner'[c] = (IF must THEN "unconfirmed" ELSE "confirmed")
        /\ last'[c] = late[c].seq /\ cached'[c] = "ok" /\ lost'[c] = 0
    BY <1>0, <1>5 DEF OpenFile, Counts, TypeOK
  <2>2. LocalInv(c)'
    BY <1>0, <1>1, <1>3, <1>5, <2>1 DEF LocalInv, LocalType, CallInv, FreshInv, ReplyInv,
           LostInv, GraceInv, StepInv, HeldInv, Opened, Waiting, Pending, Receive, Requested,
           ObjectKept, ReplyKept, OpensBefore
  <2>3. TypeOK'
    BY <1>0, <1>1, <1>2, <1>3, <1>5 DEF TypeOK, LocalType, OpenFile, OpensBefore, Counts
  <2>4. ASSUME NEW d \in Clients \ {c} PROVE Same(d)
    BY <1>0, <1>3, <1>5 DEF Same, TypeOK, OpenFile, Counts
  <2> QED BY <2>2, <2>3, <2>4 DEF Preserved
<1>6. CASE /\ OpenFails(c) /\ unconf' = unconf
           /\ Counts(c, late[c].seq, IF grace THEN "grace" ELSE "err")
  <2>1. /\ owner'[c] = (IF owner[c] = "none" THEN "unconfirmed" ELSE owner[c])
        /\ opens'[c] = OpensBefore(c) /\ lastsid'[c] = lastsid[c] /\ last'[c] = late[c].seq
        /\ cached'[c] = (IF grace THEN "grace" ELSE "err") /\ lost'[c] = 0
    BY <1>0, <1>6 DEF OpenFails, Counts, TypeOK
  <2>2. LocalInv(c)'
    BY <1>0, <1>1, <1>3, <1>6, <2>1 DEF LocalInv, LocalType, CallInv, FreshInv, ReplyInv,
           LostInv, GraceInv, StepInv, HeldInv, Opened, Waiting, Pending, Receive, Requested,
           ObjectKept, ReplyKept, OpensBefore
  <2>3. TypeOK'
    BY <1>0, <1>2, <1>3, <1>6 DEF TypeOK, LocalType, OpenFails, OpensBefore, Counts
  <2>4. ASSUME NEW d \in Clients \ {c} PROVE Same(d)
    BY <1>0, <1>3, <1>6 DEF Same, TypeOK, OpenFails, Counts
  <2> QED BY <2>2, <2>3, <2>4 DEF Preserved
<1>7. CASE /\ late[c].op = "open_confirm" /\ ConfirmOwner(c, late[c].file)
           /\ Counts(c, late[c].seq, "ok") /\ unconf' = unconf
  <2>1. /\ owner'[c] = "confirmed" /\ lastsid'[c] = lastsid[c] + 1
        /\ opens'[c] = [opens[c] EXCEPT ![late[c].file] = lastsid[c] + 1]
        /\ last'[c] = late[c].seq /\ cached'[c] = "ok" /\ lost'[c] = 0
    BY <1>0, <1>7 DEF ConfirmOwner, Counts, TypeOK
  <2>2. LocalInv(c)'
    BY <1>0, <1>1, <1>3, <1>7, <2>1 DEF LocalInv, LocalType, CallInv, FreshInv, ReplyInv,
           LostInv, GraceInv, StepInv, HeldInv, Opened, Waiting, Pending, Receive, Requested,
           ObjectKept, ReplyKept
  <2>3. TypeOK'
    BY <1>0, <1>1, <1>2, <1>3, <1>7 DEF TypeOK, LocalType, ConfirmOwner, Counts
  <2>4. ASSUME NEW d \in Clients \ {c} PROVE Same(d)
    BY <1>0, <1>3, <1>7 DEF Same, TypeOK, ConfirmOwner, Counts
  <2> QED BY <2>2, <2>3, <2>4 DEF Preserved
<1>8. CASE late[c].op = "close"
  <2>1. ~TakesClose(c, late[c])
    BY <1>0, <1>8 DEF TakesClose, LateInv, LocalType
  <2>2. UNCHANGED ownerVars /\ unconf' = unconf /\ OwnerKept(c)
    BY <1>8, <2>1 DEF SrvLate, OwnerKept
  <2>3. LocalInv(c)'
    BY <1>0, <1>1, <1>3, <2>2 DEF LocalInv, LocalType, CallInv, FreshInv, ReplyInv, LostInv,
           GraceInv, StepInv, HeldInv, Opened, Waiting, Pending, Receive, Requested,
           ObjectKept, ReplyKept, OwnerKept
  <2>4. TypeOK'
    BY <1>0, <1>2, <1>3, <2>2 DEF TypeOK
  <2>5. ASSUME NEW d \in Clients \ {c} PROVE Same(d)
    BY <1>3, <2>2 DEF Same
  <2> QED BY <2>3, <2>4, <2>5 DEF Preserved
<1> QED BY <1>4, <1>5, <1>6, <1>7, <1>8 DEF SrvLate

\* A late SETCLIENTID_CONFIRM registers an object that the application never got; all
\* others lose their owners.
LEMMA LateRegisterKeeps ==
    ASSUME OwnerInv, LateInv, NEW c \in Clients, SrvLate(c),
           late[c].op = "setclientid_confirm"
    PROVE  OwnerInv'
<1>1. /\ unconf' = None /\ conf' = c /\ Forget(Clients) /\ ~conn[c]
      /\ life[c] = "failed" /\ late' = [late EXCEPT ![c] = NoCall]
      /\ UNCHANGED <<clientVars, chanVars, lastsid, lost, grace, restarts>>
  BY DEF SrvLate, Register, LateInv
<1>2. TypeOK'
  <2>1. late' \in [Clients -> Calls]
    <3> HIDE DEF Calls, NoCall
    <3>1. NoCall \in Calls
      BY DEF Calls, NoCall
    <3> QED BY <1>1, <3>1 DEF OwnerInv, TypeOK
  <2> QED BY <1>1, <2>1 DEF OwnerInv, TypeOK, Forget
<1>3. ASSUME NEW d \in Clients PROVE LocalInv(d)'
  <2>1. LocalType(d) /\ LocalInv(d)
    BY TypeOfClient DEF OwnerInv
  <2>2. /\ Forgotten(d) /\ ObjectKept(d) /\ ReplyKept(d) /\ cur'[d] = cur[d]
        /\ chan'[d] = chan[d] /\ grace' = grace
    BY <1>1 DEF Forgotten, Forget, ObjectKept, ReplyKept
  <2>3. CASE d = c
    BY <1>1, <2>1, <2>2, <2>3 DEF LocalInv, LocalType, CallInv, FreshInv, ReplyInv, LostInv,
           GraceInv, StepInv, HeldInv, Opened, Waiting, Pending, Receive, Requested,
           ObjectKept, ReplyKept, Forgotten
  <2>4. CASE d # c
    BY <1>1, <2>1, <2>2, <2>4, ForgottenKept
  <2> QED BY <2>3, <2>4
<1> QED BY <1>2, <1>3 DEF OwnerInv

\* A late request preserves the invariant.
LEMMA SrvLateKeeps ==
    ASSUME OwnerInv, LateInv, NEW c \in Clients, SrvLate(c)
    PROVE  OwnerInv'
<1>1. late[c].op \in OwnerOps \cup {"setclientid", "close", "setclientid_confirm"}
  BY DEF SrvLate
<1> QED BY <1>1, LateOwnerKeeps, LateRegisterKeeps, PreservedSuffices

-----------------------------------------------------------------------------
(* The theorems.                                                           *)

\* Every step preserves the invariant.
LEMMA NextKeeps ==
    ASSUME OwnerInv, LateInv, [Next]_vars
    PROVE  OwnerInv'
<1>1. ASSUME NEW c \in Clients, UserStep(c) PROVE OwnerInv'
  BY <1>1, UserStepKeeps, PreservedSuffices DEF OwnerInv
<1>2. ASSUME NEW c \in Clients, ClientStep(c) PROVE OwnerInv'
  BY <1>2, ClientStepKeeps, PreservedSuffices DEF OwnerInv
<1>3. ASSUME NEW c \in Clients, ServerStep(c) PROVE OwnerInv'
  BY <1>3, ServerStepKeeps
<1>4. CASE Failure
  <2>1. ASSUME NEW c \in Clients, \/ OpenSendFails(c) \/ ConfirmSendFails(c)
                                  \/ RetrySendFails(c) \/ ConnectionLost(c)
        PROVE  OwnerInv'
    BY <2>1, SendFailureKeeps, PreservedSuffices DEF OwnerInv
  <2>2. ASSUME NEW c \in Clients, SrvLate(c) PROVE OwnerInv'
    BY <2>2, SrvLateKeeps
  <2> QED BY <1>4, <2>1, <2>2, LeaseExpiresKeeps, ServerRestartKeeps DEF Failure
<1>5. CASE GraceEnds
  BY <1>5, GraceEndsKeeps
<1>6. CASE UNCHANGED vars
  <2>1. TypeOK'
    BY <1>6 DEF OwnerInv, TypeOK, vars
  <2>2. ASSUME NEW d \in Clients PROVE Same(d)
    BY <1>6 DEF Same, vars
  <2> QED BY <2>1, <2>2, OthersKept DEF OwnerInv
<1> QED BY <1>1, <1>2, <1>3, <1>4, <1>5, <1>6 DEF Next

\* The invariant holds in every reachable state.
LEMMA OwnerInvariance == Spec => [](OwnerInv /\ LateInv)
<1>1. Init => OwnerInv /\ LateInv
  <2> SUFFICES ASSUME Init PROVE OwnerInv /\ LateInv
    OBVIOUS
  <2>1. TypeOK
    <3>1. NoCall \in Calls
      OBVIOUS
    <3>2. [c \in Clients |-> [f \in Files |-> 0]] \in [Clients -> [Files -> Seqids]]
      OBVIOUS
    <3>3. 0 \in Seqids /\ 0 \in 0..MaxRestarts /\ "none" \in Statuses
      OBVIOUS
    <3> HIDE DEF Seqids, NoCall, Calls, Ops, Statuses
    <3> QED BY <3>1, <3>2, <3>3 DEF Init, TypeOK
  <2>2. ASSUME NEW d \in Clients PROVE LocalInv(d)
    BY <2>2 DEF Init, LocalInv, CallInv, FreshInv, ReplyInv, LostInv, GraceInv, StepInv,
           HeldInv, Opened, Waiting, Pending, Receive, Requested
  <2>3. LateInv
    BY DEF Init, LateInv
  <2> QED BY <2>1, <2>2, <2>3 DEF OwnerInv
<1>2. OwnerInv /\ LateInv /\ [Next]_vars => (OwnerInv /\ LateInv)'
  <2>1. ASSUME LateInv, UNCHANGED vars PROVE LateInv'
    BY <2>1 DEF LateInv, vars
  <2> QED BY <2>1, NextKeeps, LateStep
<1> QED BY <1>1, <1>2, PTL DEF Spec

\* The variables of the client and of the server keep their types: seqids and
\* stateids stay within their bound, and a handle always names a file and a stateid.
THEOREM TypeCorrect == Spec => []TypeOK
<1>1. OwnerInv => TypeOK
  BY DEF OwnerInv
<1> QED BY <1>1, OwnerInvariance, PTL

\* open_seqid_ of do_open is in step with the seqid of the server's open-owner, up to
\* the seqids used in vain, whatever fails between the two.
THEOREM InStep == Spec => []OwnerInStep
<1>1. OwnerInv => OwnerInStep
  BY DEF OwnerInv, LocalInv, StepInv, OwnerInStep
<1> QED BY <1>1, OwnerInvariance, PTL

\* do_open, which repeats an OPEN with the same seqid after NFS4ERR_GRACE, never gets
\* the cached answer of an earlier operation.
THEOREM NeverReplayed == Spec => []NoFalseReplay
<1>1. OwnerInv => NoFalseReplay
  BY DEF OwnerInv, LocalInv, StepInv, NoFalseReplay
<1> QED BY <1>1, OwnerInvariance, PTL

\* No later operation of a client makes the server drop a file that do_open returned.
THEOREM HeldFilesStayOpen == Spec => []HeldStaysOpen
<1>1. OwnerInv => HeldStaysOpen
  BY DEF OwnerInv, LocalInv, HeldInv, HeldStaysOpen
<1> QED BY <1>1, OwnerInvariance, PTL

\* A CLOSE that reaches a server which knows the client has a seqid the owner has
\* behind it, also when the connection broke under it: close() sends the seqid of the
\* OPEN (f.seqid), never the next one.
CloseOutOfStep ==
    \A c \in Clients : conf = c =>
        /\ Requested(c, "close") => owner[c] = "confirmed" /\ cur[c].seq <= last[c]
        /\ late[c].op = "close" => owner[c] = "confirmed" /\ late[c].seq <= last[c]

\* So no CLOSE of Nfs4Client is ever executed: the opens of a client stay until the
\* client is forgotten.
THEOREM CloseNeverInStep == Spec => []CloseOutOfStep
<1>1. OwnerInv /\ LateInv => CloseOutOfStep
  BY CloseBehind DEF OwnerInv, LateInv, CloseOutOfStep
<1> QED BY <1>1, OwnerInvariance, PTL

-----------------------------------------------------------------------------
(* The action property.                                                    *)

\* No step executes an operation of a confirmed owner that has lost one.
LEMMA LostStep ==
    ASSUME OwnerInv, LateInv, Next, NEW d \in Clients, life[d] = "ready", owner[d] = "confirmed",
           lost[d] > 0, conf = d, conf' = d
    PROVE  last'[d] = last[d] /\ opens'[d] = opens[d]
<1>0. LocalType(d) /\ LocalInv(d) /\ TypeOK
  BY TypeOfClient DEF OwnerInv
<1>1. ASSUME NEW c \in Clients, UserStep(c) \/ ClientStep(c) PROVE UNCHANGED <<last, opens>>
  BY <1>1 DEF UserStep, Construct, ConstructFails, Destroy, Other, Open, Close, Io,
       ClientStep, BootFails, RecvSetclientid, RecvSetclientidConfirm, RecvRoot, RecvOpen,
       OpenConfirm, RecvOpenConfirm, OpenBackoff, OpenRetry, RecvClose, RecvOther
<1>2. ASSUME NEW c \in Clients, ServerStep(c)
      PROVE  last'[d] = last[d] /\ opens'[d] = opens[d]
  <2>1. CASE SrvSetclientid(c) \/ SrvStops(c) \/ SrvOther(c)
    BY <2>1 DEF SrvSetclientid, SrvStops, SrvRefuses, SrvOther
  <2>2. CASE SrvSetclientidConfirm(c)
    <3>1. c # d
      BY <1>0, <2>2 DEF SrvSetclientidConfirm, Requested, LocalInv, CallInv
    <3> QED BY <2>2, <3>1 DEF SrvSetclientidConfirm, Register
  <2>3. CASE SrvOutOfSequence(c)
    BY <2>3 DEF SrvOutOfSequence, OutOfSequence, SrvRefuses
  <2>4. CASE SrvOpen(c)
    <3>1. c = d /\ chan[c] = "request" /\ cur[c].op = "open" /\ cur[c].seq = last[c] + 1
      BY <2>4 DEF SrvOpen, TakesOpen, Requested
    <3>2. cur[d].seq = last[d] + lost[d] + 1
      BY <1>0, <3>1 DEF LocalInv, CallInv, StepInv, Pending
    <3> QED BY <1>0, <3>1, <3>2 DEF LocalType
  <2>5. CASE SrvOpenConfirm(c)
    BY <2>5 DEF SrvOpenConfirm
  <2>6. CASE SrvClose(c)
    <3>1. c = d /\ Requested(c, "close")
      BY <2>6 DEF SrvClose
    <3>2. cur[d].seq <= last[d]
      BY <1>0, <3>1, CloseBehind
    <3>3. cur[d].seq # last[d] + 1
      BY <1>0, <3>2 DEF LocalType
    <3>4. OutOfSequence(c)
      BY <2>6, <3>1, <3>3 DEF SrvClose
    <3> QED BY <3>4 DEF OutOfSequence, SrvRefuses
  <2> QED BY <1>2, <2>1, <2>2, <2>3, <2>4, <2>5, <2>6 DEF ServerStep
<1>3. ASSUME NEW c \in Clients, \/ OpenSendFails(c) \/ ConfirmSendFails(c)
                                \/ RetrySendFails(c) \/ ConnectionLost(c)
      PROVE  UNCHANGED <<last, opens>>
  BY <1>3 DEF OpenSendFails, ConfirmSendFails, RetrySendFails, ConnectionLost
<1>6. ASSUME NEW c \in Clients, SrvLate(c)
      PROVE  last'[d] = last[d] /\ opens'[d] = opens[d]
  <2>1. CASE late[c].op = "setclientid"
    BY <1>6, <2>1 DEF SrvLate
  <2>2. CASE late[c].op = "setclientid_confirm"
    <3>1. c = d /\ life[c] = "failed"
      BY <1>6, <2>2 DEF SrvLate, Register, LateInv
    <3> QED BY <3>1
  <2>3. CASE late[c].op = "open"
    <3>1. c = d /\ late[d].seq = last[d] + 1
      BY <1>6, <2>3 DEF SrvLate, TakesOpen
    <3>2. late[d].seq = last[d] + lost[d] + 1
      BY <2>3, <3>1 DEF LateInv
    <3> QED BY <1>0, <3>1, <3>2 DEF LocalType
  <2>4. CASE late[c].op = "open_confirm"
    BY <1>6, <2>4 DEF SrvLate, TakesConfirm
  <2>5. CASE late[c].op = "close"
    <3>1. ~TakesClose(c, late[c])
      BY <1>0, <2>5 DEF TakesClose, LateInv, LocalType
    <3> QED BY <1>6, <2>5, <3>1 DEF SrvLate
  <2> QED BY <1>6, <2>1, <2>2, <2>3, <2>4, <2>5 DEF SrvLate
<1>4. CASE LeaseExpires \/ ServerRestart
  BY <1>4 DEF LeaseExpires, ServerRestart
<1>5. CASE GraceEnds
  BY <1>5 DEF GraceEnds
<1> QED BY <1>1, <1>2, <1>3, <1>4, <1>5, <1>6 DEF Next, Failure

\* A confirmed open-owner that has lost an operation executes no later one, for any
\* number of clients, files and seqids.
THEOREM LostIsLast == Spec => NothingAfterLost
<1>1. OwnerInv /\ LateInv /\ [Next]_vars =>
          [\A c \in Clients :
               /\ life[c] = "ready" /\ owner[c] = "confirmed" /\ lost[c] > 0
               /\ conf = c /\ conf' = c
               => last'[c] = last[c] /\ opens'[c] = opens[c]]_vars
  BY LostStep
<1> QED BY <1>1, OwnerInvariance, PTL DEF Spec, NothingAfterLost
=============================================================================
