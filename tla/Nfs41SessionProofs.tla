------------------------- MODULE Nfs41SessionProofs -------------------------
(***************************************************************************)
(* Theorems about Nfs41Session, for any number of client objects and       *)
(* files, any width of the sequence ids and any bounds.                    *)
(***************************************************************************)
EXTENDS Nfs41Session, TLAPS

\* What a call in progress says about the object and its connection.
CallInv ==
    \A c \in Clients :
        /\ chan[c] # "idle" => conn[c]
        /\ chan[c] = "idle" => cur[c] = NoCall
        /\ chan[c] = "backoff" => cur[c].op = "open"
        /\ cur[c].op \in BootOps => life[c] = "boot"
        /\ cur[c].op \in {"open", "close", "io"} => cur[c].file \in Files
        /\ cur[c].op \in {"close", "io"} => cur[c].sid # 0
        /\ Receive(c, "open") /\ UsableOpen(c) => rsid[c] # 0

\* Until its session is used, an object has a fresh one or none, has lost no
\* COMPOUND and holds no file.
FreshInv ==
    \A c \in Clients :
        /\ life[c] = "new" => ~conn[c] /\ c \notin sess
        /\ cur[c].op = "exchange_id" => c \notin sess
        /\ cur[c].op = "create_session" /\ c \in sess => slot[c] = 0
        /\ life[c] = "new" \/ cur[c].op \in {"exchange_id", "create_session"}
              => skew[c] = 0
        /\ life[c] \in {"new", "boot"} => files[c] = {} /\ closed[c] = {}

\* The request carries the number before slot_seqid_, and the model follows a
\* session out of step no further than MaxSkew.
SeqInv ==
    \A c \in Clients :
        /\ Sequenced(c) => slot_seqid[c] = Plus(seq[c], 1)
        /\ Sequenced(c) \/ chan[c] = "backoff" => skew[c] = 0 \/ skew[c] < MaxSkew
        /\ chan[c] = "reply" /\ cur[c].op \in SeqOps /\ status[c] \in {"ok", "grace"}
              => skew[c] = 0

\* The part of the invariant that yields NoFalseReplay.
SlotInv == TypeOK /\ CallInv /\ FreshInv /\ SeqInv /\ SlotInStep /\ NoFalseReplay

\* A request left behind by a broken connection is numbered as it was when it was sent:
\* nothing its object does can move the slot any more.
LateInv ==
    \A c \in Clients :
        /\ late[c].call.op # "none" => ~conn[c] /\ life[c] # "new"
        /\ late[c].call.op = "create_session" => skew[c] = 0
        /\ late[c].call.op \in SeqOps /\ c \in sess
              => Plus(late[c].seq, 1) = Plus(slot[c], 1 + skew[c] + 1)

\* Stateids are handed out in order; nobody knows one that was not handed out.
SidInv ==
    \A c \in Clients :
        /\ \A f \in Files : opens[c][f] <= lastsid
        /\ \A h \in files[c] \cup closed[c] : h.sid <= lastsid
        /\ cur[c].op = "close" => cur[c].sid <= lastsid
        /\ Receive(c, "open") /\ UsableOpen(c) => rsid[c] <= lastsid

\* A CLOSE that succeeded and whose reply is on its way has closed the stateid.
ClosingInv ==
    \A c \in Clients :
        Receive(c, "close") /\ CloseSucceeded(c) => opens[c][cur[c].file] # cur[c].sid

\* The open behind a handle, and behind the reply that will become one, is current,
\* replaced, or closed through a handle of the same file that is no older.
Covered(c, h) ==
    \/ opens[c][h.file] >= h.sid
    \/ \E g \in closed[c] : g.file = h.file /\ g.sid > h.sid
    \/ /\ Receive(c, "close") /\ CloseSucceeded(c)
       /\ cur[c].file = h.file /\ cur[c].sid >= h.sid

HeldInv ==
    \A c \in Clients :
        conf = c /\ conn[c] =>
            /\ \A h \in files[c] : Covered(c, h)
            /\ Receive(c, "open") /\ UsableOpen(c) => opens[c][cur[c].file] >= rsid[c]

\* What is added to SlotInv for the properties of opens.
OpenInv == SidInv /\ ClosingInv /\ CloseReleases /\ HeldInv

USE WAssumption, SkewAssumption, BoundsAssumption, NoneAssumption
USE DEF Call, NoCall, Calls, NoRequest, Handles, SeqOps, BootOps, Ops, Statuses,
        Confirm, EndSession, InSequence, OpenFile, CloseFile,
        clientVars, chanVars, serverVars

-----------------------------------------------------------------------------
(* The arithmetic of the sequence ids.                                     *)

\* slot_seqid_++ stays within the width of the counter, and moves a number that is
\* k ahead of the expected one to k + 1 ahead.
LEMMA NextSeqidFacts ==
    ASSUME NEW s \in 0..W-1
    PROVE  /\ NextSeqid(s) \in 0..W-1
           /\ NextSeqid(s) = Plus(s, 1)
           /\ \A last \in 0..W-1, k \in 0..W-2 :
                  s = Plus(last, 1 + k + 0) => NextSeqid(s) = Plus(last, 1 + k + 1)
BY DEF NextSeqid, Plus

\* A request at most W - 2 ahead of the sequence id the server expects is not the
\* one it last accepted, and it is the expected one only if nothing was lost.
LEMMA NoAlias ==
    ASSUME NEW last \in 0..W-1, NEW req \in 0..W-1, NEW k \in 0..MaxSkew,
           Plus(req, 1) = Plus(last, 1 + k + 1)
    PROVE  /\ req # last
           /\ req = Plus(last, 1) <=> k = 0
           /\ Plus(req, 1) = Plus(last, 1 + (k + 1) + 0)
           /\ k = 0 => Plus(req, 1) = Plus(req, 1 + k + 0)
BY DEF Plus

\* The server's table of opens keeps its type when one entry changes.
LEMMA OpensUpdate ==
    ASSUME NEW g \in [Clients -> [Files -> 0..MaxStateid]], NEW c \in Clients, NEW f,
           NEW v \in 0..MaxStateid
    PROVE  [g EXCEPT ![c][f] = v] \in [Clients -> [Files -> 0..MaxStateid]]
OBVIOUS

-----------------------------------------------------------------------------
(* SlotInv is inductive: one lemma per party, one step per action.         *)

\* Any method that sends a COMPOUND on the session (the callers of compound41).
LEMMA IssueSlot ==
    ASSUME SlotInv, NEW c \in Clients,
           NEW call \in [op : SeqOps \ BootOps, file : Files \cup {None}, sid : 0..MaxStateid],
           Issue(c, call),
           call.op \in {"open", "close", "io"} => call.file \in Files,
           call.op \in {"close", "io"} => call.sid # 0
    PROVE  SlotInv'
<1>1. TypeOK'
  BY NextSeqidFacts DEF SlotInv, TypeOK, Issue, Idle, Compound41, Send, CallInv, Receive
<1>2. CallInv'
  BY NextSeqidFacts DEF SlotInv, TypeOK, Issue, Idle, Compound41, Send, CallInv, Receive,
            UsableOpen
<1>3. FreshInv'
  BY NextSeqidFacts DEF SlotInv, TypeOK, Issue, Idle, Compound41, Send, FreshInv,
            CallInv
<1>4. SeqInv'
  BY NextSeqidFacts DEF SlotInv, TypeOK, Issue, Idle, Compound41, Send, SeqInv,
            Sequenced, Receive, FreshInv, CallInv
<1>5. SlotInStep'
  BY NextSeqidFacts DEF SlotInv, TypeOK, Issue, Idle, Compound41, Send, SlotInStep,
            SeqInv, Pending, Sequenced, CallInv, FreshInv, Receive
<1>6. NoFalseReplay'
  BY NextSeqidFacts DEF SlotInv, TypeOK, Issue, Idle, Compound41, Send, NoFalseReplay
<1> QED BY <1>1, <1>2, <1>3, <1>4, <1>5, <1>6 DEF SlotInv

\* The application's calls.
LEMMA UserStepSlot ==
    ASSUME SlotInv, NEW c \in Clients, UserStep(c)
    PROVE  SlotInv'
<1>1. CASE Construct(c)
  BY <1>1 DEF SlotInv, TypeOK, CallInv, FreshInv, SeqInv, SlotInStep, NoFalseReplay,
            Pending, Sequenced, Receive, UsableOpen, Construct, Send
<1>2. CASE ConstructFails(c)
  BY <1>2 DEF SlotInv, TypeOK, CallInv, FreshInv, SeqInv, SlotInStep, NoFalseReplay,
            Pending, Sequenced, Receive, UsableOpen, ConstructFails
<1>3. CASE Destroy(c)
  <2>1. TypeOK' /\ CallInv'
    BY <1>3 DEF SlotInv, TypeOK, CallInv, Receive, UsableOpen, Destroy, Idle, Send
  <2>2. FreshInv' /\ SeqInv'
    BY <1>3 DEF SlotInv, TypeOK, FreshInv, SeqInv, Sequenced, Destroy, Idle, Send
  <2>3. SlotInStep' /\ NoFalseReplay'
    BY <1>3 DEF SlotInv, TypeOK, SlotInStep, NoFalseReplay, Pending, Sequenced, Destroy, Idle,
            Send
  <2> QED BY <2>1, <2>2, <2>3 DEF SlotInv
<1>4. CASE Query(c)
  BY <1>4, IssueSlot DEF Query
<1>5. CASE Modify(c)
  BY <1>5, IssueSlot DEF Modify
<1>6. ASSUME NEW f \in Files, Open(c, f) PROVE SlotInv'
  BY <1>6, IssueSlot DEF Open
<1>7. ASSUME NEW h \in Handles, Close(c, h) PROVE SlotInv'
  BY <1>7, IssueSlot DEF Close
<1>8. ASSUME NEW h \in Handles, Io(c, h) PROVE SlotInv'
  BY <1>8, IssueSlot DEF Io
<1> QED BY <1>1, <1>2, <1>3, <1>4, <1>5, <1>6, <1>7, <1>8 DEF UserStep

\* What the client does by itself.
LEMMA ClientStepSlot ==
    ASSUME SlotInv, NEW c \in Clients, ClientStep(c)
    PROVE  SlotInv'
<1>1. CASE BootFails(c)
  BY <1>1 DEF SlotInv, TypeOK, CallInv, FreshInv, SeqInv, SlotInStep, NoFalseReplay,
            Pending, Sequenced, Receive, UsableOpen,
            BootFails, Finish
<1>2. CASE RecvExchangeId(c)
  BY <1>2 DEF SlotInv, TypeOK, CallInv, FreshInv, SeqInv, SlotInStep, NoFalseReplay,
            Pending, Sequenced, Receive, UsableOpen,
            RecvExchangeId, Send
<1>3. CASE RecvCreateSession(c)
  <2>1. TypeOK'
    BY <1>3 DEF SlotInv, TypeOK, RecvCreateSession, FirstSeqid, Send, NextSeqid,
            Plus, CallInv, Receive
  <2>2. CallInv'
    BY <1>3 DEF SlotInv, TypeOK, RecvCreateSession, FirstSeqid, Send, NextSeqid,
            Plus, CallInv, Receive, UsableOpen
  <2>3. FreshInv'
    BY <1>3 DEF SlotInv, TypeOK, RecvCreateSession, FirstSeqid, Send, NextSeqid,
            Plus, FreshInv, CallInv
  <2>4. SeqInv'
    BY <1>3 DEF SlotInv, TypeOK, RecvCreateSession, FirstSeqid, Send, NextSeqid,
            Plus, SeqInv, Sequenced, Receive, FreshInv, CallInv
  <2>5. SlotInStep'
    BY <1>3 DEF SlotInv, TypeOK, RecvCreateSession, FirstSeqid, Send, NextSeqid,
            Plus, SlotInStep, SeqInv, Pending, Sequenced, CallInv, FreshInv,
            Receive
  <2>6. NoFalseReplay'
    BY <1>3 DEF SlotInv, TypeOK, RecvCreateSession, FirstSeqid, Send, NextSeqid,
            Plus, NoFalseReplay
  <2> QED BY <2>1, <2>2, <2>3, <2>4, <2>5, <2>6 DEF SlotInv
<1>4. CASE RecvReclaimComplete(c)
  <2>1. TypeOK'
    BY <1>4, NextSeqidFacts DEF SlotInv, TypeOK, RecvReclaimComplete, Compound41, Send, CallInv,
            Receive
  <2>2. CallInv'
    BY <1>4 DEF SlotInv, TypeOK, RecvReclaimComplete, Compound41, Send, CallInv,
            Receive, UsableOpen
  <2>3. FreshInv'
    BY <1>4 DEF SlotInv, TypeOK, RecvReclaimComplete, Compound41, Send, FreshInv,
            CallInv
  <2>4. SeqInv'
    BY <1>4, NextSeqidFacts DEF SlotInv, TypeOK, RecvReclaimComplete, Compound41, Send, SeqInv,
            Sequenced, Receive, FreshInv, CallInv
  <2>5. SlotInStep'
    BY <1>4, NextSeqidFacts DEF SlotInv, TypeOK, RecvReclaimComplete, Compound41, Send,
            SlotInStep, SeqInv, Pending, Sequenced, CallInv, FreshInv,
            Receive
  <2>6. NoFalseReplay'
    BY <1>4 DEF SlotInv, TypeOK, RecvReclaimComplete, Compound41, Send,
            NoFalseReplay
  <2> QED BY <2>1, <2>2, <2>3, <2>4, <2>5, <2>6 DEF SlotInv
<1>5. CASE RecvRoot(c)
  BY <1>5 DEF SlotInv, TypeOK, CallInv, FreshInv, SeqInv, SlotInStep, NoFalseReplay,
            Pending, Sequenced, Receive, UsableOpen,
            RecvRoot, Finish
<1>6. CASE RecvOpen(c)
  BY <1>6 DEF SlotInv, TypeOK, CallInv, FreshInv, SeqInv, SlotInStep, NoFalseReplay,
            Pending, Sequenced, Receive, UsableOpen,
            RecvOpen, RetriedStatus, Finish
<1>7. CASE OpenBackoff(c)
  <2>1. TypeOK'
    BY <1>7 DEF SlotInv, TypeOK, OpenBackoff, RetriedStatus, Receive, CallInv
  <2>2. CallInv'
    BY <1>7 DEF SlotInv, TypeOK, OpenBackoff, RetriedStatus, Receive, CallInv,
            UsableOpen
  <2>3. FreshInv'
    BY <1>7 DEF SlotInv, TypeOK, OpenBackoff, RetriedStatus, Receive, FreshInv,
            CallInv
  <2>4. SeqInv'
    BY <1>7 DEF SlotInv, TypeOK, OpenBackoff, RetriedStatus, Receive, SeqInv,
            Sequenced, FreshInv, CallInv
  <2>5. SlotInStep'
    BY <1>7 DEF SlotInv, TypeOK, OpenBackoff, RetriedStatus, Receive, SlotInStep,
            SeqInv, Pending, Sequenced, CallInv, FreshInv
  <2>6. NoFalseReplay'
    BY <1>7 DEF SlotInv, TypeOK, OpenBackoff, RetriedStatus, Receive,
            NoFalseReplay
  <2> QED BY <2>1, <2>2, <2>3, <2>4, <2>5, <2>6 DEF SlotInv
<1>8. CASE OpenRetry(c)
  <2>1. TypeOK'
    BY <1>8, NextSeqidFacts DEF SlotInv, TypeOK, OpenRetry, Compound41, Send, CallInv, Receive
  <2>2. CallInv'
    BY <1>8 DEF SlotInv, TypeOK, OpenRetry, Compound41, Send, CallInv, Receive,
            UsableOpen
  <2>3. FreshInv'
    BY <1>8 DEF SlotInv, TypeOK, OpenRetry, Compound41, Send, FreshInv, CallInv
  <2>4. SeqInv'
    BY <1>8, NextSeqidFacts DEF SlotInv, TypeOK, OpenRetry, Compound41, Send, SeqInv, Sequenced,
            Receive, FreshInv, CallInv
  <2>5. SlotInStep'
    BY <1>8, NextSeqidFacts DEF SlotInv, TypeOK, OpenRetry, Compound41, Send, SlotInStep, SeqInv,
            Pending, Sequenced, CallInv, FreshInv, Receive
  <2>6. NoFalseReplay'
    BY <1>8 DEF SlotInv, TypeOK, OpenRetry, Compound41, Send, NoFalseReplay
  <2> QED BY <2>1, <2>2, <2>3, <2>4, <2>5, <2>6 DEF SlotInv
<1>9. CASE RecvClose(c)
  BY <1>9 DEF SlotInv, TypeOK, CallInv, FreshInv, SeqInv, SlotInStep, NoFalseReplay,
            Pending, Sequenced, Receive, UsableOpen,
            RecvClose, CloseSucceeded, Finish
<1>10. CASE RecvOther(c)
  BY <1>10 DEF SlotInv, TypeOK, CallInv, FreshInv, SeqInv, SlotInStep, NoFalseReplay,
            Pending, Sequenced, Receive, UsableOpen,
            RecvOther, Finish
<1>11. CASE Destroyed(c)
  BY <1>11 DEF SlotInv, TypeOK, CallInv, FreshInv, SeqInv, SlotInStep, NoFalseReplay,
            Pending, Sequenced, Receive, UsableOpen,
            Destroyed, Idle, Finish
<1> QED BY <1>1, <1>2, <1>3, <1>4, <1>5, <1>6, <1>7, <1>8, <1>9, <1>10,
            <1>11 DEF ClientStep

\* What the server finds when it looks at a request on a live session.
LEMMA RequestFacts ==
    ASSUME SlotInv, NEW c \in Clients, Sequenced(c), c \in sess
    PROVE  /\ seq[c] # slot[c]
           /\ seq[c] = Plus(slot[c], 1) <=> skew[c] = 0
           /\ slot_seqid[c] = Plus(slot[c], 1 + (skew[c] + 1) + 0)
           /\ skew[c] = 0 => slot_seqid[c] = Plus(seq[c], 1 + skew[c] + 0)
<1>1. /\ slot_seqid[c] = Plus(slot[c], 1 + skew[c] + 1)
      /\ slot_seqid[c] = Plus(seq[c], 1)
  BY DEF SlotInv, SlotInStep, SeqInv, CallInv, Sequenced, Pending
<1>2. slot[c] \in 0..W-1 /\ seq[c] \in 0..W-1 /\ skew[c] \in 0..MaxSkew
  BY DEF SlotInv, TypeOK
<1> QED BY <1>1, <1>2, NoAlias

\* What the server does with a request.
LEMMA ServerStepSlot ==
    ASSUME SlotInv, NEW c \in Clients, ServerStep(c)
    PROVE  SlotInv'
<1>1. CASE SrvExchangeId(c)
  <2>0. PICK st \in Statuses : Reply(c, st)
    BY <1>1 DEF SrvExchangeId
  <2>1. TypeOK'
    BY <1>1, <2>0 DEF SlotInv, TypeOK, SrvExchangeId, Requested, Reply, CallInv,
            Receive
  <2>2. CallInv'
    BY <1>1, <2>0 DEF SlotInv, TypeOK, SrvExchangeId, Requested, Reply, CallInv,
            Receive, UsableOpen
  <2>3. FreshInv'
    BY <1>1, <2>0 DEF SlotInv, TypeOK, SrvExchangeId, Requested, Reply, FreshInv,
            CallInv
  <2>4. SeqInv'
    BY <1>1, <2>0 DEF SlotInv, TypeOK, SrvExchangeId, Requested, Reply, SeqInv,
            Sequenced, Receive, FreshInv, CallInv
  <2>5. SlotInStep'
    BY <1>1, <2>0 DEF SlotInv, TypeOK, SrvExchangeId, Requested, Reply, SlotInStep,
            SeqInv, Pending, Sequenced, CallInv, FreshInv, Receive
  <2>6. NoFalseReplay'
    BY <1>1, <2>0 DEF SlotInv, TypeOK, SrvExchangeId, Requested, Reply, NoFalseReplay
  <2> QED BY <2>1, <2>2, <2>3, <2>4, <2>5, <2>6 DEF SlotInv
<1>2. CASE SrvCreateSession(c)
  <2>0. PICK st \in Statuses : Reply(c, st)
    BY <1>2 DEF SrvCreateSession
  <2>1. TypeOK'
    <3>1. /\ unconf' \in Clients \cup {None} /\ conf' \in Clients \cup {None}
          /\ sess' \in SUBSET Clients /\ slot' \in [Clients -> 0..W-1]
      BY <1>2 DEF SlotInv, TypeOK, SrvCreateSession, FreedSlots
    <3>2. opens' \in [Clients -> [Files -> 0..MaxStateid]]
      <4>1. opens' = opens \/ opens' = Released(Clients \ {c})
        BY <1>2 DEF SrvCreateSession
      <4> QED BY <4>1 DEF SlotInv, TypeOK, Released
    <3> QED BY <1>2, <2>0, <3>1, <3>2 DEF SlotInv, TypeOK, SrvCreateSession, Reply
  <2>2. CallInv'
    BY <1>2, <2>0 DEF SlotInv, TypeOK, SrvCreateSession, Requested, Reply, Released,
            FreedSlots, CallInv, Receive, UsableOpen
  <2>3. FreshInv'
    BY <1>2, <2>0 DEF SlotInv, TypeOK, SrvCreateSession, Requested, Reply, Released,
            FreedSlots, FreshInv, CallInv
  <2>4. SeqInv'
    BY <1>2, <2>0 DEF SlotInv, TypeOK, SrvCreateSession, Requested, Reply, Released,
            FreedSlots, SeqInv, Sequenced, Receive, FreshInv, CallInv
  <2>5. SlotInStep'
    BY <1>2, <2>0 DEF SlotInv, TypeOK, SrvCreateSession, Requested, Reply, Released,
            FreedSlots, SlotInStep, SeqInv, Pending, Sequenced, CallInv,
            FreshInv, Receive
  <2>6. NoFalseReplay'
    BY <1>2, <2>0 DEF SlotInv, TypeOK, SrvCreateSession, Requested, Reply, Released,
            FreedSlots, NoFalseReplay
  <2> QED BY <2>1, <2>2, <2>3, <2>4, <2>5, <2>6 DEF SlotInv
<1>3. CASE SrvDestroySession(c)
  <2>0. PICK st \in Statuses : Reply(c, st)
    BY <1>3 DEF SrvDestroySession
  <2>1. TypeOK'
    BY <1>3, <2>0 DEF SlotInv, TypeOK, SrvDestroySession, Requested, Reply, FreedSlots,
            CallInv, Receive
  <2>2. CallInv'
    BY <1>3, <2>0 DEF SlotInv, TypeOK, SrvDestroySession, Requested, Reply, FreedSlots,
            CallInv, Receive, UsableOpen
  <2>3. FreshInv'
    BY <1>3, <2>0 DEF SlotInv, TypeOK, SrvDestroySession, Requested, Reply, FreedSlots,
            FreshInv, CallInv
  <2>4. SeqInv'
    BY <1>3, <2>0 DEF SlotInv, TypeOK, SrvDestroySession, Requested, Reply, FreedSlots,
            SeqInv, Sequenced, Receive, FreshInv, CallInv
  <2>5. SlotInStep'
    BY <1>3, <2>0 DEF SlotInv, TypeOK, SrvDestroySession, Requested, Reply, FreedSlots,
            SlotInStep, SeqInv, Pending, Sequenced, CallInv, FreshInv,
            Receive
  <2>6. NoFalseReplay'
    BY <1>3, <2>0 DEF SlotInv, TypeOK, SrvDestroySession, Requested, Reply, FreedSlots,
            NoFalseReplay
  <2> QED BY <2>1, <2>2, <2>3, <2>4, <2>5, <2>6 DEF SlotInv
<1>4. CASE SrvSequenceFails(c)
  <2>0. PICK st \in Statuses : Reply(c, st)
    BY <1>4 DEF SrvSequenceFails
  <2>1. TypeOK'
    <3>1. \/ skew' = skew
          \/ skew[c] < MaxSkew /\ skew' = [skew EXCEPT ![c] = @ + 1]
      BY <1>4 DEF SrvSequenceFails
    <3>2. skew' \in [Clients -> 0..MaxSkew]
      <4>1. CASE skew' = skew
        BY <4>1 DEF SlotInv, TypeOK
      <4>2. CASE skew[c] < MaxSkew /\ skew' = [skew EXCEPT ![c] = @ + 1]
        BY <4>2 DEF SlotInv, TypeOK
      <4> QED BY <3>1, <4>1, <4>2
    <3> QED BY <1>4, <2>0, <3>2 DEF SlotInv, TypeOK, SrvSequenceFails, Reply
  <2>2. CallInv'
    BY <1>4, <2>0 DEF SlotInv, TypeOK, SrvSequenceFails, Sequenced, Reply, CallInv,
            Receive, UsableOpen
  <2>3. FreshInv'
    BY <1>4, <2>0 DEF SlotInv, TypeOK, SrvSequenceFails, Sequenced, Reply, FreshInv,
            CallInv
  <2>4. SeqInv'
    BY <1>4, RequestFacts, <2>0 DEF SlotInv, TypeOK, SrvSequenceFails, Sequenced, Reply, SeqInv,
            Receive, FreshInv, CallInv
  <2>5. SlotInStep'
    BY <1>4, RequestFacts, <2>0 DEF SlotInv, TypeOK, SrvSequenceFails, Sequenced, Reply, SlotInStep,
            SeqInv, Pending, CallInv, FreshInv, Receive
  <2>6. NoFalseReplay'
    BY <1>4, RequestFacts, <2>0 DEF SlotInv, TypeOK, SrvSequenceFails, Sequenced, Reply,
            NoFalseReplay
  <2> QED BY <2>1, <2>2, <2>3, <2>4, <2>5, <2>6 DEF SlotInv
<1>5. CASE SrvOpen(c)
  <2>0. PICK st \in Statuses : Reply(c, st)
    BY <1>5 DEF SrvOpen
  <2>1. TypeOK'
    <3>1. /\ lastsid' \in 0..MaxStateid
          /\ rsid' \in [Clients -> 0..MaxStateid]
          /\ opens' \in [Clients -> [Files -> 0..MaxStateid]]
      <4>1. CASE UNCHANGED <<opens, lastsid, rsid>>
        BY <4>1 DEF SlotInv, TypeOK
      <4>2. CASE /\ lastsid < MaxStateid
                 /\ lastsid' = lastsid + 1
                 /\ opens' = [opens EXCEPT ![c][cur[c].file] = lastsid + 1]
                 /\ rsid' = [rsid EXCEPT ![c] = lastsid + 1]
        <5>1. opens' \in [Clients -> [Files -> 0..MaxStateid]]
          <6>1. opens \in [Clients -> [Files -> 0..MaxStateid]] /\ lastsid + 1 \in 0..MaxStateid
            BY <4>2 DEF SlotInv, TypeOK
          <6> QED BY <4>2, <6>1, OpensUpdate
        <5> QED BY <4>2, <5>1 DEF SlotInv, TypeOK
      <4> QED BY <1>5, <4>1, <4>2 DEF SrvOpen
    <3>2. slot' \in [Clients -> 0..W-1]
      BY <1>5 DEF SlotInv, TypeOK, SrvOpen, Accepts
    <3> QED BY <1>5, <2>0, <3>1, <3>2 DEF SlotInv, TypeOK, SrvOpen, Accepts, Reply
  <2>2. CallInv'
    BY <1>5, <2>0 DEF SlotInv, TypeOK, SrvOpen, Accepts, Sequenced, Reply, CallInv,
            Receive, UsableOpen
  <2>3. FreshInv'
    BY <1>5, <2>0 DEF SlotInv, TypeOK, SrvOpen, Accepts, Sequenced, Reply, FreshInv,
            CallInv
  <2>4. SeqInv'
    BY <1>5, RequestFacts, <2>0 DEF SlotInv, TypeOK, SrvOpen, Accepts, Sequenced, Reply, SeqInv,
            Receive, FreshInv, CallInv
  <2>5. SlotInStep'
    BY <1>5, RequestFacts, <2>0 DEF SlotInv, TypeOK, SrvOpen, Accepts, Sequenced, Reply, SlotInStep,
            SeqInv, Pending, CallInv, FreshInv, Receive
  <2>6. NoFalseReplay'
    BY <1>5, RequestFacts, <2>0 DEF SlotInv, TypeOK, SrvOpen, Accepts, Sequenced, Reply,
            NoFalseReplay
  <2> QED BY <2>1, <2>2, <2>3, <2>4, <2>5, <2>6 DEF SlotInv
<1>6. CASE SrvClose(c)
  <2>0. PICK st \in Statuses : Reply(c, st)
    BY <1>6 DEF SrvClose
  <2>1. TypeOK'
    <3>1. opens' \in [Clients -> [Files -> 0..MaxStateid]]
      <4>1. CASE UNCHANGED opens
        BY <4>1 DEF SlotInv, TypeOK
      <4>2. CASE opens' = [opens EXCEPT ![c][cur[c].file] = 0]
        <5>1. opens \in [Clients -> [Files -> 0..MaxStateid]] /\ 0 \in 0..MaxStateid
          BY DEF SlotInv, TypeOK
        <5> QED BY <4>2, <5>1, OpensUpdate
      <4> QED BY <1>6, <4>1, <4>2 DEF SrvClose
    <3>2. slot' \in [Clients -> 0..W-1]
      BY <1>6 DEF SlotInv, TypeOK, SrvClose, Accepts
    <3> QED BY <1>6, <2>0, <3>1, <3>2 DEF SlotInv, TypeOK, SrvClose, Accepts, Reply
  <2>2. CallInv'
    BY <1>6, <2>0 DEF SlotInv, TypeOK, SrvClose, Accepts, Sequenced, Reply, CallInv,
            Receive, UsableOpen
  <2>3. FreshInv'
    BY <1>6, <2>0 DEF SlotInv, TypeOK, SrvClose, Accepts, Sequenced, Reply, FreshInv,
            CallInv
  <2>4. SeqInv'
    BY <1>6, RequestFacts, <2>0 DEF SlotInv, TypeOK, SrvClose, Accepts, Sequenced, Reply, SeqInv,
            Receive, FreshInv, CallInv
  <2>5. SlotInStep'
    BY <1>6, RequestFacts, <2>0 DEF SlotInv, TypeOK, SrvClose, Accepts, Sequenced, Reply, SlotInStep,
            SeqInv, Pending, CallInv, FreshInv, Receive
  <2>6. NoFalseReplay'
    BY <1>6, RequestFacts, <2>0 DEF SlotInv, TypeOK, SrvClose, Accepts, Sequenced, Reply,
            NoFalseReplay
  <2> QED BY <2>1, <2>2, <2>3, <2>4, <2>5, <2>6 DEF SlotInv
<1>7. CASE SrvOther(c)
  <2>0. PICK st \in Statuses : Reply(c, st)
    BY <1>7 DEF SrvOther
  <2>1. TypeOK'
    BY <1>7, <2>0 DEF SlotInv, TypeOK, SrvOther, Accepts, Sequenced, Reply, CallInv,
            Receive
  <2>2. CallInv'
    BY <1>7, <2>0 DEF SlotInv, TypeOK, SrvOther, Accepts, Sequenced, Reply, CallInv,
            Receive, UsableOpen
  <2>3. FreshInv'
    BY <1>7, <2>0 DEF SlotInv, TypeOK, SrvOther, Accepts, Sequenced, Reply, FreshInv,
            CallInv
  <2>4. SeqInv'
    BY <1>7, RequestFacts, <2>0 DEF SlotInv, TypeOK, SrvOther, Accepts, Sequenced, Reply, SeqInv,
            Receive, FreshInv, CallInv
  <2>5. SlotInStep'
    BY <1>7, RequestFacts, <2>0 DEF SlotInv, TypeOK, SrvOther, Accepts, Sequenced, Reply, SlotInStep,
            SeqInv, Pending, CallInv, FreshInv, Receive
  <2>6. NoFalseReplay'
    BY <1>7, RequestFacts, <2>0 DEF SlotInv, TypeOK, SrvOther, Accepts, Sequenced, Reply,
            NoFalseReplay
  <2> QED BY <2>1, <2>2, <2>3, <2>4, <2>5, <2>6 DEF SlotInv
<1> QED BY <1>1, <1>2, <1>3, <1>4, <1>5, <1>6, <1>7 DEF ServerStep

\* Failures and the end of the grace period.
LEMMA FailureSlot ==
    ASSUME SlotInv, LateInv, Failure \/ GraceEnds
    PROVE  SlotInv'
<1>1. ASSUME NEW c \in Clients, SendFails(c) PROVE SlotInv'
  <2>1. TypeOK'
    BY <1>1, NextSeqidFacts DEF SlotInv, TypeOK, SendFails, Idle, Finish, CallInv, Receive
  <2>2. CallInv'
    BY <1>1 DEF SlotInv, TypeOK, SendFails, Idle, Finish, CallInv, Receive, UsableOpen
  <2>3. FreshInv'
    BY <1>1 DEF SlotInv, TypeOK, SendFails, Idle, Finish, FreshInv, CallInv
  <2>4. SeqInv'
    BY <1>1, NextSeqidFacts DEF SlotInv, TypeOK, SendFails, Idle, Finish, SeqInv, Sequenced, Receive,
            FreshInv, CallInv
  <2>5. SlotInStep'
    BY <1>1, NextSeqidFacts DEF SlotInv, TypeOK, SendFails, Idle, Finish, SlotInStep, SeqInv, Pending,
            Sequenced, CallInv, FreshInv, Receive
  <2>6. NoFalseReplay'
    BY <1>1 DEF SlotInv, TypeOK, SendFails, Idle, Finish, NoFalseReplay
  <2> QED BY <2>1, <2>2, <2>3, <2>4, <2>5, <2>6 DEF SlotInv
<1>2. ASSUME NEW c \in Clients, ConnectionLost(c) PROVE SlotInv'
  <2>1. late' \in [Clients -> [call : Calls, seq : 0..W-1]]
    BY <1>2 DEF SlotInv, TypeOK, ConnectionLost
  <2>2. TypeOK'
    BY <1>2, <2>1 DEF SlotInv, TypeOK, ConnectionLost, Finish, AfterFailure
  <2> QED
    BY <1>2, <2>2 DEF SlotInv, TypeOK, CallInv, FreshInv, SeqInv, SlotInStep, NoFalseReplay,
            Pending, Sequenced, Receive, UsableOpen,
            ConnectionLost, Finish, AfterFailure
<1>3. CASE LeaseExpires
  <2>1. TypeOK'
    BY <1>3 DEF SlotInv, TypeOK, LeaseExpires, Released, FreedSlots, CallInv,
            Receive
  <2>2. CallInv'
    BY <1>3 DEF SlotInv, TypeOK, LeaseExpires, Released, FreedSlots, CallInv,
            Receive, UsableOpen
  <2>3. FreshInv'
    BY <1>3 DEF SlotInv, TypeOK, LeaseExpires, Released, FreedSlots, FreshInv,
            CallInv
  <2>4. SeqInv'
    BY <1>3 DEF SlotInv, TypeOK, LeaseExpires, Released, FreedSlots, SeqInv,
            Sequenced, Receive, FreshInv, CallInv
  <2>5. SlotInStep'
    BY <1>3 DEF SlotInv, TypeOK, LeaseExpires, Released, FreedSlots, SlotInStep,
            SeqInv, Pending, Sequenced, CallInv, FreshInv, Receive
  <2>6. NoFalseReplay'
    BY <1>3 DEF SlotInv, TypeOK, LeaseExpires, Released, FreedSlots,
            NoFalseReplay
  <2> QED BY <2>1, <2>2, <2>3, <2>4, <2>5, <2>6 DEF SlotInv
<1>4. CASE ServerRestart
  <2>1. TypeOK'
    BY <1>4 DEF SlotInv, TypeOK, ServerRestart, Released, FreedSlots,
            AfterFailure, CallInv, Receive
  <2>2. CallInv'
    BY <1>4 DEF SlotInv, TypeOK, ServerRestart, Released, FreedSlots,
            AfterFailure, CallInv, Receive, UsableOpen
  <2>3. FreshInv'
    BY <1>4 DEF SlotInv, TypeOK, ServerRestart, Released, FreedSlots,
            AfterFailure, FreshInv, CallInv
  <2>4. SeqInv'
    BY <1>4 DEF SlotInv, TypeOK, ServerRestart, Released, FreedSlots,
            AfterFailure, SeqInv, Sequenced, Receive, FreshInv, CallInv
  <2>5. SlotInStep'
    BY <1>4 DEF SlotInv, TypeOK, ServerRestart, Released, FreedSlots,
            AfterFailure, SlotInStep, SeqInv, Pending, Sequenced, CallInv,
            FreshInv, Receive
  <2>6. NoFalseReplay'
    BY <1>4 DEF SlotInv, TypeOK, ServerRestart, Released, FreedSlots,
            AfterFailure, NoFalseReplay
  <2> QED BY <2>1, <2>2, <2>3, <2>4, <2>5, <2>6 DEF SlotInv
<1>5. CASE GraceEnds
  <2>1. TypeOK'
    BY <1>5 DEF SlotInv, TypeOK, GraceEnds, CallInv, Receive
  <2>2. CallInv'
    BY <1>5 DEF SlotInv, TypeOK, GraceEnds, CallInv, Receive, UsableOpen
  <2>3. FreshInv'
    BY <1>5 DEF SlotInv, TypeOK, GraceEnds, FreshInv, CallInv
  <2>4. SeqInv'
    BY <1>5 DEF SlotInv, TypeOK, GraceEnds, SeqInv, Sequenced, Receive, FreshInv,
            CallInv
  <2>5. SlotInStep'
    BY <1>5 DEF SlotInv, TypeOK, GraceEnds, SlotInStep, SeqInv, Pending,
            Sequenced, CallInv, FreshInv, Receive
  <2>6. NoFalseReplay'
    BY <1>5 DEF SlotInv, TypeOK, GraceEnds, NoFalseReplay
  <2> QED BY <2>1, <2>2, <2>3, <2>4, <2>5, <2>6 DEF SlotInv
<1>6. ASSUME NEW c \in Clients, SrvLate(c) PROVE SlotInv'
  <2>0. UNCHANGED <<clientVars, chanVars, grace, restarts, skew>> /\ late[c].call.op # "none"
    BY <1>6 DEF SrvLate
  <2>5. ~conn[c] /\ life[c] # "new"
    BY <2>0 DEF LateInv
  <2>6. ASSUME NEW d \in Clients, d \in sess', d # c PROVE d \in sess /\ slot'[d] = slot[d]
    BY <1>6, <2>6 DEF SrvLate, SlotInv, TypeOK, FreedSlots
  <2>1. TypeOK'
    <3>1. unconf' \in Clients \cup {None} /\ conf' \in Clients \cup {None}
          /\ sess' \in SUBSET Clients
      BY <1>6 DEF SrvLate, SlotInv, TypeOK
    <3>2. slot' \in [Clients -> 0..W-1]
      BY <1>6 DEF SrvLate, SlotInv, TypeOK, FreedSlots
    <3>3. late' \in [Clients -> [call : Calls, seq : 0..W-1]]
      BY <1>6 DEF SrvLate, SlotInv, TypeOK
    <3>4. opens' \in [Clients -> [Files -> 0..MaxStateid]] /\ lastsid' \in 0..MaxStateid
      <4>1. opens \in [Clients -> [Files -> 0..MaxStateid]] /\ lastsid \in 0..MaxStateid
        BY DEF SlotInv, TypeOK
      <4>2. CASE UNCHANGED <<opens, lastsid>>
        BY <4>1, <4>2
      <4>3. CASE opens' = Released(Clients \ {c}) /\ lastsid' = lastsid
        BY <4>1, <4>3 DEF Released
      <4>4. ASSUME NEW f, OpenFile(c, f)
            PROVE  opens' \in [Clients -> [Files -> 0..MaxStateid]] /\ lastsid' \in 0..MaxStateid
        <5>1. lastsid + 1 \in 0..MaxStateid
          BY <4>1, <4>4
        <5> QED BY <4>1, <4>4, <5>1, OpensUpdate
      <4>5. ASSUME NEW f, opens' = [opens EXCEPT ![c][f] = 0], lastsid' = lastsid
            PROVE  opens' \in [Clients -> [Files -> 0..MaxStateid]] /\ lastsid' \in 0..MaxStateid
        <5>1. 0 \in 0..MaxStateid
          OBVIOUS
        <5> QED BY <4>1, <4>5, <5>1, OpensUpdate
      <4> QED BY <1>6, <4>2, <4>3, <4>4, <4>5 DEF SrvLate
    <3> QED BY <2>0, <3>1, <3>2, <3>3, <3>4 DEF SlotInv, TypeOK
  <2>2. CallInv' /\ SeqInv' /\ NoFalseReplay'
    BY <2>0 DEF SlotInv, CallInv, SeqInv, NoFalseReplay, Sequenced, Receive, UsableOpen
  <2>3. FreshInv'
    BY <2>0, <2>5, <2>6 DEF SlotInv, FreshInv, CallInv
  <2>4. SlotInStep'
    BY <2>0, <2>5, <2>6 DEF SlotInv, SlotInStep, Pending, Sequenced
  <2> QED BY <2>1, <2>2, <2>3, <2>4 DEF SlotInv
<1> QED BY <1>1, <1>2, <1>3, <1>4, <1>5, <1>6 DEF Failure

\* LateInv holds on as long as nothing happens to the objects without a connection.
LEMMA LateKept ==
    ASSUME SlotInv, LateInv, late' = late,
           \A d \in Clients : ~conn[d] /\ life[d] # "new" =>
               /\ ~conn'[d] /\ life'[d] # "new" /\ skew'[d] = skew[d]
               /\ d \in sess' => d \in sess /\ slot'[d] = slot[d]
    PROVE  LateInv'
BY DEF LateInv

\* LateInv is inductive on top of SlotInv.
LEMMA LateStep ==
    ASSUME SlotInv, LateInv, Next
    PROVE  LateInv'
<1>1. ASSUME NEW c \in Clients, UserStep(c) PROVE LateInv'
  <2>1. late' = late /\ sess' = sess /\ slot' = slot /\ skew' = skew
    BY <1>1 DEF UserStep, Construct, ConstructFails, Destroy, Query, Modify, Open, Close, Io,
                Issue
  <2>2. ASSUME NEW d \in Clients, ~conn[d], life[d] # "new"
        PROVE  ~conn'[d] /\ life'[d] # "new"
    BY <1>1, <2>2 DEF UserStep, Construct, ConstructFails, Destroy, Query, Modify, Open, Close,
                Io, Issue, SlotInv, TypeOK
  <2> QED BY <2>1, <2>2, LateKept
<1>2. ASSUME NEW c \in Clients, ClientStep(c) PROVE LateInv'
  <2>1. late' = late /\ sess' = sess /\ slot' = slot /\ skew' = skew
    BY <1>2 DEF ClientStep, BootFails, RecvExchangeId, RecvCreateSession, RecvReclaimComplete,
                RecvRoot, RecvOpen, OpenBackoff, OpenRetry, RecvClose, RecvOther, Destroyed
  <2>2. ASSUME NEW d \in Clients, ~conn[d], life[d] # "new"
        PROVE  ~conn'[d] /\ life'[d] # "new"
    BY <1>2, <2>2 DEF ClientStep, BootFails, RecvExchangeId, RecvCreateSession,
                RecvReclaimComplete, RecvRoot, RecvOpen, OpenBackoff, OpenRetry, RecvClose,
                RecvOther, Destroyed, Finish, SlotInv, TypeOK
  <2> QED BY <2>1, <2>2, LateKept
<1>3. ASSUME NEW c \in Clients, ServerStep(c) PROVE LateInv'
  <2>1. late' = late /\ conn' = conn /\ life' = life /\ conn[c]
    BY <1>3 DEF ServerStep, SrvExchangeId, SrvCreateSession, SrvDestroySession,
                SrvSequenceFails, SrvOpen, SrvClose, SrvOther, Accepts, Requested, Sequenced,
                SlotInv, CallInv
  <2>2. ASSUME NEW d \in Clients, d # c
        PROVE  skew'[d] = skew[d] /\ (d \in sess' => d \in sess /\ slot'[d] = slot[d])
    BY <1>3, <2>2 DEF ServerStep, SrvExchangeId, SrvCreateSession, SrvDestroySession,
                SrvSequenceFails, SrvOpen, SrvClose, SrvOther, Accepts, FreedSlots,
                SlotInv, TypeOK
  <2> QED BY <2>1, <2>2, LateKept
<1>4. ASSUME NEW c \in Clients, SendFails(c) PROVE LateInv'
  <2>1. late' = late /\ sess' = sess /\ slot' = slot /\ conn' = conn /\ conn[c]
    BY <1>4 DEF SendFails
  <2>2. ASSUME NEW d \in Clients, d # c PROVE life'[d] = life[d] /\ skew'[d] = skew[d]
    BY <1>4, <2>2 DEF SendFails, Finish, SlotInv, TypeOK
  <2> QED BY <2>1, <2>2, LateKept
<1>5. ASSUME NEW c \in Clients, ConnectionLost(c) PROVE LateInv'
  <2>1. /\ sess' = sess /\ slot' = slot /\ skew' = skew /\ ~conn'[c] /\ life'[c] # "new"
        /\ \A d \in Clients : d # c =>
              late'[d] = late[d] /\ conn'[d] = conn[d] /\ life'[d] = life[d]
    BY <1>5 DEF ConnectionLost, Finish, AfterFailure, SlotInv, TypeOK, FreshInv
  <2>2. late'[c] = IF chan[c] = "request" THEN [call |-> cur[c], seq |-> seq[c]] ELSE NoRequest
    BY <1>5 DEF ConnectionLost, SlotInv, TypeOK
  <2>3. /\ late'[c].call.op = "create_session" => skew[c] = 0
        /\ late'[c].call.op \in SeqOps /\ c \in sess
              => Plus(late'[c].seq, 1) = Plus(slot[c], 1 + skew[c] + 1)
    <3>1. CASE chan[c] = "request"
      <4>1. late'[c].call = cur[c] /\ late'[c].seq = seq[c]
        BY <2>2, <3>1
      <4>2. cur[c].op = "create_session" => skew[c] = 0
        BY DEF SlotInv, FreshInv
      <4>3. ASSUME cur[c].op \in SeqOps, c \in sess
            PROVE  Plus(seq[c], 1) = Plus(slot[c], 1 + skew[c] + 1)
        BY <1>5, <3>1, <4>3 DEF ConnectionLost, SlotInv, SlotInStep, SeqInv, Sequenced, Pending
      <4> QED BY <4>1, <4>2, <4>3
    <3>2. CASE chan[c] # "request"
      BY <2>2, <3>2
    <3> QED BY <3>1, <3>2
  <2> QED BY <2>1, <2>3 DEF LateInv
<1>6. ASSUME NEW c \in Clients, SrvLate(c) PROVE LateInv'
  <2>1. /\ late'[c] = NoRequest /\ conn' = conn /\ life' = life /\ skew' = skew
        /\ \A d \in Clients : d # c =>
              /\ late'[d] = late[d]
              /\ d \in sess' => d \in sess /\ slot'[d] = slot[d]
    BY <1>6 DEF SrvLate, FreedSlots, SlotInv, TypeOK
  <2> QED BY <2>1 DEF LateInv
<1>7. CASE LeaseExpires
  BY <1>7, LateKept DEF LeaseExpires, FreedSlots, SlotInv, TypeOK
<1>8. CASE ServerRestart
  BY <1>8 DEF ServerRestart, LateInv
<1>9. CASE GraceEnds
  BY <1>9, LateKept DEF GraceEnds
<1> QED BY <1>1, <1>2, <1>3, <1>4, <1>5, <1>6, <1>7, <1>8, <1>9 DEF Next, Failure

\* SlotInv and LateInv are inductive.
LEMMA SlotStep == SlotInv /\ LateInv /\ [Next]_vars => (SlotInv /\ LateInv)'
<1>1. ASSUME SlotInv, LateInv, Next PROVE (SlotInv /\ LateInv)'
  BY <1>1, UserStepSlot, ClientStepSlot, ServerStepSlot, FailureSlot, LateStep DEF Next
<1>2. ASSUME SlotInv, LateInv, UNCHANGED vars PROVE (SlotInv /\ LateInv)'
  BY <1>2 DEF vars, SlotInv, TypeOK, CallInv, FreshInv, SeqInv, SlotInStep, NoFalseReplay,
            LateInv, Pending, Sequenced, Receive, UsableOpen
<1> QED BY <1>1, <1>2

\* The initial state satisfies it.
LEMMA SlotInit == Init => SlotInv /\ LateInv
<1> SUFFICES ASSUME Init PROVE SlotInv /\ LateInv
  OBVIOUS
<1>1. TypeOK
  <2>1. conn \in [Clients -> BOOLEAN] /\ grace \in BOOLEAN
    BY DEF Init
  <2>2. opens \in [Clients -> [Files -> 0..MaxStateid]]
    BY DEF Init
  <2>3. cur \in [Clients -> Calls] /\ late \in [Clients -> [call : Calls, seq : 0..W-1]]
    BY DEF Init
  <2> QED BY <2>1, <2>2, <2>3 DEF Init, TypeOK
<1>2. CallInv /\ FreshInv
  BY DEF Init, CallInv, FreshInv, Receive
<1>3. SeqInv /\ SlotInStep /\ NoFalseReplay
  BY DEF Init, SeqInv, SlotInStep, NoFalseReplay, Sequenced
<1>4. LateInv
  BY DEF Init, LateInv
<1> QED BY <1>1, <1>2, <1>3, <1>4 DEF SlotInv

-----------------------------------------------------------------------------
(* OpenInv is inductive on top of SlotInv.                                 *)

\* The application's calls.
LEMMA UserStepOpen ==
    ASSUME SlotInv, OpenInv, NEW c \in Clients, UserStep(c)
    PROVE  OpenInv'
<1>1. CASE Construct(c)
  BY <1>1 DEF OpenInv, SlotInv, TypeOK, SidInv, ClosingInv, CloseReleases, HeldInv, Covered, CallInv,
            FreshInv, Receive, UsableOpen, CloseSucceeded,
            Construct, Send
<1>2. CASE ConstructFails(c)
  BY <1>2 DEF OpenInv, SlotInv, TypeOK, SidInv, ClosingInv, CloseReleases, HeldInv, Covered, CallInv,
            FreshInv, Receive, UsableOpen, CloseSucceeded,
            ConstructFails
<1>3. CASE Destroy(c)
  BY <1>3 DEF OpenInv, SlotInv, TypeOK, SidInv, ClosingInv, CloseReleases, HeldInv, Covered, CallInv,
            FreshInv, Receive, UsableOpen, CloseSucceeded,
            Destroy, Idle, Send
<1>4. CASE Query(c)
  BY <1>4 DEF OpenInv, SlotInv, TypeOK, SidInv, ClosingInv, CloseReleases, HeldInv, Covered, CallInv,
            FreshInv, Receive, UsableOpen, CloseSucceeded,
            Query, Issue, Idle, Compound41, Send
<1>5. CASE Modify(c)
  BY <1>5 DEF OpenInv, SlotInv, TypeOK, SidInv, ClosingInv, CloseReleases, HeldInv, Covered, CallInv,
            FreshInv, Receive, UsableOpen, CloseSucceeded,
            Modify, Issue, Idle, Compound41, Send
<1>6. ASSUME NEW f \in Files, Open(c, f) PROVE OpenInv'
  BY <1>6 DEF OpenInv, SlotInv, TypeOK, SidInv, ClosingInv, CloseReleases, HeldInv, Covered, CallInv,
            FreshInv, Receive, UsableOpen, CloseSucceeded,
            Open, Issue, Idle, Compound41, Send
<1>7. ASSUME NEW h \in Handles, Close(c, h) PROVE OpenInv'
  BY <1>7 DEF OpenInv, SlotInv, TypeOK, SidInv, ClosingInv, CloseReleases, HeldInv, Covered, CallInv,
            FreshInv, Receive, UsableOpen, CloseSucceeded,
            Close, Issue, Idle, Compound41, Send
<1>8. ASSUME NEW h \in Handles, Io(c, h) PROVE OpenInv'
  BY <1>8 DEF OpenInv, SlotInv, TypeOK, SidInv, ClosingInv, CloseReleases, HeldInv, Covered, CallInv,
            FreshInv, Receive, UsableOpen, CloseSucceeded,
            Io, Issue, Idle, Compound41, Send
<1> QED BY <1>1, <1>2, <1>3, <1>4, <1>5, <1>6, <1>7, <1>8 DEF UserStep

\* What the client does by itself.
LEMMA ClientStepOpen ==
    ASSUME SlotInv, OpenInv, NEW c \in Clients, ClientStep(c)
    PROVE  OpenInv'
<1>1. CASE BootFails(c)
  BY <1>1 DEF OpenInv, SlotInv, TypeOK, SidInv, ClosingInv, CloseReleases, HeldInv, Covered, CallInv,
            FreshInv, Receive, UsableOpen, CloseSucceeded,
            BootFails, Finish
<1>2. CASE RecvExchangeId(c)
  BY <1>2 DEF OpenInv, SlotInv, TypeOK, SidInv, ClosingInv, CloseReleases, HeldInv, Covered, CallInv,
            FreshInv, Receive, UsableOpen, CloseSucceeded,
            RecvExchangeId, Send
<1>3. CASE RecvCreateSession(c)
  BY <1>3 DEF OpenInv, SlotInv, TypeOK, SidInv, ClosingInv, CloseReleases, HeldInv, Covered, CallInv,
            FreshInv, Receive, UsableOpen, CloseSucceeded,
            RecvCreateSession, Send
<1>4. CASE RecvReclaimComplete(c)
  BY <1>4 DEF OpenInv, SlotInv, TypeOK, SidInv, ClosingInv, CloseReleases, HeldInv, Covered, CallInv,
            FreshInv, Receive, UsableOpen, CloseSucceeded,
            RecvReclaimComplete, Compound41, Send
<1>5. CASE RecvRoot(c)
  BY <1>5 DEF OpenInv, SlotInv, TypeOK, SidInv, ClosingInv, CloseReleases, HeldInv, Covered, CallInv,
            FreshInv, Receive, UsableOpen, CloseSucceeded,
            RecvRoot, Finish
<1>6. CASE RecvOpen(c)
  BY <1>6 DEF OpenInv, SlotInv, TypeOK, SidInv, ClosingInv, CloseReleases, HeldInv, Covered, CallInv,
            FreshInv, Receive, UsableOpen, CloseSucceeded,
            RecvOpen, Finish
<1>7. CASE OpenBackoff(c)
  BY <1>7 DEF OpenInv, SlotInv, TypeOK, SidInv, ClosingInv, CloseReleases, HeldInv, Covered, CallInv,
            FreshInv, Receive, UsableOpen, CloseSucceeded,
            OpenBackoff
<1>8. CASE OpenRetry(c)
  BY <1>8 DEF OpenInv, SlotInv, TypeOK, SidInv, ClosingInv, CloseReleases, HeldInv, Covered, CallInv,
            FreshInv, Receive, UsableOpen, CloseSucceeded,
            OpenRetry, Compound41, Send
<1>9. CASE RecvClose(c)
  <2>1. SidInv'
    BY <1>9 DEF OpenInv, SlotInv, TypeOK, RecvClose, Finish, SidInv, CallInv,
            Receive, UsableOpen
  <2>2. ClosingInv'
    BY <1>9 DEF OpenInv, SlotInv, TypeOK, RecvClose, Finish, ClosingInv, CallInv,
            Receive, CloseSucceeded
  <2>3. CloseReleases'
    BY <1>9 DEF OpenInv, SlotInv, TypeOK, RecvClose, Finish, CloseReleases,
            ClosingInv, SidInv, CallInv, Receive, CloseSucceeded
  <2>4. HeldInv'
    <3> DEFINE done == [file |-> cur[c].file, sid |-> cur[c].sid]
    <3>1. /\ conn' = conn /\ conf' = conf /\ opens' = opens
          /\ \A d \in Clients : files'[d] \subseteq files[d] /\ closed[d] \subseteq closed'[d]
          /\ \A d \in Clients : d # c => cur'[d] = cur[d] /\ chan'[d] = chan[d]
                                          /\ status'[d] = status[d] /\ rsid'[d] = rsid[d]
          /\ CloseSucceeded(c) => done \in closed'[c] /\ done \notin files'[c]
          /\ chan'[c] = "idle"
      BY <1>9 DEF SlotInv, TypeOK, RecvClose, Finish
    <3>2. ASSUME NEW d \in Clients, conf = d, conn[d], NEW h \in files'[d]
          PROVE  Covered(d, h)'
      <4>1. Covered(d, h) /\ h \in Handles
        BY <3>1, <3>2 DEF OpenInv, HeldInv, SlotInv, TypeOK
      <4>2. CASE d # c
        BY <3>1, <4>1, <4>2 DEF Covered, Receive, CloseSucceeded
      <4>3. CASE d = c /\ Receive(c, "close") /\ CloseSucceeded(c)
                       /\ cur[c].file = h.file /\ cur[c].sid >= h.sid
        <5>1. h # done
          BY <3>1, <3>2, <4>3
        <5>0. h = [file |-> h.file, sid |-> h.sid]
          BY <4>1
        <5>2. cur[c].sid # h.sid
          BY <4>3, <5>0, <5>1
        <5>3. cur[c].sid \in Int /\ h.sid \in Int
          BY <4>1 DEF SlotInv, TypeOK
        <5>4. done.file = h.file /\ done.sid > h.sid
          BY <4>3, <5>2, <5>3
        <5> QED BY <3>1, <4>3, <5>4 DEF Covered
      <4>4. CASE d = c /\ ~(Receive(c, "close") /\ CloseSucceeded(c)
                       /\ cur[c].file = h.file /\ cur[c].sid >= h.sid)
        BY <3>1, <4>1, <4>4 DEF Covered
      <4> QED BY <4>2, <4>3, <4>4
    <3>3. ASSUME NEW d \in Clients, conf = d, conn[d], (Receive(d, "open") /\ UsableOpen(d))'
          PROVE  (opens[d][cur[d].file] >= rsid[d])'
      BY <3>1, <3>3 DEF OpenInv, HeldInv, Receive, UsableOpen
    <3> QED BY <3>1, <3>2, <3>3 DEF HeldInv
  <2> QED BY <2>1, <2>2, <2>3, <2>4 DEF OpenInv
<1>10. CASE RecvOther(c)
  BY <1>10 DEF OpenInv, SlotInv, TypeOK, SidInv, ClosingInv, CloseReleases, HeldInv, Covered, CallInv,
            FreshInv, Receive, UsableOpen, CloseSucceeded,
            RecvOther, Finish
<1>11. CASE Destroyed(c)
  BY <1>11 DEF OpenInv, SlotInv, TypeOK, SidInv, ClosingInv, CloseReleases, HeldInv, Covered, CallInv,
            FreshInv, Receive, UsableOpen, CloseSucceeded,
            Destroyed, Idle, Finish
<1> QED BY <1>1, <1>2, <1>3, <1>4, <1>5, <1>6, <1>7, <1>8, <1>9, <1>10,
            <1>11 DEF ClientStep

\* A reply other than the success of OPEN or CLOSE says nothing about open files.
LEMMA PlainReply ==
    ASSUME SlotInv, OpenInv, NEW c \in Clients, NEW st \in Statuses, Reply(c, st),
           chan[c] = "request",
           st = "ok" => cur[c].op \notin {"open", "close"},
           UNCHANGED <<clientVars, rsid, opens, lastsid, conf>>
    PROVE  OpenInv'
<1>1. SidInv'
  BY DEF OpenInv, SlotInv, TypeOK, SidInv, Receive, UsableOpen, Reply
<1>2. ClosingInv'
  BY DEF OpenInv, SlotInv, TypeOK, ClosingInv, Receive, CloseSucceeded, Reply
<1>3. CloseReleases'
  BY DEF OpenInv, CloseReleases
<1>4. HeldInv'
  BY DEF OpenInv, SlotInv, TypeOK, HeldInv, Covered, Receive, CloseSucceeded,
            UsableOpen, Reply
<1> QED BY <1>1, <1>2, <1>3, <1>4 DEF OpenInv

\* OPEN succeeds: the file gets a stateid above every other.
LEMMA OpenReply ==
    ASSUME SlotInv, OpenInv, NEW c \in Clients, NEW st \in {"ok", "unusable"}, Reply(c, st),
           chan[c] = "request", cur[c].op = "open",
           lastsid' = lastsid + 1,
           opens' = [opens EXCEPT ![c][cur[c].file] = lastsid + 1],
           rsid' = [rsid EXCEPT ![c] = lastsid + 1],
           UNCHANGED <<clientVars, conf>>
    PROVE  OpenInv'
<1>1. /\ \A d \in Clients, f \in Files : opens[d][f] \in Nat
      /\ \A d \in Clients, f \in Files :
            \/ opens'[d][f] = opens[d][f]
            \/ d = c /\ f = cur[c].file /\ opens'[d][f] = lastsid + 1
      /\ opens'[c][cur[c].file] = lastsid + 1
      /\ cur[c].file \in Files /\ lastsid \in Nat
  BY DEF SlotInv, TypeOK, CallInv
<1>2. \A d \in Clients : files[d] \subseteq Handles /\ closed[d] \subseteq Handles
  BY DEF SlotInv, TypeOK
<1>3. SidInv'
  BY <1>1, <1>2 DEF OpenInv, SlotInv, TypeOK, SidInv, Receive, UsableOpen, Reply
<1>4. ClosingInv'
  BY <1>1 DEF OpenInv, SlotInv, TypeOK, CallInv, SidInv, ClosingInv, Receive,
            CloseSucceeded, Reply
<1>5. CloseReleases'
  BY <1>1, <1>2 DEF OpenInv, SidInv, CloseReleases
<1>6. HeldInv'
  <2>1. ASSUME NEW d \in Clients, conf = d, conn[d], NEW h \in files[d]
        PROVE  Covered(d, h)'
    <3>1. h \in Handles /\ h.sid <= lastsid /\ Covered(d, h)
      BY <1>2, <2>1 DEF OpenInv, SidInv, HeldInv
    <3>2. CASE d = c
      BY <1>1, <3>1, <3>2 DEF Covered, Receive
    <3>3. CASE d # c
      BY <1>1, <3>1, <3>3 DEF SlotInv, TypeOK, Covered, Receive, CloseSucceeded, Reply
    <3> QED BY <3>2, <3>3
  <2>2. ASSUME NEW d \in Clients, conf = d, conn[d], (Receive(d, "open") /\ UsableOpen(d))'
        PROVE  (opens[d][cur[d].file] >= rsid[d])'
    BY <1>1, <2>2 DEF OpenInv, SlotInv, TypeOK, CallInv, HeldInv, Receive, UsableOpen, Reply
  <2> QED BY <2>1, <2>2 DEF HeldInv
<1> QED BY <1>3, <1>4, <1>5, <1>6 DEF OpenInv

\* CLOSE succeeds: the file is no longer open.
LEMMA CloseReply ==
    ASSUME SlotInv, OpenInv, NEW c \in Clients, Reply(c, "ok"),
           chan[c] = "request", cur[c].op = "close",
           opens[c][cur[c].file] = cur[c].sid,
           opens' = [opens EXCEPT ![c][cur[c].file] = 0],
           UNCHANGED <<clientVars, rsid, lastsid, conf>>
    PROVE  OpenInv'
<1>1. /\ \A d \in Clients, f \in Files : opens[d][f] \in Nat
      /\ \A d \in Clients, f \in Files :
            \/ opens'[d][f] = opens[d][f]
            \/ d = c /\ f = cur[c].file /\ opens'[d][f] = 0
      /\ opens'[c][cur[c].file] = 0
      /\ cur[c].file \in Files /\ cur[c].sid # 0 /\ cur[c].sid \in Nat /\ lastsid \in Nat
  BY DEF SlotInv, TypeOK, CallInv
<1>2. \A d \in Clients : files[d] \subseteq Handles /\ closed[d] \subseteq Handles
  BY DEF SlotInv, TypeOK
<1>3. SidInv'
  BY <1>1, <1>2 DEF OpenInv, SlotInv, TypeOK, SidInv, Receive, UsableOpen, Reply
<1>4. ClosingInv'
  BY <1>1 DEF OpenInv, SlotInv, TypeOK, CallInv, ClosingInv, Receive, CloseSucceeded, Reply
<1>5. CloseReleases'
  BY <1>1, <1>2 DEF OpenInv, CloseReleases
<1>6. HeldInv'
  <2>1. ASSUME NEW d \in Clients, conf = d, conn[d], NEW h \in files[d]
        PROVE  Covered(d, h)'
    <3>1. h \in Handles /\ Covered(d, h)
      BY <1>2, <2>1 DEF OpenInv, HeldInv
    <3>2. CASE d = c
      BY <1>1, <3>1, <3>2 DEF SlotInv, TypeOK, Covered, Receive, CloseSucceeded, Reply
    <3>3. CASE d # c
      BY <1>1, <3>1, <3>3 DEF SlotInv, TypeOK, Covered, Receive, CloseSucceeded, Reply
    <3> QED BY <3>2, <3>3
  <2>2. ASSUME NEW d \in Clients, conf = d, conn[d], (Receive(d, "open") /\ UsableOpen(d))'
        PROVE  (opens[d][cur[d].file] >= rsid[d])'
    BY <1>1, <2>2 DEF OpenInv, SlotInv, TypeOK, CallInv, HeldInv, Receive, UsableOpen, Reply
  <2> QED BY <2>1, <2>2 DEF HeldInv
<1> QED BY <1>3, <1>4, <1>5, <1>6 DEF OpenInv

\* CREATE_SESSION confirms a client: the opens of all others are released, and the
\* new client has none.
LEMMA ConfirmReply ==
    ASSUME SlotInv, OpenInv, NEW c \in Clients, Reply(c, "ok"),
           chan[c] = "request", cur[c].op = "create_session",
           conf' = c, opens' = Released(Clients \ {c}),
           UNCHANGED <<clientVars, rsid, lastsid>>
    PROVE  OpenInv'
<1>1. /\ \A d \in Clients, f \in Files : opens[d][f] \in Nat
      /\ \A d \in Clients, f \in Files : opens'[d][f] = opens[d][f] \/ opens'[d][f] = 0
      /\ lastsid \in Nat
  BY DEF SlotInv, TypeOK, Released
<1>2. \A d \in Clients : files[d] \subseteq Handles /\ closed[d] \subseteq Handles
  BY DEF SlotInv, TypeOK
<1>3. SidInv'
  <2>1. ASSUME NEW d \in Clients, NEW f \in Files PROVE opens'[d][f] <= lastsid
    <3>1. opens[d][f] \in Nat /\ opens[d][f] <= lastsid
      BY <1>1 DEF OpenInv, SidInv
    <3>2. opens'[d][f] = opens[d][f] \/ opens'[d][f] = 0
      BY <1>1
    <3> QED BY <1>1, <3>1, <3>2
  <2>2. ASSUME NEW d \in Clients, (Receive(d, "open") /\ UsableOpen(d))'
        PROVE  rsid[d] <= lastsid
    BY <2>2 DEF OpenInv, SlotInv, TypeOK, SidInv, Receive, UsableOpen, Reply
  <2> QED BY <2>1, <2>2 DEF OpenInv, SidInv
<1>4. ClosingInv'
  <2>1. ASSUME NEW d \in Clients, (Receive(d, "close") /\ CloseSucceeded(d))'
        PROVE  (opens[d][cur[d].file] # cur[d].sid)'
    <3>1. d # c /\ Receive(d, "close") /\ CloseSucceeded(d)
      BY <2>1 DEF SlotInv, TypeOK, Receive, CloseSucceeded, Reply
    <3>2. cur[d].file \in Files /\ cur[d].sid # 0 /\ opens[d][cur[d].file] # cur[d].sid
      BY <3>1 DEF OpenInv, ClosingInv, SlotInv, CallInv, Receive
    <3> QED BY <1>1, <3>2
  <2> QED BY <2>1 DEF ClosingInv
<1>5. CloseReleases'
  <2>1. ASSUME NEW d \in Clients, NEW h \in closed[d] PROVE opens'[d][h.file] # h.sid
    <3>1. h.file \in Files /\ h.sid # 0 /\ opens[d][h.file] # h.sid
      BY <1>2 DEF OpenInv, CloseReleases
    <3>2. opens'[d][h.file] = opens[d][h.file] \/ opens'[d][h.file] = 0
      BY <1>1, <3>1
    <3> QED BY <3>1, <3>2
  <2> QED BY <2>1 DEF CloseReleases
<1>6. HeldInv'
  BY DEF SlotInv, CallInv, FreshInv, HeldInv, Receive
<1> QED BY <1>3, <1>4, <1>5, <1>6 DEF OpenInv

\* What the server does with a request.
LEMMA ServerStepOpen ==
    ASSUME SlotInv, OpenInv, NEW c \in Clients, ServerStep(c)
    PROVE  OpenInv'
<1>1. CASE SrvExchangeId(c)
  BY <1>1, PlainReply DEF SrvExchangeId, Requested
<1>2. CASE SrvCreateSession(c)
  BY <1>2, PlainReply, ConfirmReply DEF SrvCreateSession, Requested
<1>3. CASE SrvDestroySession(c)
  BY <1>3, PlainReply DEF SrvDestroySession, Requested
<1>4. CASE SrvSequenceFails(c)
  BY <1>4, PlainReply DEF SrvSequenceFails, Sequenced
<1>5. CASE SrvOpen(c)
  BY <1>5, PlainReply, OpenReply DEF SrvOpen, Accepts, Sequenced
<1>6. CASE SrvClose(c)
  BY <1>6, PlainReply, CloseReply DEF SrvClose, Accepts, Sequenced
<1>7. CASE SrvOther(c)
  BY <1>7, PlainReply DEF SrvOther, Accepts, Sequenced
<1> QED BY <1>1, <1>2, <1>3, <1>4, <1>5, <1>6, <1>7 DEF ServerStep

\* The server executes a request that c left behind: an entry of opens stays, is cleared, or
\* becomes a new stateid of c, and c has no connection left on which a promise is kept.
LEMMA LateOpens ==
    ASSUME SlotInv, OpenInv, NEW c \in Clients, ~conn[c], chan[c] = "idle",
           UNCHANGED <<clientVars, chanVars>>,
           lastsid' = lastsid \/ lastsid' = lastsid + 1,
           \A d \in Clients, f \in Files :
               \/ opens'[d][f] = opens[d][f]
               \/ opens'[d][f] = 0
               \/ d = c /\ lastsid' = lastsid + 1 /\ opens'[d][f] = lastsid',
           \A d \in Clients : d # c /\ conf' = d => conf = d /\ opens'[d] = opens[d]
    PROVE  OpenInv'
<1>1. /\ \A d \in Clients, f \in Files : opens[d][f] \in Nat
      /\ \A d \in Clients : files[d] \subseteq Handles /\ closed[d] \subseteq Handles
      /\ lastsid \in Nat
  BY DEF SlotInv, TypeOK
<1>2. SidInv'
  <2>1. ASSUME NEW d \in Clients, NEW f \in Files PROVE opens'[d][f] <= lastsid'
    <3>1. opens[d][f] \in Nat /\ opens[d][f] <= lastsid
      BY <1>1 DEF OpenInv, SidInv
    <3> QED BY <1>1, <3>1
  <2>2. ASSUME NEW d \in Clients, NEW h \in files[d] \cup closed[d] PROVE h.sid <= lastsid'
    <3>1. h.sid \in Nat /\ h.sid <= lastsid
      BY <1>1 DEF OpenInv, SidInv
    <3> QED BY <1>1, <3>1
  <2>3. ASSUME NEW d \in Clients PROVE cur[d].sid \in Nat /\ rsid[d] \in Nat
    BY DEF SlotInv, TypeOK
  <2>4. ASSUME NEW d \in Clients
        PROVE  /\ cur[d].op = "close" => cur[d].sid <= lastsid'
               /\ Receive(d, "open") /\ UsableOpen(d) => rsid[d] <= lastsid'
    BY <1>1, <2>3 DEF OpenInv, SidInv
  <2> QED BY <2>1, <2>2, <2>4 DEF SidInv, Receive, UsableOpen
<1>3. ClosingInv'
  <2>1. ASSUME NEW d \in Clients, Receive(d, "close"), CloseSucceeded(d)
        PROVE  opens'[d][cur[d].file] # cur[d].sid
    <3>1. /\ cur[d].file \in Files /\ cur[d].sid # 0 /\ opens[d][cur[d].file] # cur[d].sid
          /\ d # c
      BY <2>1 DEF OpenInv, ClosingInv, SlotInv, CallInv, Receive
    <3> QED BY <3>1
  <2> QED BY <2>1 DEF ClosingInv, Receive, CloseSucceeded
<1>4. CloseReleases'
  <2>1. ASSUME NEW d \in Clients, NEW h \in closed[d] PROVE opens'[d][h.file] # h.sid
    <3>1. h.file \in Files /\ h.sid # 0 /\ opens[d][h.file] # h.sid /\ h.sid <= lastsid
          /\ h.sid \in Nat
      BY <1>1 DEF OpenInv, CloseReleases, SidInv
    <3> QED BY <1>1, <3>1
  <2> QED BY <2>1 DEF CloseReleases
<1>5. HeldInv'
  BY DEF OpenInv, HeldInv, Covered, Receive, UsableOpen, CloseSucceeded
<1> QED BY <1>2, <1>3, <1>4, <1>5 DEF OpenInv

\* Failures and the end of the grace period.
LEMMA FailureOpen ==
    ASSUME SlotInv, LateInv, OpenInv, Failure \/ GraceEnds
    PROVE  OpenInv'
<1>1. ASSUME NEW c \in Clients, SendFails(c) PROVE OpenInv'
  BY <1>1 DEF OpenInv, SlotInv, TypeOK, SidInv, ClosingInv, CloseReleases, HeldInv, Covered, CallInv,
            Receive, UsableOpen, CloseSucceeded,
            SendFails, Idle, Finish
<1>2. ASSUME NEW c \in Clients, ConnectionLost(c) PROVE OpenInv'
  BY <1>2 DEF OpenInv, SlotInv, TypeOK, SidInv, ClosingInv, CloseReleases, HeldInv, Covered, CallInv,
            FreshInv, Receive, UsableOpen, CloseSucceeded,
            ConnectionLost, Finish, AfterFailure
<1>3. CASE LeaseExpires
  BY <1>3 DEF OpenInv, SlotInv, TypeOK, SidInv, ClosingInv, CloseReleases, HeldInv, Covered, CallInv,
            FreshInv, Receive, UsableOpen, CloseSucceeded,
            LeaseExpires, Released
<1>4. CASE ServerRestart
  BY <1>4 DEF OpenInv, SlotInv, TypeOK, SidInv, ClosingInv, CloseReleases, HeldInv, Covered, CallInv,
            FreshInv, Receive, UsableOpen, CloseSucceeded,
            ServerRestart, Released
<1>5. CASE GraceEnds
  BY <1>5 DEF OpenInv, SlotInv, TypeOK, SidInv, ClosingInv, CloseReleases, HeldInv, Covered, CallInv,
            FreshInv, Receive, UsableOpen, CloseSucceeded,
            GraceEnds
<1>6. ASSUME NEW c \in Clients, SrvLate(c) PROVE OpenInv'
  <2>1. /\ UNCHANGED <<clientVars, chanVars>> /\ ~conn[c] /\ chan[c] = "idle"
        /\ \A d \in Clients : d # c /\ conf' = d => conf = d
    BY <1>6 DEF SrvLate, LateInv, SlotInv, CallInv
  <2>2. CASE UNCHANGED <<opens, lastsid>>
    BY <2>1, <2>2, LateOpens
  <2>3. CASE opens' = Released(Clients \ {c}) /\ conf' = c /\ lastsid' = lastsid
    <3>1. \A d \in Clients, f \in Files : opens'[d][f] = opens[d][f] \/ opens'[d][f] = 0
      BY <2>3 DEF SlotInv, TypeOK, Released
    <3> QED BY <2>1, <2>3, <3>1, LateOpens
  <2>4. ASSUME NEW f, OpenFile(c, f) PROVE OpenInv'
    <3>1. /\ \A d \in Clients, g \in Files :
                opens'[d][g] = opens[d][g] \/ (d = c /\ opens'[d][g] = lastsid')
          /\ \A d \in Clients : d # c => opens'[d] = opens[d]
      <4>1. opens \in [Clients -> [Files -> 0..MaxStateid]]
        BY DEF SlotInv, TypeOK
      <4>2. opens' = [opens EXCEPT ![c][f] = lastsid']
        BY <2>4
      <4>3. \A d \in Clients : d # c => opens'[d] = opens[d]
        BY <4>1, <4>2
      <4>4. opens'[c] = [opens[c] EXCEPT ![f] = lastsid']
        BY <4>1, <4>2
      <4>5. ASSUME NEW g \in Files PROVE opens'[c][g] = opens[c][g] \/ opens'[c][g] = lastsid'
        BY <4>1, <4>4
      <4>6. ASSUME NEW d \in Clients, NEW g \in Files
            PROVE  opens'[d][g] = opens[d][g] \/ (d = c /\ opens'[d][g] = lastsid')
        BY <4>3, <4>5
      <4> QED BY <4>3, <4>6
    <3> QED BY <2>1, <2>4, <3>1, LateOpens
  <2>5. ASSUME NEW f, opens' = [opens EXCEPT ![c][f] = 0], lastsid' = lastsid PROVE OpenInv'
    <3>1. /\ \A d \in Clients, g \in Files : opens'[d][g] = opens[d][g] \/ opens'[d][g] = 0
          /\ \A d \in Clients : d # c => opens'[d] = opens[d]
      BY <2>5 DEF SlotInv, TypeOK
    <3> QED BY <2>1, <2>5, <3>1, LateOpens
  <2> QED BY <1>6, <2>2, <2>3, <2>4, <2>5 DEF SrvLate
<1> QED BY <1>1, <1>2, <1>3, <1>4, <1>5, <1>6 DEF Failure

\* OpenInv is inductive on top of SlotInv and LateInv.
LEMMA OpenStep == SlotInv /\ LateInv /\ OpenInv /\ [Next]_vars => OpenInv'
<1>1. ASSUME SlotInv, LateInv, OpenInv, Next PROVE OpenInv'
  BY <1>1, UserStepOpen, ClientStepOpen, ServerStepOpen, FailureOpen DEF Next
<1>2. ASSUME OpenInv, UNCHANGED vars PROVE OpenInv'
  BY <1>2 DEF vars, OpenInv, SidInv, ClosingInv, CloseReleases, HeldInv, Covered,
            Receive, UsableOpen, CloseSucceeded
<1> QED BY <1>1, <1>2

\* The initial state satisfies it.
LEMMA OpenInit == Init => OpenInv
BY DEF Init, OpenInv, SidInv, ClosingInv, CloseReleases, HeldInv, Receive

-----------------------------------------------------------------------------
(* The theorems.                                                           *)

\* SlotInv and LateInv hold in every reachable state.
THEOREM SlotInvariant == Spec => [](SlotInv /\ LateInv)
BY SlotInit, SlotStep, PTL DEF Spec

\* The state of the client objects, the connections and the server keeps its type;
\* in particular slot_seqid_ wraps within its width.
THEOREM TypeCorrect == Spec => []TypeOK
<1>1. SlotInv => TypeOK
  BY DEF SlotInv
<1> QED BY <1>1, SlotInvariant, PTL

\* The client is ahead of the slot by exactly the compounds that were lost, for any
\* number of clients and any width of the counter.
THEOREM SlotAlwaysInStep == Spec => []SlotInStep
<1>1. SlotInv => SlotInStep
  BY DEF SlotInv
<1> QED BY <1>1, SlotInvariant, PTL

\* No COMPOUND is taken for a retransmission as long as fewer than W - 1 of a
\* session are lost.
THEOREM NeverFalseReplay == Spec => []NoFalseReplay
<1>1. SlotInv => NoFalseReplay
  BY DEF SlotInv
<1> QED BY <1>1, SlotInvariant, PTL

\* OpenInv holds in every reachable state.
THEOREM OpenInvariant == Spec => [](SlotInv /\ LateInv /\ OpenInv)
<1>1. Init => SlotInv /\ LateInv /\ OpenInv
  BY SlotInit, OpenInit
<1>2. SlotInv /\ LateInv /\ OpenInv /\ [Next]_vars => (SlotInv /\ LateInv /\ OpenInv)'
  BY SlotStep, OpenStep
<1> QED BY <1>1, <1>2, PTL DEF Spec

\* close() that returns has released the open, for good.
THEOREM ClosedIsReleased == Spec => []CloseReleases
<1>1. OpenInv => CloseReleases
  BY DEF OpenInv
<1> QED BY <1>1, OpenInvariant, PTL

\* An open file of a client the server knows is lost only to its own later open or
\* close of the same file.
THEOREM HeldIsOpen == Spec => []HeldStaysOpen
<1>1. OpenInv => HeldStaysOpen
  BY DEF OpenInv, HeldInv, Covered, HeldStaysOpen, Receive
<1> QED BY <1>1, OpenInvariant, PTL

-----------------------------------------------------------------------------
(* The action property.                                                    *)

\* No step of the clients or the server executes a COMPOUND of d on a session that is
\* out of step and lives on.
LEMMA LostStep ==
    ASSUME SlotInv, LateInv, Next, NEW d \in Clients, skew[d] > 0, d \in sess, d \in sess'
    PROVE  slot'[d] = slot[d] /\ opens'[d] = opens[d]
<1>1. ASSUME NEW c \in Clients, UserStep(c) PROVE UNCHANGED <<slot, opens>>
  BY <1>1 DEF UserStep, Construct, ConstructFails, Destroy, Query, Modify, Open, Close, Io,
              Issue
<1>2. ASSUME NEW c \in Clients, ClientStep(c) PROVE UNCHANGED <<slot, opens>>
  BY <1>2 DEF ClientStep, BootFails, RecvExchangeId, RecvCreateSession, RecvReclaimComplete,
              RecvRoot, RecvOpen, OpenBackoff, OpenRetry, RecvClose, RecvOther, Destroyed
<1>3. ASSUME NEW c \in Clients, ServerStep(c)
      PROVE  slot'[d] = slot[d] /\ opens'[d] = opens[d]
  <2>1. CASE SrvExchangeId(c) \/ SrvSequenceFails(c)
    BY <2>1 DEF SrvExchangeId, SrvSequenceFails
  <2>2. CASE SrvCreateSession(c)
    <3>1. c # d
      BY <2>2 DEF SlotInv, FreshInv, TypeOK, SrvCreateSession, Requested
    <3> QED BY <2>2, <3>1 DEF SrvCreateSession
  <2>3. CASE SrvDestroySession(c)
    BY <2>3 DEF SrvDestroySession, FreedSlots
  <2>4. CASE SrvOpen(c) \/ SrvClose(c) \/ SrvOther(c)
    <3>1. Accepts(c)
      BY <2>4 DEF SrvOpen, SrvClose, SrvOther
    <3>2. skew[c] = 0
      BY <3>1, RequestFacts DEF Accepts
    <3>3. c # d
      BY <3>2
    <3>4. slot'[d] = slot[d]
      BY <3>1, <3>3 DEF Accepts, SlotInv, TypeOK
    <3>5. opens'[d] = opens[d]
      BY <2>4, <3>3 DEF SrvOpen, SrvClose, SrvOther, SlotInv, TypeOK
    <3> QED BY <3>4, <3>5
  <2> QED BY <1>3, <2>1, <2>2, <2>3, <2>4 DEF ServerStep
<1>4. ASSUME NEW c \in Clients, SrvLate(c)
      PROVE  slot'[d] = slot[d] /\ opens'[d] = opens[d]
  <2>1. CASE late[c].call.op = "exchange_id"
    BY <1>4, <2>1 DEF SrvLate
  <2>2. CASE late[c].call.op = "create_session"
    <3>1. c # d
      BY <2>2 DEF LateInv
    <3> QED BY <1>4, <2>2, <3>1 DEF SrvLate
  <2>3. CASE late[c].call.op = "destroy_session"
    BY <1>4, <2>3 DEF SrvLate, FreedSlots
  <2>4. CASE late[c].call.op \in SeqOps
    <3>1. InSequence(c, late[c].seq)
      BY <1>4, <2>4 DEF SrvLate
    <3>2. c # d
      <4>1. /\ Plus(late[c].seq, 1) = Plus(slot[c], 1 + skew[c] + 1)
            /\ late[c].seq = Plus(slot[c], 1)
        BY <2>4, <3>1 DEF LateInv
      <4>2. slot[c] \in 0..W-1 /\ late[c].seq \in 0..W-1 /\ skew[c] \in 0..MaxSkew
        BY DEF SlotInv, TypeOK
      <4>3. skew[c] = 0
        BY <4>1, <4>2, NoAlias
      <4> QED BY <4>3
    <3>3. slot'[d] = slot[d]
      BY <3>1, <3>2 DEF SlotInv, TypeOK
    <3>4. opens'[d] = opens[d]
      BY <1>4, <2>4, <3>2 DEF SrvLate, SlotInv, TypeOK
    <3> QED BY <3>3, <3>4
  <2> QED BY <1>4, <2>1, <2>2, <2>3, <2>4 DEF SrvLate
<1>5. CASE Failure \/ GraceEnds
  BY <1>4, <1>5 DEF Failure, SendFails, ConnectionLost, LeaseExpires, ServerRestart, GraceEnds,
              FreedSlots, Released
<1> QED BY <1>1, <1>2, <1>3, <1>5 DEF Next

\* A session that lost a COMPOUND executes no later one, for any width of the sequence
\* ids and any pattern of failures that loses fewer than W - 1 of them.
THEOREM LostIsLast == Spec => NothingAfterLost
<1>1. SlotInv /\ LateInv /\ [Next]_vars =>
          [\A c \in Clients : skew[c] > 0 /\ c \in sess /\ c \in sess' =>
               slot'[c] = slot[c] /\ opens'[c] = opens[c]]_vars
  BY LostStep
<1> QED BY <1>1, SlotInvariant, PTL DEF Spec, NothingAfterLost

-----------------------------------------------------------------------------
(* The refinement of OpenFiles.                                            *)

USE DEF Abstract!NoCall

\* What OpenFiles sees of one client.
LEMMA Seen ==
    ASSUME NEW c \in Clients
    PROVE  /\ FileCall[c] = IF cur[c].op \in {"open", "close"} THEN cur[c] ELSE NoCall
           /\ FileCall[c]' = IF cur'[c].op \in {"open", "close"} THEN cur'[c] ELSE NoCall
           /\ Executed[c] =
                IF chan[c] = "reply" /\ cur[c].op = "open" /\ status[c] \in {"ok", "unusable"}
                THEN rsid[c]
                ELSE IF chan[c] = "reply" /\ cur[c].op = "close" /\ status[c] = "ok"
                THEN cur[c].sid ELSE 0
           /\ Executed[c]' =
                IF chan'[c] = "reply" /\ cur'[c].op = "open" /\ status'[c] \in {"ok", "unusable"}
                THEN rsid'[c]
                ELSE IF chan'[c] = "reply" /\ cur'[c].op = "close" /\ status'[c] = "ok"
                THEN cur'[c].sid ELSE 0
BY DEF FileCall, Executed, Receive

\* What it sees of a client on which nothing changes.
SameCall(d) ==
    /\ cur'[d] = cur[d] /\ chan'[d] = chan[d] /\ status'[d] = status[d] /\ rsid'[d] = rsid[d]

\* When only the call of one client changes, so do the functions OpenFiles sees.
LEMMA OneCall ==
    ASSUME NEW c \in Clients, \A d \in Clients \ {c} : SameCall(d)
    PROVE  /\ FileCall' = [FileCall EXCEPT ![c] = FileCall[c]']
           /\ Executed' = [Executed EXCEPT ![c] = Executed[c]']
<1>1. /\ FileCall = [d \in Clients |-> FileCall[d]]
      /\ FileCall' = [d \in Clients |-> FileCall[d]']
      /\ Executed = [d \in Clients |-> Executed[d]]
      /\ Executed' = [d \in Clients |-> Executed[d]']
  BY DEF FileCall, Executed
<1>2. ASSUME NEW d \in Clients \ {c}
      PROVE  FileCall[d]' = FileCall[d] /\ Executed[d]' = Executed[d]
  BY <1>2, Seen DEF SameCall
<1> QED BY <1>1, <1>2

\* What it sees of the requests left behind.
LEMMA SeenLate ==
    /\ late' = late => LateCall' = LateCall
    /\ \A c \in Clients :
          /\ LateCall[c] =
                IF late[c].call.op \in {"open", "close"} THEN late[c].call ELSE NoCall
          /\ (\A d \in Clients \ {c} : late'[d] = late[d]) =>
                LateCall' = [LateCall EXCEPT ![c] =
                    IF late'[c].call.op \in {"open", "close"} THEN late'[c].call ELSE NoCall]
BY DEF LateCall

\* A step that leaves the handles, the opens and what is seen of c alone is invisible.
LEMMA Invisible ==
    ASSUME NEW c \in Clients, \A d \in Clients \ {c} : SameCall(d),
           FileCall[c]' = FileCall[c], Executed[c]' = Executed[c],
           UNCHANGED <<files, closed, opens, lastsid, LateCall>>
    PROVE  UNCHANGED Abstract!vars
<1>1. /\ FileCall = [d \in Clients |-> FileCall[d]]
      /\ Executed = [d \in Clients |-> Executed[d]]
  BY DEF FileCall, Executed
<1>2. FileCall' = FileCall /\ Executed' = Executed
  BY <1>1, OneCall
<1> QED BY <1>2 DEF Abstract!vars

\* So is one between two calls, or in a call, that neither opens nor closes.
LEMMA OtherCall ==
    ASSUME NEW c \in Clients, \A d \in Clients \ {c} : SameCall(d),
           cur[c].op \notin {"open", "close"}, cur'[c].op \notin {"open", "close"},
           UNCHANGED <<files, closed, opens, lastsid, LateCall>>
    PROVE  UNCHANGED Abstract!vars
<1>1. FileCall[c]' = FileCall[c] /\ Executed[c]' = Executed[c]
  BY Seen
<1> QED BY <1>1, Invisible

\* The application's calls: open and close begin.
LEMMA UserStepRefines ==
    ASSUME SlotInv, NEW c \in Clients, UserStep(c)
    PROVE  Abstract!Next \/ UNCHANGED Abstract!vars
<1>0. LateCall' = LateCall
  <2>1. late' = late
    BY DEF UserStep, Construct, ConstructFails, Destroy, Query, Modify, Open, Close, Io, Issue
  <2> QED BY <2>1, SeenLate
<1>1. CASE Construct(c) \/ ConstructFails(c)
  <2>1. cur[c] = NoCall /\ (cur' = cur \/ cur' = [cur EXCEPT ![c] = Call("exchange_id", None, 0)])
    BY <1>1 DEF SlotInv, CallInv, FreshInv, TypeOK, Construct, ConstructFails, Send
  <2>2. cur[c].op \notin {"open", "close"} /\ cur'[c].op \notin {"open", "close"}
    BY <2>1 DEF SlotInv, TypeOK
  <2>3. \A d \in Clients \ {c} : SameCall(d)
    BY <1>1 DEF SlotInv, TypeOK, Construct, ConstructFails, Send, SameCall
  <2>4. UNCHANGED <<files, closed, opens, lastsid>>
    BY <1>1 DEF Construct, ConstructFails
  <2> QED BY <1>0, <2>2, <2>3, <2>4, OtherCall
<1>2. CASE Destroy(c) \/ Query(c) \/ Modify(c) \/ \E h \in Handles : Io(c, h)
  <2>1. cur[c].op = "none" /\ cur'[c].op \in {"destroy_session", "query", "modify", "io"}
    BY <1>2 DEF SlotInv, TypeOK, Destroy, Query, Modify, Io, Issue, Idle, Compound41, Send
  <2>2. \A d \in Clients \ {c} : SameCall(d)
    BY <1>2 DEF SlotInv, TypeOK, Destroy, Query, Modify, Io, Issue, Idle, Compound41, Send,
                SameCall
  <2>3. UNCHANGED <<files, closed, opens, lastsid>>
    BY <1>2 DEF Destroy, Query, Modify, Io, Issue
  <2> QED BY <1>0, <2>1, <2>2, <2>3, OtherCall
<1>3. ASSUME NEW call, call.op \in {"open", "close"}, Issue(c, call)
      PROVE  /\ FileCall[c] = NoCall
             /\ FileCall' = [FileCall EXCEPT ![c] = call] /\ Executed' = Executed
             /\ UNCHANGED <<files, closed, opens, lastsid>>
  <2>1. /\ cur[c] = NoCall /\ cur'[c] = call /\ chan'[c] = "request"
        /\ UNCHANGED <<files, closed, opens, lastsid>>
    BY <1>3 DEF SlotInv, TypeOK, Issue, Idle, Compound41, Send
  <2>2. \A d \in Clients \ {c} : SameCall(d)
    BY <1>3 DEF SlotInv, TypeOK, Issue, Compound41, Send, SameCall
  <2>3. /\ FileCall[c] = NoCall /\ FileCall[c]' = call
        /\ Executed[c] = 0 /\ Executed[c]' = 0
    BY <1>3, <2>1, Seen
  <2>4. Executed = [d \in Clients |-> Executed[d]]
    BY DEF Executed
  <2> QED BY <2>1, <2>2, <2>3, <2>4, OneCall
<1>4. ASSUME NEW f \in Files, Open(c, f) PROVE Abstract!Next
  <2> DEFINE call == Call("open", f, 0)
  <2>1. Issue(c, call) /\ call.op = "open"
    BY <1>4 DEF Open
  <2>2. Abstract!Open(c, f)
    BY <1>0, <1>3, <2>1 DEF Abstract!Open, Abstract!Begin
  <2> QED BY <2>2 DEF Abstract!Next
<1>5. ASSUME NEW h \in Handles, Close(c, h) PROVE Abstract!Next
  <2> DEFINE call == Call("close", h.file, h.sid)
  <2>1. Issue(c, call) /\ call.op = "close" /\ h \in files[c]
    BY <1>5 DEF Close
  <2>2. Abstract!Close(c, h)
    BY <1>0, <1>3, <2>1 DEF Abstract!Close, Abstract!Begin
  <2> QED BY <2>1, <2>2 DEF Abstract!Next
<1> QED BY <1>1, <1>2, <1>4, <1>5 DEF UserStep

\* What the client does by itself: a call returns, throws, or goes on.
LEMMA ClientStepRefines ==
    ASSUME SlotInv, NEW c \in Clients, ClientStep(c)
    PROVE  Abstract!Next \/ UNCHANGED Abstract!vars
<1>0. LateCall' = LateCall
  <2>1. late' = late
    BY DEF ClientStep, BootFails, RecvExchangeId, RecvCreateSession, RecvReclaimComplete,
           RecvRoot, RecvOpen, OpenBackoff, OpenRetry, RecvClose, RecvOther, Destroyed
  <2> QED BY <2>1, SeenLate
<1>1. \A d \in Clients \ {c} : SameCall(d)
  BY DEF SlotInv, TypeOK, ClientStep, BootFails, RecvExchangeId, RecvCreateSession,
         RecvReclaimComplete, RecvRoot, RecvOpen, OpenBackoff, OpenRetry, RecvClose,
         RecvOther, Destroyed, Compound41, Send, Finish, SameCall
<1>2. CASE BootFails(c) \/ RecvExchangeId(c) \/ RecvCreateSession(c)
           \/ RecvReclaimComplete(c) \/ RecvRoot(c) \/ RecvOther(c) \/ Destroyed(c)
  <2>1. cur[c].op \notin {"open", "close"} /\ cur'[c].op \notin {"open", "close"}
    BY <1>2 DEF SlotInv, TypeOK, BootFails, RecvExchangeId, RecvCreateSession,
         RecvReclaimComplete, RecvRoot, RecvOther, Destroyed, Compound41, Send, Finish,
         Receive, Idle
  <2>2. UNCHANGED <<files, closed, opens, lastsid>>
    BY <1>2 DEF BootFails, RecvExchangeId, RecvCreateSession, RecvReclaimComplete, RecvRoot,
         RecvOther, Destroyed
  <2> QED BY <1>0, <1>1, <2>1, <2>2, OtherCall
<1>3. ASSUME chan[c] = "reply", cur[c].op \in {"open", "close"}, Finish(c, "ready")
      PROVE  /\ FileCall[c] = cur[c] /\ FileCall[c] # NoCall
             /\ FileCall' = [FileCall EXCEPT ![c] = NoCall]
             /\ Executed' = [Executed EXCEPT ![c] = 0]
  <2>1. cur'[c] = NoCall
    BY <1>3 DEF Finish, SlotInv, TypeOK
  <2>2. FileCall[c] = cur[c] /\ FileCall[c]' = NoCall /\ Executed[c]' = 0
    BY <1>3, <2>1, Seen
  <2>3. cur[c] # NoCall
    BY <1>3
  <2> QED BY <1>1, <2>2, <2>3, OneCall
<1>4. CASE RecvOpen(c)
  <2>1. /\ chan[c] = "reply" /\ cur[c].op = "open" /\ Finish(c, "ready")
        /\ UNCHANGED <<closed, opens, lastsid>>
    BY <1>4 DEF RecvOpen, Receive
  <2>2. CASE UsableOpen(c)
    <3>1. Executed[c] = rsid[c] /\ rsid[c] # 0
      BY <2>1, <2>2, Seen DEF SlotInv, CallInv, Receive, UsableOpen
    <3>2. files' = [files EXCEPT ![c] = @ \cup {[file |-> cur[c].file, sid |-> rsid[c]]}]
      BY <1>4, <2>2 DEF RecvOpen
    <3>3. Abstract!Return(c)
      BY <1>0, <1>3, <2>1, <3>1, <3>2 DEF Abstract!Return, Abstract!End
    <3> QED BY <3>3 DEF Abstract!Next
  <2>3. CASE ~UsableOpen(c)
    <3>1. files' = files
      BY <1>4, <2>3 DEF RecvOpen, SlotInv, TypeOK
    <3>2. Abstract!Throw(c)
      BY <1>0, <1>3, <2>1, <3>1 DEF Abstract!Throw, Abstract!End
    <3> QED BY <3>2 DEF Abstract!Next
  <2> QED BY <2>2, <2>3
<1>5. CASE RecvClose(c)
  <2>1. /\ chan[c] = "reply" /\ cur[c].op = "close" /\ Finish(c, "ready")
        /\ UNCHANGED <<opens, lastsid>>
    BY <1>5 DEF RecvClose, Receive
  <2>2. CASE CloseSucceeded(c)
    <3>1. Executed[c] = cur[c].sid /\ cur[c].sid # 0
      BY <2>1, <2>2, Seen DEF SlotInv, CallInv, CloseSucceeded
    <3>2. /\ files' = [files EXCEPT ![c] = @ \ {[file |-> cur[c].file, sid |-> cur[c].sid]}]
          /\ closed' = [closed EXCEPT ![c] =
                            @ \cup {[file |-> cur[c].file, sid |-> cur[c].sid]}]
      BY <1>5, <2>2 DEF RecvClose
    <3>3. Abstract!Return(c)
      BY <1>0, <1>3, <2>1, <3>1, <3>2 DEF Abstract!Return, Abstract!End
    <3> QED BY <3>3 DEF Abstract!Next
  <2>3. CASE ~CloseSucceeded(c)
    <3>1. files' = files /\ closed' = closed
      BY <1>5, <2>3 DEF RecvClose, SlotInv, TypeOK
    <3>2. Abstract!Throw(c)
      BY <1>0, <1>3, <2>1, <3>1 DEF Abstract!Throw, Abstract!End
    <3> QED BY <3>2 DEF Abstract!Next
  <2> QED BY <2>2, <2>3
<1>6. CASE OpenBackoff(c) \/ OpenRetry(c)
  <2>1. /\ cur[c].op = "open" /\ cur'[c] = cur[c]
        /\ chan[c] = "backoff" \/ status[c] = "grace"
        /\ chan'[c] \in {"backoff", "request"}
        /\ UNCHANGED <<files, closed, opens, lastsid>>
    BY <1>6 DEF OpenBackoff, OpenRetry, Receive, RetriedStatus, Compound41, Send, SlotInv,
                TypeOK, CallInv
  <2>2. FileCall[c]' = FileCall[c] /\ Executed[c]' = Executed[c]
    BY <2>1, Seen
  <2> QED BY <1>0, <1>1, <2>1, <2>2, Invisible
<1> QED BY <1>2, <1>4, <1>5, <1>6 DEF ClientStep

\* What the server does with a request: it executes an OPEN or a CLOSE, or does not.
LEMMA ServerStepRefines ==
    ASSUME SlotInv, NEW c \in Clients, ServerStep(c)
    PROVE  Abstract!Next \/ UNCHANGED Abstract!vars
<1>0. LateCall' = LateCall
  <2>1. late' = late
    BY DEF ServerStep, SrvExchangeId, SrvCreateSession, SrvDestroySession, SrvSequenceFails,
           SrvOpen, SrvClose, SrvOther, Accepts
  <2> QED BY <2>1, SeenLate
<1>1. \A d \in Clients \ {c} : SameCall(d)
  BY DEF SlotInv, TypeOK, ServerStep, SrvExchangeId, SrvCreateSession, SrvDestroySession,
         SrvSequenceFails, SrvOpen, SrvClose, SrvOther, Accepts, Reply, SameCall
<1>2. CASE SrvExchangeId(c) \/ SrvDestroySession(c) \/ SrvOther(c)
  <2>1. cur[c].op \notin {"open", "close"} /\ cur' = cur
    BY <1>2 DEF SrvExchangeId, SrvDestroySession, SrvOther, Requested, Accepts
  <2>2. UNCHANGED <<files, closed, opens, lastsid>>
    BY <1>2 DEF SrvExchangeId, SrvDestroySession, SrvOther, Accepts
  <2> QED BY <1>0, <1>1, <2>1, <2>2, OtherCall
<1>3. CASE SrvCreateSession(c)
  <2>1. cur[c].op = "create_session" /\ cur' = cur /\ UNCHANGED <<files, closed, lastsid>>
    BY <1>3 DEF SrvCreateSession, Requested
  <2>2. FileCall[c]' = FileCall[c] /\ Executed[c]' = Executed[c]
    BY <2>1, Seen
  <2>3. FileCall' = FileCall /\ Executed' = Executed
    <3>1. /\ FileCall = [d \in Clients |-> FileCall[d]]
          /\ Executed = [d \in Clients |-> Executed[d]]
      BY DEF FileCall, Executed
    <3> QED BY <1>1, <2>2, <3>1, OneCall
  <2>4. opens' = opens \/ opens' = Abstract!Released(Clients \ {c})
    BY <1>3 DEF SrvCreateSession, Released, Abstract!Released
  <2>5. CASE opens' = opens
    BY <1>0, <2>1, <2>3, <2>5 DEF Abstract!vars
  <2>6. CASE opens' = Abstract!Released(Clients \ {c})
    <3>1. Clients \ {c} \in SUBSET Clients
      OBVIOUS
    <3>2. Abstract!Forget
      BY <1>0, <2>1, <2>3, <2>6, <3>1 DEF Abstract!Forget
    <3> QED BY <3>2 DEF Abstract!Next
  <2> QED BY <2>4, <2>5, <2>6
<1>4. CASE SrvSequenceFails(c)
  <2>1. /\ chan[c] = "request" /\ cur' = cur /\ UNCHANGED <<files, closed, opens, lastsid>>
        /\ status'[c] \in {"badsession", "replay", "rejected", "misordered"}
    BY <1>4 DEF SrvSequenceFails, Sequenced, Reply, SlotInv, TypeOK
  <2>2. FileCall[c]' = FileCall[c] /\ Executed[c]' = Executed[c]
    BY <2>1, Seen
  <2> QED BY <1>0, <1>1, <2>1, <2>2, Invisible
<1>5. CASE SrvOpen(c)
  <2>1. /\ chan[c] = "request" /\ cur[c].op = "open" /\ cur' = cur
        /\ UNCHANGED <<files, closed>>
    BY <1>5 DEF SrvOpen, Accepts, Sequenced
  <2>2. FileCall[c] = cur[c] /\ FileCall[c]' = cur[c] /\ Executed[c] = 0
    BY <2>1, Seen
  <2>3. CASE lastsid' = lastsid + 1
    <3>1. /\ opens' = [opens EXCEPT ![c][cur[c].file] = lastsid + 1]
          /\ rsid'[c] = lastsid + 1 /\ chan'[c] = "reply" /\ status'[c] \in {"ok", "unusable"}
      BY <1>5, <2>3 DEF SrvOpen, Reply, SlotInv, TypeOK
    <3>2. Executed[c]' = lastsid + 1
      BY <2>1, <3>1, Seen
    <3>3. FileCall' = FileCall /\ Executed' = [Executed EXCEPT ![c] = lastsid + 1]
      <4>1. FileCall = [d \in Clients |-> FileCall[d]]
        BY DEF FileCall
      <4> QED BY <1>1, <2>2, <3>2, <4>1, OneCall
    <3>4. Abstract!ExecuteOpen(c)
      BY <1>0, <2>1, <2>2, <2>3, <3>1, <3>3
        DEF Abstract!ExecuteOpen, Abstract!OpenFile
    <3> QED BY <3>4 DEF Abstract!Next
  <2>4. CASE lastsid' # lastsid + 1
    <3>1. /\ UNCHANGED <<opens, lastsid>> /\ status'[c] \in {"grace", "err"}
      BY <1>5, <2>4 DEF SrvOpen, Reply, SlotInv, TypeOK
    <3>2. Executed[c]' = 0
      BY <2>1, <3>1, Seen
    <3> QED BY <1>0, <1>1, <2>1, <2>2, <3>1, <3>2, Invisible
  <2> QED BY <2>3, <2>4
<1>6. CASE SrvClose(c)
  <2>1. /\ chan[c] = "request" /\ cur[c].op = "close" /\ cur' = cur
        /\ UNCHANGED <<files, closed, lastsid>>
    BY <1>6 DEF SrvClose, Accepts, Sequenced
  <2>2. FileCall[c] = cur[c] /\ FileCall[c]' = cur[c] /\ Executed[c] = 0
    BY <2>1, Seen
  <2>3. CASE opens[c][cur[c].file] = cur[c].sid
    <3>1. /\ opens' = [opens EXCEPT ![c][cur[c].file] = 0]
          /\ chan'[c] = "reply" /\ status'[c] = "ok"
      BY <1>6, <2>3 DEF SrvClose, Reply, SlotInv, TypeOK
    <3>2. Executed[c]' = cur[c].sid
      BY <2>1, <3>1, Seen
    <3>3. FileCall' = FileCall /\ Executed' = [Executed EXCEPT ![c] = cur[c].sid]
      <4>1. FileCall = [d \in Clients |-> FileCall[d]]
        BY DEF FileCall
      <4> QED BY <1>1, <2>2, <3>2, <4>1, OneCall
    <3>4. Abstract!ExecuteClose(c)
      BY <1>0, <2>1, <2>2, <2>3, <3>1, <3>3
        DEF Abstract!ExecuteClose, Abstract!CloseFile
    <3> QED BY <3>4 DEF Abstract!Next
  <2>4. CASE opens[c][cur[c].file] # cur[c].sid
    <3>1. opens' = opens /\ status'[c] = "bad_stateid"
      BY <1>6, <2>4 DEF SrvClose, Reply, SlotInv, TypeOK
    <3>2. Executed[c]' = 0
      BY <2>1, <3>1, Seen
    <3> QED BY <1>0, <1>1, <2>1, <2>2, <3>1, <3>2, Invisible
  <2> QED BY <2>3, <2>4
<1> QED BY <1>2, <1>3, <1>4, <1>5, <1>6 DEF ServerStep

\* Failures and the end of the grace period: a call throws, or the server forgets.
LEMMA FailureRefines ==
    ASSUME SlotInv, LateInv, Failure \/ GraceEnds
    PROVE  Abstract!Next \/ UNCHANGED Abstract!vars
<1>1. ASSUME UNCHANGED <<cur, chan, status, rsid>>
      PROVE  FileCall' = FileCall /\ Executed' = Executed
  BY <1>1 DEF FileCall, Executed, Receive
<1>2. ASSUME NEW c \in Clients, NEW l, Finish(c, l),
             UNCHANGED <<files, closed, opens, lastsid>>,
             LateCall' = LateCall \/
                /\ Executed[c] = 0 /\ cur[c].op \in {"open", "close"}
                /\ LateCall' = [LateCall EXCEPT ![c] = cur[c]]
      PROVE  Abstract!Next \/ UNCHANGED Abstract!vars
  <2>1. cur'[c] = NoCall
    BY <1>2 DEF Finish, SlotInv, TypeOK
  <2>2. \A d \in Clients \ {c} : SameCall(d)
    BY <1>2 DEF Finish, SlotInv, TypeOK, SameCall
  <2>3. CASE cur[c].op \in {"open", "close"}
    <3>1. /\ FileCall[c] = cur[c] /\ FileCall[c] # NoCall
          /\ FileCall[c]' = NoCall /\ Executed[c]' = 0
      BY <2>1, <2>3, Seen
    <3>2. Abstract!Throw(c)
      BY <1>2, <2>2, <3>1, OneCall DEF Abstract!Throw, Abstract!End
    <3> QED BY <3>2 DEF Abstract!Next
  <2>4. CASE cur[c].op \notin {"open", "close"}
    BY <1>2, <2>1, <2>2, <2>4, OtherCall
  <2> QED BY <2>3, <2>4
<1>3. ASSUME NEW c \in Clients, SendFails(c)
      PROVE  Abstract!Next \/ UNCHANGED Abstract!vars
  BY <1>2, <1>3, SeenLate DEF SendFails
<1>4. ASSUME NEW c \in Clients, ConnectionLost(c)
      PROVE  Abstract!Next \/ UNCHANGED Abstract!vars
  <2>1. Finish(c, AfterFailure(c)) /\ UNCHANGED <<files, closed, opens, lastsid>>
    BY <1>4 DEF ConnectionLost
  <2>2. /\ late[c].call.op = "none"
        /\ \A d \in Clients \ {c} : late'[d] = late[d]
        /\ late'[c].call = IF chan[c] = "request" THEN cur[c] ELSE NoCall
    BY <1>4 DEF ConnectionLost, LateInv, SlotInv, TypeOK
  <2>3. LateCall[c] = NoCall /\ LateCall = [d \in Clients |-> LateCall[d]]
    BY <2>2, SeenLate DEF LateCall
  <2>4. CASE chan[c] = "request" /\ cur[c].op \in {"open", "close"}
    <3>1. LateCall' = [LateCall EXCEPT ![c] = cur[c]]
      BY <2>2, <2>4, SeenLate
    <3>2. Executed[c] = 0
      BY <2>4, Seen
    <3> QED BY <1>2, <2>1, <2>4, <3>1, <3>2
  <2>5. CASE ~(chan[c] = "request" /\ cur[c].op \in {"open", "close"})
    <3>1. LateCall' = [LateCall EXCEPT ![c] = NoCall]
      BY <2>2, <2>5, SeenLate
    <3>2. LateCall' = LateCall
      BY <2>3, <3>1
    <3> QED BY <1>2, <2>1, <3>2
  <2> QED BY <2>4, <2>5
<1>5. CASE GraceEnds
  BY <1>1, <1>5, SeenLate DEF GraceEnds, Abstract!vars
<1>6. CASE LeaseExpires
  <2>1. /\ opens' = Abstract!Released({conf}) /\ {conf} \in SUBSET Clients
        /\ UNCHANGED <<files, closed, lastsid, late, cur, chan, status, rsid>>
    BY <1>6 DEF LeaseExpires, Released, Abstract!Released, SlotInv, TypeOK
  <2>2. Abstract!Forget
    BY <1>1, <2>1, SeenLate DEF Abstract!Forget
  <2> QED BY <2>2 DEF Abstract!Next
<1>7. CASE ServerRestart
  <2>1. /\ opens' = Abstract!Released(Clients) /\ UNCHANGED <<files, closed, lastsid>>
        /\ \A c \in Clients : cur'[c] = NoCall /\ late'[c] = NoRequest
    BY <1>7 DEF ServerRestart, Released, Abstract!Released
  <2>2. /\ FileCall' = [c \in Clients |-> NoCall] /\ Executed' = [c \in Clients |-> 0]
        /\ LateCall' = [c \in Clients |-> NoCall]
    BY <2>1 DEF FileCall, Executed, LateCall, Receive
  <2>3. Abstract!Restart
    BY <2>1, <2>2 DEF Abstract!Restart
  <2> QED BY <2>3 DEF Abstract!Next
<1>8. ASSUME NEW c \in Clients, SrvLate(c)
      PROVE  Abstract!Next \/ UNCHANGED Abstract!vars
  <2>1. /\ UNCHANGED <<files, closed, cur, chan, status, rsid>>
        /\ late'[c].call = NoCall /\ \A d \in Clients \ {c} : late'[d] = late[d]
    BY <1>8 DEF SrvLate, SlotInv, TypeOK
  <2>2. FileCall' = FileCall /\ Executed' = Executed
    BY <1>1, <2>1
  <2>3. LateCall' = [LateCall EXCEPT ![c] = NoCall]
    BY <2>1, SeenLate
  <2>4. CASE late[c].call.op \in {"open", "close"}
    <3>1. LateCall[c] = late[c].call
      BY <2>4, SeenLate
    <3>2. \/ late[c].call.op = "open" /\ OpenFile(c, late[c].call.file)
          \/ /\ late[c].call.op = "close"
             /\ CloseFile(c, late[c].call.file, late[c].call.sid)
             /\ UNCHANGED lastsid
          \/ UNCHANGED <<opens, lastsid>>
      BY <1>8, <2>4 DEF SrvLate
    <3>3. Abstract!ExecuteLate(c)
      BY <2>1, <2>2, <2>3, <3>1, <3>2
      DEF Abstract!ExecuteLate, Abstract!OpenFile, Abstract!CloseFile
    <3> QED BY <3>3 DEF Abstract!Next
  <2>5. CASE late[c].call.op \notin {"open", "close"}
    <3>1. LateCall[c] = NoCall /\ LateCall = [d \in Clients |-> LateCall[d]]
      BY <2>5, SeenLate DEF LateCall
    <3>2. LateCall' = LateCall
      BY <2>3, <3>1
    <3>3. lastsid' = lastsid /\ (opens' = opens \/ opens' = Abstract!Released(Clients \ {c}))
      BY <1>8, <2>5 DEF SrvLate, Released, Abstract!Released
    <3>4. CASE opens' = opens
      BY <2>1, <2>2, <3>2, <3>3, <3>4 DEF Abstract!vars
    <3>5. CASE opens' = Abstract!Released(Clients \ {c})
      <4>1. Clients \ {c} \in SUBSET Clients
        OBVIOUS
      <4>2. Abstract!Forget
        BY <2>1, <2>2, <3>2, <3>3, <3>5, <4>1 DEF Abstract!Forget
      <4> QED BY <4>2 DEF Abstract!Next
    <3> QED BY <3>3, <3>4, <3>5
  <2> QED BY <2>4, <2>5
<1> QED BY <1>3, <1>4, <1>5, <1>6, <1>7, <1>8 DEF Failure

\* open and close of Nfs41Client implement OpenFiles, for any number of client objects:
\* the server executes the operation of a call at most once, and a call returns only if
\* it did.
THEOREM OpenFilesRefinement == Spec => ImplementsOpenFiles
<1>1. Init => Abstract!Init
  <2> SUFFICES ASSUME Init PROVE Abstract!Init
    OBVIOUS
  <2>1. /\ FileCall = [c \in Clients |-> NoCall] /\ Executed = [c \in Clients |-> 0]
        /\ LateCall = [c \in Clients |-> NoCall]
    BY DEF Init, FileCall, Executed, LateCall, Receive
  <2> QED BY <2>1 DEF Init, Abstract!Init
<1>2. SlotInv /\ LateInv /\ [Next]_vars => [Abstract!Next]_(Abstract!vars)
  <2> SUFFICES ASSUME SlotInv, LateInv, [Next]_vars
               PROVE  Abstract!Next \/ UNCHANGED Abstract!vars
    OBVIOUS
  <2>1. CASE UNCHANGED vars
    BY <2>1, SeenLate DEF vars, Abstract!vars, FileCall, Executed, Receive
  <2>2. CASE Next
    BY <2>2, UserStepRefines, ClientStepRefines, ServerStepRefines, FailureRefines DEF Next
  <2> QED BY <2>1, <2>2
<1> QED BY <1>1, <1>2, SlotInvariant, PTL DEF Spec, ImplementsOpenFiles, Abstract!Spec
=============================================================================
