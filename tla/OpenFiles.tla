----------------------------- MODULE OpenFiles ------------------------------
(***************************************************************************)
(* What open_read, open_write and close of Nfs41Client promise.  The       *)
(* server executes the operation of a call at most once, however often     *)
(* the client sent it; a call returns only if its operation was executed,  *)
(* and one that throws leaves the caller with the handles it had, although *)
(* the server may have executed it or do so later.  An open lasts until    *)
(* the close of that stateid, a later open of the file, or until the       *)
(* server forgets the client.  Sessions, sequence ids, grace periods and   *)
(* connections are no part of the promise.                                 *)
(***************************************************************************)
EXTENDS Integers

CONSTANTS
    Clients,       \* the client objects
    Files,         \* files they open
    None           \* no file

VARIABLES
    call,          \* the call in progress: [op, file, sid]
    done,          \* the stateid its operation opened or closed, 0 if it was not executed
    files,         \* handles returned by open and not yet closed
    closed,        \* handles whose close returned normally
    opens,         \* open stateid of each client and file on the server, 0 if closed
    lastsid,       \* stateids handed out so far
    late           \* a call that threw and that the server may still execute

vars == <<call, done, files, closed, opens, lastsid, late>>

NoCall == [op |-> "none", file |-> None, sid |-> 0]

Init ==
    /\ call = [c \in Clients |-> NoCall]
    /\ done = [c \in Clients |-> 0]
    /\ files = [c \in Clients |-> {}]
    /\ closed = [c \in Clients |-> {}]
    /\ opens = [c \in Clients |-> [f \in Files |-> 0]]
    /\ lastsid = 0
    /\ late = [c \in Clients |-> NoCall]

Begin(c, op) ==
    /\ call[c] = NoCall
    /\ call' = [call EXCEPT ![c] = op]
    /\ UNCHANGED <<done, files, closed, opens, lastsid, late>>

Open(c, f)  == Begin(c, [op |-> "open", file |-> f, sid |-> 0])
Close(c, h) == h \in files[c] /\ Begin(c, [op |-> "close", file |-> h.file, sid |-> h.sid])

OpenFile(c, f) ==
    /\ lastsid' = lastsid + 1
    /\ opens' = [opens EXCEPT ![c][f] = lastsid']

CloseFile(c, f, s) ==
    /\ opens[c][f] = s
    /\ opens' = [opens EXCEPT ![c][f] = 0]
    /\ UNCHANGED lastsid

\* The server executes the operation of the call, once.
ExecuteOpen(c) ==
    /\ call[c].op = "open"
    /\ done[c] = 0
    /\ OpenFile(c, call[c].file)
    /\ done' = [done EXCEPT ![c] = lastsid']
    /\ UNCHANGED <<call, files, closed, late>>

ExecuteClose(c) ==
    /\ call[c].op = "close"
    /\ done[c] = 0
    /\ CloseFile(c, call[c].file, call[c].sid)
    /\ done' = [done EXCEPT ![c] = call[c].sid]
    /\ UNCHANGED <<call, files, closed, late>>

\* It executes, or drops, the operation of a call that threw before it was executed.
ExecuteLate(c) ==
    /\ late' = [late EXCEPT ![c] = NoCall]
    /\ \/ late[c].op = "open" /\ OpenFile(c, late[c].file)
       \/ late[c].op = "close" /\ CloseFile(c, late[c].file, late[c].sid)
       \/ UNCHANGED <<opens, lastsid>>
    /\ UNCHANGED <<call, done, files, closed>>

\* The call ends.
End(c) ==
    /\ call[c] # NoCall
    /\ call' = [call EXCEPT ![c] = NoCall]
    /\ done' = [done EXCEPT ![c] = 0]
    /\ UNCHANGED <<opens, lastsid>>

Return(c) ==
    /\ done[c] # 0
    /\ LET h == [file |-> call[c].file, sid |-> done[c]]
       IN  \/ /\ call[c].op = "open"
              /\ files' = [files EXCEPT ![c] = @ \cup {h}]
              /\ UNCHANGED closed
           \/ /\ call[c].op = "close"
              /\ files' = [files EXCEPT ![c] = @ \ {h}]
              /\ closed' = [closed EXCEPT ![c] = @ \cup {h}]
    /\ End(c)
    /\ UNCHANGED late

Throw(c) ==
    /\ End(c)
    /\ \/ UNCHANGED late
       \/ done[c] = 0 /\ late' = [late EXCEPT ![c] = call[c]]
    /\ UNCHANGED <<files, closed>>

Released(S) == [c \in Clients |-> IF c \in S THEN [f \in Files |-> 0] ELSE opens[c]]

\* The server forgets some clients.
Forget ==
    /\ \E S \in SUBSET Clients : opens' = Released(S)
    /\ UNCHANGED <<call, done, files, closed, lastsid, late>>

\* The server restarts, and the calls in progress throw.
Restart ==
    /\ opens' = Released(Clients)
    /\ call' = [c \in Clients |-> NoCall]
    /\ done' = [c \in Clients |-> 0]
    /\ late' = [c \in Clients |-> NoCall]
    /\ UNCHANGED <<files, closed, lastsid>>

Next ==
    \/ \E c \in Clients :
          \/ \E f \in Files : Open(c, f)
          \/ \E h \in files[c] : Close(c, h)
          \/ ExecuteOpen(c) \/ ExecuteClose(c) \/ ExecuteLate(c)
          \/ Return(c) \/ Throw(c)
    \/ Forget
    \/ Restart

Spec == Init /\ [][Next]_vars
=============================================================================
