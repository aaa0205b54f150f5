------------------------------- MODULE Bench -------------------------------
(***************************************************************************)
(* The benchmark (src/tools/bench): main makes a work directory, prepares a *)
(* data file if the workload wants one, starts N worker threads, stops them *)
(* after a while, adds up what they counted and clears the directory away.  *)
(* Every thread has an NFSClient of its own.  A worker's call is a request, *)
(* its execution by the server and a reply; a worker whose connection breaks*)
(* may leave a request behind that the server executes later.  A call of    *)
(* main is one step, because main has a connection of its own too: it is    *)
(* executed and answered, or fails, executed or not.                        *)
(***************************************************************************)
EXTENDS Integers, Sequences, FiniteSets, FiniteSetsExt, TLC

CONSTANTS
    N,          \* cfg.threads
    FileSize,   \* cfg.size, in bytes
    BlockSize,  \* cfg.bs
    MaxOps      \* bound: operations of a worker before it sees the stop flag

ASSUME BenchAssumption ==
    N \in Nat \ {0} /\ FileSize \in Nat \ {0} /\ BlockSize \in Nat \ {0} /\ MaxOps \in Nat

Workers == 1 .. N

bench_data == 0     \* the shared data file, among the entries of the work directory

VARIABLES
    wl,         \* the workload
    pc,         \* where main is
    written,    \* bytes of bench_data that setup has written
    spawned,    \* threads started
    stop,       \* the stop flag
    rc,         \* exit code
    total,      \* totals of run_workload
    listing,    \* entries clear_dir still has to remove
    online,     \* main's connection works
    stage,      \* of each worker: "none", "connect", "prepare", "loop", "body", "finish", "ended"
    todo,       \* calls the worker still has to make in its stage
    call,       \* the worker's call: "none", "request", "ok", "error"
    count,      \* bytes moved by the call, from its reply
    offset,     \* file offset of the worker's next read or write
    tally,      \* reservoir size, thread_ops and thread_bytes of each worker
    workdir,    \* whether the work directory exists on the server
    entries,    \* its entries: bench_data, or the worker whose file it is
    late,       \* requests of broken connections that the server still has
    served,     \* operations and bytes the server executed for each worker
    failed,     \* workers that ended with an exception
    fault,      \* a call of the clean-up failed though nothing was in its way
    stray       \* a late request was executed during the clean-up

mainVars   == <<wl, pc, written, spawned, stop, rc, total, listing, online>>
workerVars == <<stage, todo, call, count, offset, tally>>
serverVars == <<workdir, entries, late>>
ghostVars  == <<served, failed, fault, stray>>
vars       == <<mainVars, workerVars, serverVars, ghostVars>>

Zero == [ops |-> 0, bytes |-> 0]

----------------------------------------------------------------------------
(* The workloads: the calls a worker makes before its loop, in an operation *)
(* of the loop and after it, and how the loop moves the file offset.        *)

Seqread   == [setup |-> TRUE,  prepare |-> <<"lookup">>, body |-> <<"io">>,
              finish |-> <<>>, moves |-> "sequential"]
Seqwrite  == [setup |-> FALSE, prepare |-> <<"create">>, body |-> <<"io">>,
              finish |-> <<"remove">>, moves |-> "sequential"]
Randread  == [setup |-> TRUE,  prepare |-> <<"lookup">>, body |-> <<"io">>,
              finish |-> <<>>, moves |-> "random"]
Randwrite == [setup |-> FALSE, prepare |-> <<"create", "setattr">>, body |-> <<"io">>,
              finish |-> <<"remove">>, moves |-> "random"]
Meta      == [setup |-> FALSE, prepare |-> <<>>, body |-> <<"create", "remove">>,
              finish |-> <<>>, moves |-> "none"]
Mixed     == [setup |-> TRUE,  prepare |-> <<"lookup">>, body |-> <<"io">>,
              finish |-> <<>>, moves |-> "random"]

Registry == {Seqread, Seqwrite, Randread, Randwrite, Meta, Mixed}

\* Mutant: the offset runs past the end of the file.
NextOffset_NoWrap(o, n) == o + n

\* Where the next sequential read or write starts: after what was moved, back at
\* 0 at the end of the file or when a read returned nothing.
NextOffset(o, n) ==
    IF wl.moves # "sequential" THEN o
    ELSE IF o + n >= FileSize \/ (n = 0 /\ wl.setup) THEN 0 ELSE o + n

\* Where an operation of the loop starts: a random workload draws a block.
StartOffset(o) ==
    LET blocks == FileSize \div BlockSize
    IN  IF wl.moves # "random" THEN {o}
        ELSE {b * BlockSize : b \in 0 .. (IF blocks > 0 THEN blocks - 1 ELSE 0)}

Init ==
    /\ wl \in Registry
    /\ pc = "mkdir" /\ written = 0 /\ spawned = 0 /\ stop = FALSE /\ rc = 0
    /\ total = [samples |-> 0, ops |-> 0, bytes |-> 0] /\ listing = {} /\ online = TRUE
    /\ stage = [w \in Workers |-> "none"] /\ todo = [w \in Workers |-> <<>>]
    /\ call = [w \in Workers |-> "none"] /\ count = [w \in Workers |-> 0]
    /\ offset = [w \in Workers |-> 0]
    /\ tally = [w \in Workers |-> [samples |-> 0, ops |-> 0, bytes |-> 0]]
    /\ workdir = FALSE /\ entries = {} /\ late = {}
    /\ served = [w \in Workers |-> Zero] /\ failed = {} /\ fault = FALSE /\ stray = FALSE

----------------------------------------------------------------------------
(* main *)

\* Constructor, mount and mkdir of main_client, outside of any try block.
Mkdir ==
    /\ pc = "mkdir"
    /\ pc' = IF wl.setup THEN "setup" ELSE "spawn"
    /\ workdir' = TRUE
    /\ UNCHANGED <<wl, written, spawned, stop, rc, total, listing, online, workerVars,
                   entries, late, ghostVars>>

MkdirFails ==
    /\ pc = "mkdir"
    /\ pc' = "terminated"
    /\ workdir' \in BOOLEAN
    /\ UNCHANGED <<wl, written, spawned, stop, rc, total, listing, online, workerVars,
                   entries, late, ghostVars>>

\* setup: CREATE of bench_data.
SetupCreate ==
    /\ pc = "setup" /\ online
    /\ pc' = "fill"
    /\ entries' = entries \cup {bench_data}
    /\ UNCHANGED <<wl, written, spawned, stop, rc, total, listing, online, workerVars,
                   workdir, late, ghostVars>>

\* setup: a WRITE; whatever its count says, written advances by the chunk.
SetupWrite ==
    /\ pc = "fill"
    /\ IF written < FileSize
       THEN /\ written' = written + Min({BlockSize, FileSize - written})
            /\ UNCHANGED pc
       ELSE pc' = "spawn" /\ UNCHANGED written
    /\ UNCHANGED <<wl, spawned, stop, rc, total, listing, online, workerVars, serverVars,
                   ghostVars>>

\* Mutant: an error ends the program before the clean-up.
AfterError_Exit == "exited"
\* catch in main: rc = 1, then the clean-up.
AfterError == "cleanup"

\* A call of main throws, in setup or in teardown: an error status, or the
\* connection broke, with the call executed or not.
MainFails ==
    /\ pc \in {"setup", "fill", "teardown"}
    /\ pc' = AfterError /\ rc' = 1
    /\ online' \in BOOLEAN
    /\ entries' \in IF online' \/ pc = "fill" THEN {entries}
                    ELSE {entries, IF pc = "setup" THEN entries \cup {bench_data}
                                   ELSE entries \ {bench_data}}
    /\ UNCHANGED <<wl, written, spawned, stop, total, listing, workerVars, workdir, late,
                   ghostVars>>

\* threads.emplace_back(worker, i).
Spawn ==
    /\ pc = "spawn" /\ spawned < N
    /\ spawned' = spawned + 1
    /\ stage' = [stage EXCEPT ![spawned + 1] = "connect"]
    /\ UNCHANGED <<wl, pc, written, stop, rc, total, listing, online, todo, call, count,
                   offset, tally, serverVars, ghostVars>>

\* No thread can be started.  The vector is destroyed with the threads that run,
\* which ends the program; without any, main catches the exception.
SpawnFails ==
    /\ pc = "spawn" /\ spawned < N
    /\ IF spawned > 0 THEN pc' = "terminated" /\ UNCHANGED rc
       ELSE pc' = AfterError /\ rc' = 1
    /\ UNCHANGED <<wl, written, spawned, stop, total, listing, online, workerVars, serverVars,
                   ghostVars>>

\* The sleep is over.
Stop ==
    /\ pc = "spawn" /\ spawned = N
    /\ stop' = TRUE /\ pc' = "join"
    /\ UNCHANGED <<wl, written, spawned, rc, total, listing, online, workerVars, serverVars,
                   ghostVars>>

\* Mutant: the totals are read without waiting for the workers.
Joined_NoWait == TRUE
\* Every t.join() has returned.
Joined == \A w \in Workers : stage[w] = "ended"

\* A counter added up over the threads.
Sum(t, f) == SumFunction([w \in Workers |-> t[w][f]])

\* join, merge of the reservoirs and sums of the counters.
Merge ==
    /\ pc = "join" /\ Joined
    /\ total' = [f \in {"samples", "ops", "bytes"} |-> Sum(tally, f)]
    /\ pc' = IF wl.setup THEN "teardown" ELSE "print"
    /\ UNCHANGED <<wl, written, spawned, stop, rc, listing, online, workerVars, serverVars,
                   ghostVars>>

\* teardown: REMOVE of bench_data.
Teardown ==
    /\ pc = "teardown"
    /\ pc' = "print"
    /\ entries' = entries \ {bench_data}
    /\ UNCHANGED <<wl, written, spawned, stop, rc, total, listing, online, workerVars, workdir,
                   late, ghostVars>>

\* print_result and write_csv, which only warns.
PrintResult ==
    /\ pc = "print"
    /\ pc' = "cleanup"
    /\ UNCHANGED <<wl, written, spawned, stop, rc, total, listing, online, workerVars,
                   serverVars, ghostVars>>

\* rmdir_recursive: LOOKUP of the work directory and READDIRPLUS.
ListWorkdir ==
    /\ pc = "cleanup" /\ online
    /\ listing' = entries
    /\ pc' = "clear"
    /\ UNCHANGED <<wl, written, spawned, stop, rc, total, online, workerVars, serverVars,
                   ghostVars>>

\* clear_dir: REMOVE of the next entry.  The exception of an entry that has gone
\* ends the clean-up with a warning.
RemoveEntry ==
    /\ pc = "clear"
    /\ \E e \in listing :
          IF e \in entries
          THEN entries' = entries \ {e} /\ listing' = listing \ {e} /\ UNCHANGED pc
          ELSE pc' = "exited" /\ UNCHANGED <<entries, listing>>
    /\ UNCHANGED <<wl, written, spawned, stop, rc, total, online, workerVars, workdir, late,
                   ghostVars>>

\* RMDIR, which fails with a warning if something is left.
RemoveWorkdir ==
    /\ pc = "clear" /\ listing = {}
    /\ workdir' = (entries # {})
    /\ pc' = "exited"
    /\ UNCHANGED <<wl, written, spawned, stop, rc, total, listing, online, workerVars, entries,
                   late, ghostVars>>

\* A call of the clean-up throws for a reason of its own (the connection may be
\* gone since setup or teardown); whether it was executed matters to nobody.
CleanupFails ==
    /\ pc \in {"cleanup", "clear"}
    /\ pc' = "exited"
    /\ fault' = TRUE
    /\ UNCHANGED <<wl, written, spawned, stop, rc, total, listing, online, workerVars,
                   serverVars, served, failed, stray>>

----------------------------------------------------------------------------
(* The workers, as long as the process lives *)

Alive == pc \notin {"exited", "terminated"}

\* Begins a stage with the calls cs.
Enter(w, s, cs) == stage' = [stage EXCEPT ![w] = s] /\ todo' = [todo EXCEPT ![w] = cs]

Connect(w) ==
    /\ Alive /\ stage[w] = "connect"
    /\ Enter(w, "prepare", wl.prepare)
    /\ UNCHANGED <<mainVars, call, count, offset, tally, serverVars, ghostVars>>

\* The constructor of NFSClient throws.
ConnectFails(w) ==
    /\ Alive /\ stage[w] = "connect"
    /\ Enter(w, "ended", <<>>)
    /\ failed' = failed \cup {w}
    /\ UNCHANGED <<mainVars, call, count, offset, tally, serverVars, served, fault, stray>>

Send(w) ==
    /\ Alive /\ todo[w] # <<>> /\ call[w] = "none"
    /\ call' = [call EXCEPT ![w] = "request"]
    /\ UNCHANGED <<mainVars, stage, todo, count, offset, tally, serverVars, ghostVars>>

\* The reply of a call that succeeded.
Receive(w) ==
    /\ Alive /\ call[w] = "ok"
    /\ todo' = [todo EXCEPT ![w] = Tail(@)]
    /\ call' = [call EXCEPT ![w] = "none"]
    /\ UNCHANGED <<mainVars, stage, count, offset, tally, serverVars, ghostVars>>

\* The call throws NfsError and the thread ends.
ReceiveError(w) ==
    /\ Alive /\ call[w] = "error"
    /\ Enter(w, "ended", <<>>)
    /\ call' = [call EXCEPT ![w] = "none"]
    /\ failed' = failed \cup {w}
    /\ UNCHANGED <<mainVars, count, offset, tally, serverVars, served, fault, stray>>

\* The connection breaks under a call and the thread ends.
Break(w) ==
    /\ Alive /\ call[w] # "none"
    /\ Enter(w, "ended", <<>>)
    /\ call' = [call EXCEPT ![w] = "none"]
    /\ late' = IF call[w] = "request" THEN late \cup {<<w, Head(todo[w])>>} ELSE late
    /\ failed' = failed \cup {w}
    /\ UNCHANGED <<mainVars, count, offset, tally, workdir, entries, served, fault, stray>>

\* An operation is over: res.push, bytes +=, ++ops, and the offset.
Account(w) ==
    /\ Alive /\ stage[w] = "body" /\ todo[w] = <<>>
    /\ Enter(w, "loop", <<>>)
    /\ tally' = [tally EXCEPT ![w].samples = @ + 1, ![w].ops = @ + 1, ![w].bytes = @ + count[w]]
    /\ offset' = [offset EXCEPT ![w] = NextOffset(@, count[w])]
    /\ count' = [count EXCEPT ![w] = 0]
    /\ UNCHANGED <<mainVars, call, serverVars, ghostVars>>

BeginLoop(w) ==
    /\ Alive /\ stage[w] = "prepare" /\ todo[w] = <<>>
    /\ Enter(w, "loop", <<>>)
    /\ UNCHANGED <<mainVars, call, count, offset, tally, serverVars, ghostVars>>

\* Mutant: the loop does not look at the flag.
GoesOn_Always == TRUE
\* while (!stop)
GoesOn == ~stop

Loop(w) ==
    /\ Alive /\ stage[w] = "loop" /\ GoesOn /\ tally[w].ops < MaxOps
    /\ Enter(w, "body", wl.body)
    /\ \E o \in StartOffset(offset[w]) : offset' = [offset EXCEPT ![w] = o]
    /\ UNCHANGED <<mainVars, call, count, tally, serverVars, ghostVars>>

LeaveLoop(w) ==
    /\ Alive /\ stage[w] = "loop" /\ ~GoesOn
    /\ Enter(w, "finish", wl.finish)
    /\ UNCHANGED <<mainVars, call, count, offset, tally, serverVars, ghostVars>>

EndWorker(w) ==
    /\ Alive /\ stage[w] = "finish" /\ todo[w] = <<>>
    /\ Enter(w, "ended", <<>>)
    /\ UNCHANGED <<mainVars, call, count, offset, tally, serverVars, ghostVars>>

----------------------------------------------------------------------------
(* The server *)

\* Whether call o of worker w can be executed.
Possible(w, o) ==
    CASE o = "remove"  -> w \in entries
      [] o = "lookup"  -> bench_data \in entries
      [] OTHER         -> workdir

\* What it does: entries, and n bytes moved by a read or write.
Execute(w, o, n) ==
    /\ entries' = CASE o = "create" -> entries \cup {w}
                    [] o = "remove" -> entries \ {w}
                    [] OTHER        -> entries
    /\ served' = IF stage[w] = "body" /\ Len(todo[w]) = 1
                 THEN [served EXCEPT ![w].ops = @ + 1, ![w].bytes = @ + n] ELSE served

Moved(o) == IF o = "io" THEN 0 .. BlockSize ELSE {0}

Serve(w) ==
    /\ call[w] = "request"
    /\ LET o == Head(todo[w])
       IN  /\ Possible(w, o)
           /\ \E n \in Moved(o) : Execute(w, o, n) /\ count' = [count EXCEPT ![w] = n]
    /\ call' = [call EXCEPT ![w] = "ok"]
    /\ UNCHANGED <<mainVars, stage, todo, offset, tally, workdir, late, failed, fault, stray>>

\* The call is impossible, or refused for any other reason.
Refuse(w) ==
    /\ call[w] = "request"
    /\ call' = [call EXCEPT ![w] = "error"]
    /\ UNCHANGED <<mainVars, stage, todo, count, offset, tally, serverVars, ghostVars>>

\* A request whose connection broke is executed after all, or dropped.
ServeLate ==
    /\ \E r \in late :
          /\ late' = late \ {r}
          /\ entries' = CASE Possible(r[1], r[2]) /\ r[2] = "create" -> entries \cup {r[1]}
                          [] r[2] = "remove"                         -> entries \ {r[1]}
                          [] OTHER                                   -> entries
    /\ stray' = (stray \/ (pc = "clear" /\ entries' # entries))
    /\ UNCHANGED <<mainVars, workerVars, workdir, served, failed, fault>>

DropLate ==
    /\ \E r \in late : late' = late \ {r}
    /\ UNCHANGED <<mainVars, workerVars, workdir, entries, ghostVars>>

Main == \/ Mkdir \/ MkdirFails \/ SetupCreate \/ SetupWrite \/ MainFails \/ Spawn
        \/ SpawnFails \/ Stop \/ Merge \/ Teardown \/ PrintResult
        \/ ListWorkdir \/ RemoveEntry \/ RemoveWorkdir \/ CleanupFails

Worker(w) == \/ Connect(w) \/ ConnectFails(w) \/ Send(w) \/ Receive(w) \/ ReceiveError(w)
             \/ Account(w) \/ BeginLoop(w) \/ Loop(w) \/ LeaveLoop(w) \/ EndWorker(w)

Server(w) == Serve(w) \/ Refuse(w) \/ Break(w)

Next == \/ Main
        \/ \E w \in Workers : Worker(w) \/ Server(w)
        \/ ServeLate \/ DropLate

Spec == Init /\ [][Next]_vars

\* Threads are scheduled, and a call ends (module RpcClient, CallEnds): the server
\* answers it or the connection is seen to break.
Fairness == WF_vars(Main) /\ \A w \in Workers : WF_vars(Worker(w)) /\ WF_vars(Server(w))

FairSpec == Spec /\ Fairness

----------------------------------------------------------------------------
(* Properties *)

Counts == [samples : 0 .. MaxOps, ops : 0 .. MaxOps, bytes : 0 .. MaxOps * BlockSize]

\* Types, with the offset of a read or write inside the file whatever counts the
\* server returned (the run functions of the workloads).
TypeOK ==
    /\ wl \in Registry /\ written \in 0 .. FileSize /\ spawned \in 0 .. N
    /\ stop \in BOOLEAN /\ rc \in {0, 1} /\ online \in BOOLEAN
    /\ offset \in [Workers -> 0 .. FileSize - 1]
    /\ count \in [Workers -> 0 .. BlockSize]
    /\ tally \in [Workers -> Counts]
    /\ entries \subseteq Workers \cup {bench_data} /\ listing \subseteq Workers \cup {bench_data}
    /\ failed \subseteq Workers

\* The totals that are printed are those of every worker: what the server
\* executed in their loops, but for at most one operation of each worker that
\* ended with an exception (run_workload).
TotalsExact ==
    pc \in {"teardown", "print"} =>
        LET ops   == Sum(served, "ops")
            bytes == Sum(served, "bytes")
            lost  == Cardinality(failed)
        IN  /\ total.samples = total.ops
            /\ total.ops \in ops - lost .. ops
            /\ total.bytes \in bytes - lost * BlockSize .. bytes

\* "Always clean up the workdir": however setup, workers and teardown ended, the
\* directory is gone at exit, unless a call of the clean-up failed by itself or a request
\* of a broken connection came in between.
CleanedUp == pc = "exited" /\ ~fault /\ ~stray => ~workdir

\* The benchmark ends: workers see the flag, main joins them all and clears up.
RunEnds == <>(pc \in {"exited", "terminated"})
============================================================================
