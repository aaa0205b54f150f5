# TLA+ models of nfsclient

nfsclient is a userspace NFS client library in C++17 (NFSv3, NFSv4.0 and NFSv4.1
over ONC RPC on TCP), with a benchmark and three compliance suites on top. This
directory models the parts of it that keep state or take several steps, checks them
with TLC on small instances, and proves the central invariants with TLAPS.
`PROJECT.json` lists components, runs, mutants, the line map, findings, hazards and
theorems. Paths such as `nfs41_client.cpp` are below `src/src/`.

## 1. Inventory

| Component | State it keeps | Operations | What is hard | What makes it correct |
|---|---|---|---|---|
| `rpc/rpc_client` `TcpRpcClient` | socket, `xid_`, credentials | constructor, `call` (build, mark, `sendAll`, `recvRecord`, `parseReply`), `set_auth_sys`, `clear_auth` | short `send`/`recv`, fragments, broken or interrupted connection, SIGPIPE, no timeout, no reconnect, xid not compared | a call returns the result of its own request or throws; between calls the stream is empty; a call ends |
| `nfs41_client` `Nfs41Client` | `clientid_`, `sessionid_`, `slot_seqid_`, `open_seqid_`, the caller's `Nfs4File`s | constructor (EXCHANGE_ID, CREATE_SESSION, RECLAIM_COMPLETE, root), `compound41`, `do_open` with GRACE loop, `close`, data and namespace methods, destructor (DESTROY_SESSION) | sequence ids after failures and at the wrap, several objects with one owner string, lease, restart, orphaned opens | client and slot agree up to what was lost; no foreign reply; close releases; open files stay open; `do_open` ends |
| `nfs4_client` `Nfs4Client` | `clientid_`, `open_seqid_`, the caller's `Nfs4File`s | constructor (SETCLIENTID, SETCLIENTID_CONFIRM, root), `do_open` with GRACE loop and OPEN_CONFIRM, `close`, data and namespace methods, `renew` | seqids of the open-owner after failures, retry with the same seqid, seqid of CLOSE | client and owner agree up to what was lost; handles are confirmed; close releases; `do_open` ends |
| `nfs/readdir`, `nfs/readdirplus`, `readdir` of the v4 clients | cursor, verifier, entries so far | the page loop | changes between pages, cookies that lose their meaning, termination | nothing that stayed is missed, nothing is listed twice, the loop ends |
| `nfs/write`, `nfs/commit`, v4 `write`, `commit` | none | one call each | unstable data and the write verifier across a server that loses it | a caller that sees equal verifiers has its data on stable storage |
| `xdr/`, codecs in `nfs/*.cpp`, `nfs4/*.cpp` | read position | encode, decode | alignment, optional parts, results of several operations in one reply | a decoder consumes exactly what a conforming server emits |
| `nfs_client` (v3), `nfs/portmap`, `nfs/mount` | one connection | one call per method | - | as the codecs and `TcpRpcClient` |
| `tools/bench` | threads, stop flag, reservoirs | workloads, clean-up | failing workers, late workers | totals are those of all workers; the work directory is removed |
| `tools/compliance*` | list of tests | run all | - | sequential; a failing test does not stop the others |

Interaction: every method of a client is one or more `TcpRpcClient::call`s on the
object's single connection; the caller blocks. There are no threads in the library.
Concurrency comes from several client objects (threads or processes) that share a
server, and from the server, which restarts, expires leases and breaks connections.

## 2. Modules

| Module | Models | Notes |
|---|---|---|
| `Nfs41Session` | `Nfs41Client` and a v4.1 server | core module |
| `OpenFiles` | what `open_read`, `open_write` and `close` of `Nfs41Client` promise | abstract specification, refined by `Nfs41Session` |
| `Nfs41SessionProofs` | theorems about `Nfs41Session`, the refinement included | TLAPS |
| `Nfs40Open` | `Nfs4Client` and a v4.0 server | client ids, open-owners, seqids |
| `Nfs40OpenProofs` | theorems about `Nfs40Open` | TLAPS |
| `Rpc` | what `TcpRpcClient::call` promises | abstract specification |
| `RpcClient` | `TcpRpcClient` on a TCP stream | refines `Rpc` |
| `RpcClientProofs` | theorems about `RpcClient`, the refinement included | TLAPS |
| `Listing` | what a listing promises | abstract specification |
| `Readdir` | the listing loops | refines `Listing` |
| `ReaddirProofs` | theorems about `Readdir`, the refinement included | TLAPS |
| `Xdr` | `XdrEncoder`, `XdrDecoder`, and a vocabulary for layouts | no state |
| `XdrProofs` | theorems about the operators of `Xdr` and the bitmaps of `Nfs4Wire` | TLAPS |
| `Nfs3Wire` | `nfs/*.cpp`, portmap, MOUNT, `NFSClient`: what each call puts and gets | no state |
| `Nfs4Wire` | `nfs4/*.cpp`, both v4 clients: operations, COMPOUNDs, methods | no state |
| `ServerWire` | the same from the server's side, after the RFCs | external |
| `Codec` | a method call on the wire, item by item | composes the four above |
| `Bench` | `tools/bench`: main, worker threads, server | |
| `BenchProofs` | theorems about `Bench` | TLAPS |

The client modules rest on `Rpc`: a call gets its own reply, or throws because the connection is
gone, in which case the server has executed the request, may still do so, or never does.
`RpcClient` shows that `TcpRpcClient` keeps this promise as long as no signal interrupts it, and
that it does not when one does. Of the interruptions the client modules have the one that leaves the stream in
step: a `send` that fails before it has sent anything. A `send` on a connection known to be broken ends the process with
SIGPIPE (`SendKilled` of `RpcClient`). The modules above it treat it as any other broken connection, a
throw; a process that is killed there is a behaviour in which its objects take no further step.

### Nfs41Session

State and code: `slot_seqid` is `slot_seqid_`; `cur`, `chan`, `seq`, `status` and
`rsid` are the call in progress, its request or reply; `files` and `closed` are the
`Nfs4File` values in the caller's hands before and after `close()`. On the server `unconf`
and `conf` are the two records of the one owner string, `sess` and `slot` the
sessions and their slot 0, `opens` the current stateid of each client and file.

Each method is an action that sends (`Open`, `Close`, `Io`, `Query`, `Modify`,
`Destroy`; all through `Compound41` but the last) and one that reads the reply
(`RecvOpen`, `RecvClose`, `RecvOther`, `Destroyed`). The constructor is the chain
`Construct`, `RecvExchangeId`, `RecvCreateSession`, `RecvReclaimComplete`, `RecvRoot`,
with `BootFails` for any error and for an interrupted send. `OpenBackoff` and `OpenRetry` are the GRACE
loop. `SendFails` is a send, of a new COMPOUND or of the next attempt of that loop, that throws after `slot_seqid_` has moved;
`ConnectionLost` is a broken connection at any moment. It leaves a request that was not executed in `late`, and `SrvLate` lets the
server execute it at any later time, unless its session or its client record is gone by then. Server actions (`Srv...`,
`LeaseExpires`, `ServerRestart`, `GraceEnds`) are external and follow RFC 8881. The lease of a
client can lapse whenever it has no call on the server.

A client object never gets a second session or connection, so the object also names its
verifier, clientid and sessionid. `skew` counts the compounds the server did not accept;
the model follows a session for `MaxSkew` of them. `Callers` are the objects whose application calls their
methods; all objects are constructed and destroyed.

`NothingAfterLost` says what the numbers are good for: a COMPOUND takes effect only if every one before it was
accepted, so a caller whose call threw on the way never sees a later call overtake it. (It also says how little they are good
for after that, see finding 2; a client that took a number back would need a weaker statement.) `OpenFiles` is the
promise to the caller of `open` and `close` without sessions and retries: the operation of a call is executed at most once,
a call returns only if it was executed, and one that throws leaves the caller's handles alone, executed or not. `FileCall`
and `Executed` are the refinement mapping: the call in progress if it is an open or a close, and the stateid its
reply on the way reports as opened or closed. A file that was opened although `do_open` throws (GETFH failed,
the confirm flag, the connection broke) is `Throw` after `ExecuteOpen`; one that is opened or closed after the call threw is
`ExecuteLate`.

### Nfs40Open

As above with SETCLIENTID in place of the session, and with the open-owner of each client:
`owner`, `last` (the seqid last executed) and `cached` (its status). `OpenConfirm`,
`RecvOpenConfirm` and `ConfirmSendFails` are the second half of `do_open`, and `RetrySendFails` is the interrupted send of
a repeated OPEN. `late` and `SrvLate` are as in `Nfs41Session`. The server
follows RFC 7530: a new or unconfirmed owner takes any seqid (an unconfirmed one is
replaced, with its opens), a confirmed one the next; the last one again is answered
from the cache, or refused when the operation differs; NFS4ERR_GRACE counts for the seqid, the
errors of PUTFH, of the client id and of the stateid do not. `lost` counts the seqids
used in vain. Seqids are natural numbers up to `MaxSeqid`, below the wrap of the code's
`uint32_t`. `NothingAfterLost` is the same statement as for the session, of a confirmed open-owner.

### Rpc and RpcClient

The stream is a sequence of units; a mark is two units, so a `recv` can end inside it. `SendSome`,
`RecvMark` and `RecvData` take any number of units the kernel may hand over; the server
writes a reply as one fragment or as two, empty ones included; `SrvCloses` cuts the stream
at any point. After that a `send` may still succeed and go nowhere, fail (`SendFails`), or raise SIGPIPE, which nothing in
the program ignores (`SendKilled`); and a request that was already with the server is executed once (`SrvLate`), its answer lost. `Interrupts` lets `send` and `recv` fail with EINTR, after which the
object and its socket stay in use. `runs` counts executions of the current call. If the
stream is out of step, `Marks` makes the decoded mark any value.

### Readdir

A directory maps cookies to names. Between two pages other clients create and remove
entries, and the server may lay the directory out anew under a new verifier, after which a
request with the old one is refused. A page has at least one entry unless there
are none (a server with no room for one answers with an error); a server that sent
empty pages without eof would keep the loop going for ever. `stayed` and `seen` record which
names were in the directory all the time and at some time since the listing began; `Listing` is the promise in
terms of these alone: the names returned lie between the two.

### Xdr, Nfs3Wire, Nfs4Wire, ServerWire and Codec

A message is a sequence of chunks: a number of bytes, the field its writer meant, and a value where
a reader acts on it (a length, a discriminant, a count, a status, a bitmap). A layout is a
sequence of items (words, opaques, unions, value-follows lists, counted arrays, fattr4), and each
`encode_` and `decode_` function of the client is one layout, with the status check, the exceptions and
the further calls of the method (OPEN_CONFIRM) as items of their own, in the place the code has them.
`ServerWire` was written from RFC 1813, 1833, 7530 and 8881 alone, so that a slip of the client shows
as a difference. `Codec` carries both out: the client puts (`PutPlain` ... `PutFh`), the server gets, executes all
or the first k operations, puts its answer, and the client gets, checks
and returns; the reply may turn out to end at any item (`ReplyCut`). `SetTimes` and `ExclusiveMode` say whether callers set times
and pass EXCLUSIVE to `create()`: the passing run has neither, and each is a run of its own, which fails. The bytes are consumed by count, as `XdrDecoder` does: a reader that takes bytes for a field they
were not meant for has misread, which the program could not notice. All strings and opaques of one
message have the same length, 0 to 3, which covers every padding; the empty handle, which `encode_fh` turns into
PUTROOTFH, is among them. A server answers any attribute question with all, none, one, or all
but one of the attributes. The element values of a field, the procedure-specific limits of lengths and
the number of bytes a count announces are left out. Whether the server finds the COMPOUND
executable (current and saved handles, SEQUENCE first, operations of its minor version) is `Executable`.
RESTOREFH and LOOKUPP have codecs in `fh_ops.cpp` that nothing uses, and are left out.

### Bench

main is `pc`: mkdir, setup, spawn, join, merge, teardown, print, clean-up. A workload is a record of the calls
before, in and after the loop of a worker, and how it moves the offset. A worker's call is a request, its
execution and a reply; an exception ends the worker wherever it is. A broken connection leaves its
request in `late`, and the server may execute it at any later time, the clean-up included. `SpawnFails` is
`emplace_back` throwing: with threads running their destructors end the process. Calls of main are atomic,
since main's connection is its own and it waits for each; they fail executed or not. `served`, `failed`,
`fault` and `stray` only record what happened.

## 3. Runs

| Run | Shows | Bounds |
|---|---|---|
| `nfs41_session` | `TypeOK`, `SlotInStep`, `NoFalseReplay`, `CloseReleases`, `HeldStaysOpen`, `NothingAfterLost`, refinement of `OpenFiles`, and `OpenEnds` under fairness | 2 clients, one of which calls, 1 file, W = 4 (the counter wraps many times), 2 lost compounds per session, 2 stateids, 1 restart |
| `nfs41_owner` | violated: `SessionKept` | 2 clients, no failures needed |
| `nfs41_seqid` | violated: `SeqidAccepted` | W = 4, 2 lost compounds |
| `nfs40_open` | `TypeOK`, `OwnerInStep`, `NoFalseReplay`, `HeldStaysOpen`, `NothingAfterLost`, and `OpenEnds` under fairness | 2 clients, one of which opens files, 4 seqids (OPEN, OPEN_CONFIRM and OPEN, or a lost one among them), 1 restart |
| `nfs40_close` | violated: `CloseReleases` | 1 client, 1 file |
| `rpc` | `TypeOK`, `NoResidue`, `WholeRecord`, refinement of `Rpc`, `CallEnds` | requests of 2, replies of 3 units, xid modulo 3 |
| `rpc_stale` | violated: `OwnReply` | interruptions allowed |
| `readdir` | `TypeOK`, `NothingMissed`, `OnceEach`, refinement of `Listing`, `ListingEnds` | 3 names, 3 positions, pages of 2, 2 verifiers |
| `codec` | `TypeOK`, `RequestUnderstood`, `ResultUnderstood`, `Outcome` | every method, without times and without `create()` in mode EXCLUSIVE; lengths 0 to 3, lists and arrays of 0 to 2 elements, every optional part, every failing operation |
| `codec_times` | violated: `RequestUnderstood` | callers that set times |
| `codec_exclusive` | violated: `RequestUnderstood` | callers that pass EXCLUSIVE to `create()` |
| `bench` | `TypeOK`, `TotalsExact`, `CleanedUp`, and `RunEnds` under fairness | 2 threads, 2 operations each, a file of 3 bytes and blocks of 2 (so the last block is short) |

Two clients suffice for the shared owner string: its records know the last confirmed and the
last unconfirmed one. In `nfs41_session` and `nfs40_open` it is enough that one of them calls its methods (`Callers`, `Openers`): all that the
other can do to it is to take the client record over. Two stateids are two opens of one file, so that a handle is overtaken by a later open,
or by the close of a later handle, and that a stateid once closed could come back. With two lost compounds another COMPOUND is sent after the first lost one,
which the server must not execute or answer from its slot. The theorems below lift the bounds of every invariant of the passing runs but `codec`, several opens of one file included.
Two elements of a list show that reading one leaves the decoder at the next. Two threads suffice for
the benchmark: workers share only the flag, `bench_data`, which none of them removes, and the directory.
Deadlock is checked in `codec`, where a call always ends. In the other systems objects are destroyed, programs
exit, listings end and bounds are reached, so they may stop.

Fairness: the client is single-threaded and runs by itself once it has a reply, the server
answers a request it has (or the connection breaks, which also ends the call), and a
grace period ends. Where SIGPIPE ends the process a call ends with it: `CallEnds` allows that, only on a broken connection, and
`OpenEnds` and `RunEnds` are about processes that live. Nothing makes the application call, and no failure has to happen. In `Bench`
each thread is scheduled on its own, and a call of a worker ends because the server answers it or its
connection is seen to break, which is what `CallEnds` of `RpcClient` states.

### Findings

1. `nfs41_owner`: all objects register "nfsclient-v41"; a second object makes the server drop the
   session and the opens of the first (`nfs41_client.cpp:66`).
2. `nfs41_seqid`: a COMPOUND that SEQUENCE did not accept leaves `slot_seqid_` one too high, and the
   session is unusable from then on (`nfs41_client.cpp:41`).
3. `nfs40_close`: CLOSE reuses the seqid of the OPEN or OPEN_CONFIRM; a sequencing server answers
   from its cache, `close()` returns, and the file stays open (`nfs4_client.cpp:215`).
4. `rpc_stale`: after an interrupted `recv` the next call returns the late reply of the earlier one
   (`rpc_client.cpp:111`).
5. `codec_times`: `TIME_ACCESS_SET` and `TIME_MODIFY_SET` are 64 and 65 instead of 48 and 54, so a SETATTR
   or CREATE that sets a time cannot be decoded as meant (`nfs4/nfs4_attr.hpp:30`).
6. `codec_exclusive`: `create()` of the v3 client takes EXCLUSIVE as a mode, as the repository's README says, and sends a sattr3 where the
   server reads a verifier (`nfs/create.cpp:20`). `create_exclusive()` sends it right.

Met while reading, not a run:
- `nfs4/compound.hpp:59` says that `call_compound` "Throws Nfs4Error if the RPC transport fails"; it
  throws `std::runtime_error`.
- `nfs4/session41.cpp:17` gives EXCHGID4_FLAG_USE_NON_PNFS as 0x00020000; RFC 8881 has 0x00010000
  (0x00020000 is USE_PNFS_MDS). `Codec` does not look at the value of the flags.
- The `setup` of the benchmark's read workloads advances by the chunk sent, not by the count
  written, so "fill bench_data with cfg.size bytes" needs a server that never writes short.
- `send` at `rpc_client.cpp:139` has no MSG_NOSIGNAL and nothing ignores SIGPIPE, so a call on a connection known to be
  broken can end the process instead of throwing "send() failed". The destructor of `Nfs41Client` makes such
  a call (DESTROY_SESSION) even if the object's connection has failed before.
- A benchmark whose workers all failed still exits with 0.
- When `connect()` fails the constructor of `TcpRpcClient` throws with the socket open (`rpc_client.cpp:30`).

## 4. Proofs

Every invariant and action property of the passing runs other than `codec`, and the three refinements (`Rpc`, `OpenFiles`, `Listing`), is proved for all values of
the constants that the named assumptions allow. The proof module of a specification states its inductive
invariant, has one lemma or step per action for it, and derives the theorems from it. Each inductive
invariant was also checked by TLC on the instance of its run. `XdrProofs` is about operators.

| Module | Theorem | States |
|---|---|---|
| `Nfs41SessionProofs` | `TypeCorrect` | `Spec => []TypeOK` |
| | `SlotAlwaysInStep` | `Spec => []SlotInStep` |
| | `NeverFalseReplay` | `Spec => []NoFalseReplay` |
| | `ClosedIsReleased` | `Spec => []CloseReleases` |
| | `HeldIsOpen` | `Spec => []HeldStaysOpen` |
| | `LostIsLast` | `Spec => NothingAfterLost` |
| | `OpenFilesRefinement` | `Spec => ImplementsOpenFiles` |
| `Nfs40OpenProofs` | `TypeCorrect` | `Spec => []TypeOK` |
| | `InStep` | `Spec => []OwnerInStep` |
| | `NeverReplayed` | `Spec => []NoFalseReplay` |
| | `HeldFilesStayOpen` | `Spec => []HeldStaysOpen` |
| | `CloseNeverInStep` | `Spec => []CloseOutOfStep` |
| | `LostIsLast` | `Spec => NothingAfterLost` |
| `RpcClientProofs` | `TypeCorrect` | `Interrupts = FALSE`: `Spec => []TypeOK` |
| | `NothingLeft` | `Interrupts = FALSE`: `Spec => []NoResidue` |
| | `RecordWhole` | `Interrupts = FALSE`: `Spec => []WholeRecord` |
| | `RpcRefinement` | `Interrupts = FALSE`: `Spec => ImplementsRpc` |
| `ReaddirProofs` | `TypeCorrect` | `Spec => []TypeOK` |
| | `ListingComplete` | `Spec => []NothingMissed` |
| | `ListedOnce` | `Spec => []OnceEach` |
| | `ListingRefinement` | `Spec => ImplementsListing` |
| `BenchProofs` | `TypeCorrect` | `Spec => []TypeOK` |
| | `DirectoryGone` | `Spec => []CleanedUp` |
| | `TotalsCorrect` | `Spec => []TotalsExact` |
| `XdrProofs` | `OpaqueRoundTrip` | what `get_opaque` reads of `put_opaque(t, n) \o rest` |
| | `OpaqueAligned` | the size of `put_opaque(t, n)` |
| | `OpaqueCut` | `get_opaque` of an opaque cut anywhere fails |
| | `WordsRoundTrip`, `WordsCut` | the same of runs of words |
| | `NestedRoundTrip` | what `get_opaque` reads of `put_nested(t, body) \o rest` |
| | `BitmapMeans` | `bitmap4_test(make_bitmap4(ids), id) <=> id \in ids` |
| | `BitmapRoundTrip` | what `decode_bitmap4` reads of `encode_bitmap4(bm) \o rest` |
| | `FattrRoundTrip` | what a reader finds in a fattr4 |

### Nfs41SessionProofs

For every set of clients and files, every width W >= 2 and all bounds with MaxSkew <= W - 2.
`NoFalseReplay` is not inductive. `SlotInv` adds what a pending call says about the object
(`CallInv`), that an object whose session is not in use yet has a fresh one or none (`FreshInv`), and that the
request carries the number before `slot_seqid_` (`SeqInv`); with `SlotInStep` the lemma `NoAlias` gives that a
request at most W - 2 ahead cannot equal the last accepted number. The assumption on MaxSkew is needed:
after W - 1 lost compounds the numbers would meet again.

`CloseReleases` and `HeldStaysOpen` need `OpenInv` on top: stateids are handed out in order
(`SidInv`), a successful CLOSE whose reply is on its way has closed its stateid (`ClosingInv`), and
the open behind a handle is current, replaced, or closed through a handle that is no
older (`HeldInv`). `LateInv` is about a request left behind by a broken connection: its object
has no working connection any more, so executing it disturbs no handle that `HeldStaysOpen` is about, and it is `skew` + 1 ahead of the
slot as long as the session lives, like one in flight.

`LostIsLast` follows from `SlotInv` in each state: a request of a session with `skew` > 0 is 2 to W - 1 ahead of the slot
modulo W, so it is not the next number and the server does not execute it, on its connection or late; every other action leaves
the slot and the opens of a session that lives on alone. `OpenFilesRefinement` maps `Open` and
`Close` to their namesakes of `OpenFiles`; the `SrvOpen` and `SrvClose` that execute to `ExecuteOpen` and `ExecuteClose`;
`RecvOpen` and `RecvClose` to `Return` or `Throw`; `ConnectionLost` during such a call to `Throw`; `SrvLate` to `ExecuteLate`; `ServerRestart` to
`Restart`, and what makes the server drop clients to `Forget`. All other steps stutter (`Invisible`, `OtherCall`), the retry after
NFS4ERR_GRACE among them. What `SlotInv` adds is that a reply from the slot's cache never arrives,
so a success read by `do_open` or `close` is the one of this call.

### Nfs40OpenProofs

For every set of clients and files, all clients opening files included (`Openers` is any subset of them), and any numbers of seqids and restarts. `OwnerInv` is `TypeOK` and, for each client,
`LocalInv`; it is inductive together with `LateInv`, which says of a request left behind by a broken connection what `LocalInv` says of one in flight. That the retry of an OPEN with the same seqid after NFS4ERR_GRACE is safe is the point that takes
most: NFS4ERR_GRACE counts for the seqid, so a confirmed owner would answer the retry from its
cache. `GraceInv` states why it does not: no owner is confirmed during a grace period, nor becomes so
while `do_open` waits; `LostInv` adds that a waiting `do_open` has no lost seqid behind it. `HeldInv` ties every
handle to a confirmed owner that has executed its seqid.

From this follows `CloseNeverInStep`: whenever a CLOSE reaches a server that knows the client, on its connection or after that broke, the owner is confirmed and the
seqid sent is not beyond the last one executed. Finding 3 is therefore not an accident of one
schedule: a server that sequences never executes a CLOSE of this client.

In `LostIsLast` an OPEN sent after a lost seqid is beyond the number the owner waits for (`StepInv`), a confirmed owner
executes no OPEN_CONFIRM, and a CLOSE is behind that number, by the same fact as `CloseNeverInStep`.

### RpcClientProofs

For every length of a CALL and a REPLY, every number W >= 2 of transaction ids and every way the server and the kernel cut the
stream, under the hypothesis that no signal interrupts a call. The hypothesis
is needed: `rpc_stale` is the counterexample without it. `CallInv` says where the call stands:
nothing under way; the CALL sent up to a point (`Sending`, which a process ended by SIGPIPE never leaves, and `Asked`), with what the server has of it (`AtPeer`); executed (`Executed`); the connection lost (`Lost`); or p units
of the REPLY read, inside one of its fragments (`Reading`). `Carries` describes a reply as a
stream with the set of its fragments, so that one step of `recvRecord` is the same in each
of them.

`RpcRefinement` maps `Call` to `Call` of `Rpc`, `SrvTake` and `SrvLate` to `Execute`, `ParseReply` to
`Return` or `Throw`, `SendFails` and `RecvFails` to `Throw`; all other steps stutter, `SendKilled` included: a killed call neither returns nor throws. That a
reply in hand has the xid of the call and that it was executed once comes from `CallInv`, not from a comparison in
the code, which has none.

### ReaddirProofs

For every finite or infinite set of names and all bounds. `ListingInv` adds to `OnceEach` that the cookies of a page lie
behind the cursor and grow (`OrderInv`), and to `NothingMissed` that a name that stayed is listed, in the
page in hand, or at a position ahead of the cursor as long as the verifier of the client is
the server's (`AheadInv`). After a new layout the cursor means nothing; `PageInv` and the refusal of the
old verifier keep such a listing from being returned. `SeenInv` is the other direction: what is listed or in
the page in hand was in the directory at some time since the listing began.

`ListingRefinement` maps `Start` to `Begin`, `Change` to `Modify`, the last `ReceivePage` to `Return` and `ReceiveError` to `Throw`;
pages before the last, the server's steps and new layouts stutter (`StepRefines`). `AheadInv` and `SeenInv` after the step give
the two bounds on the set returned.

### BenchProofs

For every number of threads, file and block size. `BenchInv` ties the phase of main to the stages of the workers (`PhaseInv`), what main
lists to what is in the directory (`CleanInv`), and per worker what it has counted to what the server has
executed: one operation more exactly between its execution and `Account` (`ServedInv`). `TotalsExact` sums
this over the workers with `SumFunction`, a recursive function on sets. The lemmas `SumIs` and `SumsClose` say
that it is a sum and that sums of close terms are close; they are shown by taking a smallest
set for which they fail (`Smallest`), which replaces an induction.

### XdrProofs

For opaques and strings of every length, runs of words, bitmaps and attribute lists of every size, in front of any
other bytes. The run `codec` has lengths of 0 to 3 and the attributes the client names; these theorems say that nothing
depends on this. They are about the operators `Codec` is built from: an item that is read as the item that was
put leaves the decoder at the next item, and a message cut short within one is noticed. `Size` and `get_words` are folds;
`SizeIs` and `WordsAre` unroll them into their values on prefixes (`FoldExists` shows that the recursion has a
solution), and the rest is by a smallest prefix for which a claim would fail.

### Only model-checked

- Liveness: `OpenEnds` (both clients), `CallEnds`, `ListingEnds`, `RunEnds`. They rest on fairness and ENABLED.
- The invariants of `Codec`: `TypeOK`, `RequestUnderstood`, `ResultUnderstood`, `Outcome`. They compare two concrete
  descriptions of all methods and operations of three clients; a proof would be the case analysis TLC carries out. What depends on
  a size is in `XdrProofs`.

## 5. Plan

Done: all modules of section 2, and the proofs of section 4. Left: the lists and arrays of `Codec` for any number of elements.

### Not modelled

- The write-behind protocol. WRITE and COMMIT are single calls of the library (in `Codec`); keeping
  unstable data and comparing verifiers is left to the caller, of whom there is no code here. The v3
  interface returns both verifiers; the v4 `write()` drops committed and verf, so its caller
  cannot do it.
- The compliance suites: assertions about a server, run one after the other.
- The wording of errors, host name resolution, the command line of the tools, latencies and their
  percentiles.
