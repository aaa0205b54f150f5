-------------------------------- MODULE Rpc ---------------------------------
(***************************************************************************)
(* What TcpRpcClient::call promises its callers (rpc_client.hpp): a call   *)
(* returns the result of its own request, which the server executed once,  *)
(* or it throws.  The server may execute the request of a call that threw, *)
(* even later; a call that never ends is one that ended the process.       *)
(***************************************************************************)
EXTENDS Integers

CONSTANT W         \* transaction ids are counted modulo W (2^32 in the code)

VARIABLES
    busy,          \* a call is in progress
    req,           \* its transaction id
    runs,          \* how often the server executed it
    res            \* how the last call ended: [kind, xid]

vars == <<busy, req, runs, res>>

NoResult  == [kind |-> "none", xid |-> 0]
Thrown    == [kind |-> "thrown", xid |-> 0]
Result(x) == [kind |-> "ok", xid |-> x]

Init == busy = FALSE /\ req = 0 /\ runs = 0 /\ res = NoResult

Call ==
    /\ ~busy
    /\ busy' = TRUE
    /\ req' = (req + 1) % W
    /\ runs' = 0
    /\ res' = NoResult

Execute == runs = 0 /\ runs' = 1 /\ UNCHANGED <<busy, req, res>>

Return ==
    /\ busy
    /\ runs = 1
    /\ busy' = FALSE
    /\ res' = Result(req)
    /\ UNCHANGED <<req, runs>>

Throw ==
    /\ busy
    /\ busy' = FALSE
    /\ res' = Thrown
    /\ UNCHANGED <<req, runs>>

Next == Call \/ Execute \/ Return \/ Throw

Spec == Init /\ [][Next]_vars
=============================================================================
