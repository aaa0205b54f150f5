------------------------------ MODULE Readdir -------------------------------
(***************************************************************************)
(* The auto-paginated directory listings: nfs3::readdir (nfs/readdir.cpp), *)
(* and with the same loop nfs3::readdirplus and readdir of Nfs4Client and  *)
(* Nfs41Client.  Other clients change the directory between two pages.     *)
(*                                                                         *)
(* TcpRpcClient is taken to keep the promise of module Rpc; a call that    *)
(* throws ends the listing.                                                *)
(***************************************************************************)
EXTENDS Integers, Sequences

CONSTANTS
    Names,         \* names in the directory
    None,          \* no entry
    MaxCookie,     \* bound: positions in the directory
    MaxPage,       \* bound: entries of a page
    MaxVerf        \* bound: verifiers the server uses

ASSUME BoundsAssumption == /\ MaxCookie \in Nat /\ MaxPage \in Nat \ {0}
                           /\ MaxVerf \in Nat \ {0} /\ None \notin Names

VARIABLES
    \* the client
    pc,            \* "start", "request", "reply", "returned", "thrown"
    cookie,        \* cursor: cookie of the last entry, 0 at the start
    cookieverf,    \* verifier of the last page, 0 at the start
    all,           \* the entries so far: a sequence of [name, cookie]
    page,          \* the reply: [status, entries, verf, eof]
    \* the server
    dir,           \* the entry at each cookie
    verf,          \* the verifier of the cookies
    \* bookkeeping
    stayed,        \* names in the directory since the listing began
    seen           \* names in the directory at some time since the listing began

clientVars == <<pc, cookie, cookieverf, all, page>>
serverVars == <<dir, verf>>
histVars   == <<stayed, seen>>
vars       == <<clientVars, serverVars, histVars>>

Cookies == 1..MaxCookie
Entries == [name : Names, cookie : Cookies]
NoPage  == [status |-> "none", entries |-> <<>>, verf |-> 0, eof |-> FALSE]
Present == {dir[k] : k \in Cookies} \ {None}

TypeOK ==
    /\ pc \in {"start", "request", "reply", "returned", "thrown"}
    /\ cookie \in 0..MaxCookie
    /\ cookieverf \in 0..MaxVerf
    /\ all \in Seq(Entries)
    /\ page.status \in {"none", "ok", "error"}
    /\ page.entries \in Seq(Entries)
    /\ page.verf \in 0..MaxVerf
    /\ page.eof \in BOOLEAN
    /\ dir \in [Cookies -> Names \cup {None}]
    /\ verf \in 1..MaxVerf
    /\ stayed \subseteq Names
    /\ seen \subseteq Names

\* A directory without duplicate names.
Directories ==
    {d \in [Cookies -> Names \cup {None}] :
        \A j, k \in Cookies : d[j] = d[k] /\ d[j] # None => j = k}

Init ==
    /\ pc = "start"
    /\ cookie = 0
    /\ cookieverf = 0
    /\ all = <<>>
    /\ page = NoPage
    /\ dir \in Directories
    /\ verf = 1
    /\ stayed = {}
    /\ seen = {}

-----------------------------------------------------------------------------
(* The client.                                                             *)

\* The first page is requested with cookie 0 and a zero verifier.
Start ==
    /\ pc = "start"
    /\ pc' = "request"
    /\ stayed' = Present
    /\ seen' = Present
    /\ UNCHANGED <<cookie, cookieverf, all, page, serverVars>>

\* A mutant: the cursor is the cookie of the first entry of the page.
LastCookie_First(es) == IF es = <<>> THEN cookie ELSE es[1].cookie
\* A mutant: the cursor is moved behind the last entry.
LastCookie_Next(es) == IF es = <<>> THEN cookie ELSE es[Len(es)].cookie + 1
\* for (auto& e : page.entries) cookie = e.cookie
LastCookie(es) == IF es = <<>> THEN cookie ELSE es[Len(es)].cookie

\* A mutant: eof is not looked at.
Done_Never == FALSE
\* A mutant: the listing ends with the first page that is not empty.
Done_FirstPage == page.entries # <<>> \/ page.eof
\* if (page.eof) break
Done == page.eof

\* The page is appended; the next one is requested, or the listing is returned.
ReceivePage ==
    /\ pc = "reply"
    /\ page.status = "ok"
    /\ all' = all \o page.entries
    /\ cookie' = LastCookie(page.entries)
    /\ cookieverf' = page.verf
    /\ pc' = IF Done THEN "returned" ELSE "request"
    /\ page' = NoPage
    /\ UNCHANGED <<serverVars, histVars>>

\* A mutant: the error ends the loop, and the entries read so far are returned.
ReceiveError_Partial ==
    /\ pc = "reply"
    /\ page.status = "error"
    /\ pc' = "returned"
    /\ page' = NoPage
    /\ UNCHANGED <<cookie, cookieverf, all, serverVars, histVars>>
\* decode_readdir_reply throws NfsError, and the entries read so far are lost.
ReceiveError ==
    /\ pc = "reply"
    /\ page.status = "error"
    /\ pc' = "thrown"
    /\ all' = <<>>
    /\ page' = NoPage
    /\ UNCHANGED <<cookie, cookieverf, serverVars, histVars>>

-----------------------------------------------------------------------------
(* The server and the other clients, external to the repository.           *)

\* The positions behind a cookie that are in use.
Behind(k) == {j \in Cookies : j > k /\ dir[j] # None}

\* The entries at positions at, in that order.
EntriesAt(at) == [i \in DOMAIN at |-> [name |-> dir[at[i]], cookie |-> at[i]]]

\* A page holds the next entries (positions at), in order and with none left out, at
\* least one if there are any (a server that has room for none answers with an error);
\* at the end eof may come with the last entry or with an empty page of its own.
SrvPage ==
    /\ pc = "request"
    /\ cookie # 0 => cookieverf = verf
    /\ \E n \in 0..MaxPage, e \in BOOLEAN : \E at \in [1..n -> Behind(cookie)] :
          /\ \A i, j \in 1..n : i < j => at[i] < at[j]
          /\ \A k \in Behind(cookie) :
                (\E i \in 1..n : at[i] = k) \/ (~e /\ \A i \in 1..n : at[i] < k)
          /\ n = 0 => e
          /\ page' = [status |-> "ok", entries |-> EntriesAt(at), verf |-> verf, eof |-> e]
    /\ pc' = "reply"
    /\ UNCHANGED <<cookie, cookieverf, all, serverVars, histVars>>

\* BAD_COOKIE for a cookie of another verifier, or any other error.
SrvError ==
    /\ pc = "request"
    /\ page' = [NoPage EXCEPT !.status = "error"]
    /\ pc' = "reply"
    /\ UNCHANGED <<cookie, cookieverf, all, serverVars, histVars>>

\* Another client creates an entry at a free position, or removes one.
Change ==
    /\ pc \in {"request", "reply"}
    /\ \E k \in Cookies :
          \/ /\ dir[k] = None
             /\ \E n \in Names \ Present :
                   /\ dir' = [dir EXCEPT ![k] = n]
                   /\ seen' = seen \cup {n}
             /\ UNCHANGED stayed
          \/ /\ dir[k] # None
             /\ dir' = [dir EXCEPT ![k] = None]
             /\ stayed' = stayed \ {dir[k]}
             /\ UNCHANGED seen
    /\ UNCHANGED <<clientVars, verf>>

\* The server lays the directory out anew, under a new verifier.
Relayout ==
    /\ pc \in {"request", "reply"}
    /\ verf < MaxVerf
    /\ verf' = verf + 1
    /\ dir' \in {d \in Directories : {d[k] : k \in Cookies} \ {None} = Present}
    /\ UNCHANGED <<clientVars, histVars>>

-----------------------------------------------------------------------------
ClientStep == Start \/ ReceivePage \/ ReceiveError
ServerStep == SrvPage \/ SrvError

Next == ClientStep \/ ServerStep \/ Change \/ Relayout

Spec == Init /\ [][Next]_vars

\* The loop runs by itself, and the server answers.
FairSpec == Spec /\ WF_vars(ClientStep) /\ WF_vars(ServerStep)

-----------------------------------------------------------------------------
(* Properties.                                                             *)

\* The listing that is returned has every name that was in the directory all the
\* time, whatever was created, removed or laid out anew between its pages.
NothingMissed ==
    pc = "returned" => \A n \in stayed : \E i \in DOMAIN all : all[i].name = n

\* No entry is listed twice: the cookies of the listing grow.
OnceEach == \A i, j \in DOMAIN all : i < j => all[i].cookie < all[j].cookie

\* The phase of the listing that its caller sees.
Phase == IF pc \in {"request", "reply"} THEN "listing" ELSE pc

\* The names of the listing that is returned.
Returned == IF pc = "returned" THEN {all[i].name : i \in DOMAIN all} ELSE {}

\* The loop over the pages keeps the promise of module Listing: what it returns has
\* every name that stayed and none that was never there, although its pages show the
\* directory at different times and in different layouts.
Abstract == INSTANCE Listing WITH phase <- Phase, present <- Present, result <- Returned
ImplementsListing == Abstract!Spec

\* The loop ends although other clients go on changing the directory.
ListingEnds == <>(pc \in {"returned", "thrown"})
=============================================================================
