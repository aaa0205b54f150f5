--------------------------- MODULE ReaddirProofs ----------------------------
(***************************************************************************)
(* Theorems about Readdir, for any set of names and any bounds on the      *)
(* positions, pages and verifiers of the directory.                        *)
(***************************************************************************)
EXTENDS Readdir, SequenceTheorems, TLAPS

\* The names of a sequence of entries.
Named(es) == {es[i].name : i \in DOMAIN es}

\* A page has been received, or is on its way, with success.
HasPage == pc = "reply" /\ page.status = "ok"

\* The reply in hand: there is none unless pc says so, and a page that is not the last
\* one has an entry.
PageInv ==
    /\ pc # "reply" => page = NoPage
    /\ pc = "start" => cookie = 0 /\ all = <<>>
    /\ HasPage /\ ~page.eof => page.entries # <<>>
    /\ page.verf <= verf
    /\ cookieverf <= verf

\* The cookies of the listing grow up to the cursor, those of a page from there.
OrderInv ==
    /\ OnceEach
    /\ \A i \in DOMAIN all : all[i].cookie <= cookie
    /\ \A i \in DOMAIN page.entries : page.entries[i].cookie > cookie
    /\ \A i, j \in DOMAIN page.entries :
           i < j => page.entries[i].cookie < page.entries[j].cookie

\* A name that has stayed is listed or lies ahead of the cursor, as long as the cursor
\* means something under the verifier of the server.
AheadInv ==
    /\ pc \in {"request", "reply"} => stayed \subseteq Present
    /\ pc = "request" /\ (cookie # 0 => cookieverf = verf) =>
           \A n \in stayed : n \in Named(all) \/ \E k \in Cookies : k > cookie /\ dir[k] = n
    /\ HasPage /\ (page.eof \/ page.verf = verf) =>
           \A n \in stayed : \/ n \in Named(all) \cup Named(page.entries)
                             \/ /\ ~page.eof
                                /\ \E k \in Cookies : /\ k > LastCookie(page.entries)
                                                      /\ dir[k] = n
    /\ pc = "returned" => stayed \subseteq Named(all)

\* No name is in the directory twice; the names in it, and those that were read from it,
\* have been seen.
SeenInv ==
    /\ dir \in Directories
    /\ pc \in {"request", "reply"} => Present \subseteq seen
    /\ Named(all) \subseteq seen
    /\ Named(page.entries) \subseteq seen

\* The inductive invariant.
ListingInv == TypeOK /\ PageInv /\ OrderInv /\ AheadInv /\ SeenInv

USE BoundsAssumption
USE DEF Cookies, NoPage, clientVars, serverVars, histVars

-----------------------------------------------------------------------------
(* Facts about sequences of entries.                                       *)

\* A sequence of entries has entries as its elements.
LEMMA EntriesOf ==
    ASSUME NEW s \in Seq(Entries)
    PROVE  /\ Len(s) \in Nat
           /\ DOMAIN s = 1..Len(s)
           /\ \A i \in DOMAIN s : s[i] \in Entries /\ s[i].cookie \in Cookies
           /\ s # <<>> => Len(s) \in DOMAIN s
<1>1. Len(s) \in Nat /\ DOMAIN s = 1..Len(s)
  BY LenProperties
<1>2. \A i \in DOMAIN s : s[i] \in Entries
  BY <1>1, ElementOfSeq
<1>3. \A x \in Entries : x.cookie \in Cookies
  BY DEF Entries
<1>4. s # <<>> => Len(s) \in DOMAIN s
  BY <1>1, EmptySeq
<1> QED BY <1>1, <1>2, <1>3, <1>4

\* What appending a page does: the entries of both, in order.
LEMMA Appending ==
    ASSUME NEW s \in Seq(Entries), NEW t \in Seq(Entries)
    PROVE  /\ s \o t \in Seq(Entries)
           /\ DOMAIN (s \o t) = 1..(Len(s) + Len(t))
           /\ DOMAIN s = 1..Len(s) /\ DOMAIN t = 1..Len(t)
           /\ Len(s) \in Nat /\ Len(t) \in Nat
           /\ \A i \in 1..Len(s) : (s \o t)[i] = s[i]
           /\ \A j \in 1..Len(t) : (s \o t)[Len(s) + j] = t[j]
           /\ \A i \in 1..(Len(s) + Len(t)) : i > Len(s) => (s \o t)[i] = t[i - Len(s)]
OBVIOUS

\* The names of both.
LEMMA NamedAppending ==
    ASSUME NEW s \in Seq(Entries), NEW t \in Seq(Entries)
    PROVE  Named(s \o t) = Named(s) \cup Named(t)
<1>1. ASSUME NEW i \in DOMAIN s PROVE s[i].name \in Named(s \o t)
  <2>1. i \in DOMAIN (s \o t) /\ (s \o t)[i] = s[i]
    BY <1>1, Appending
  <2> QED BY <2>1 DEF Named
<1>2. ASSUME NEW j \in DOMAIN t PROVE t[j].name \in Named(s \o t)
  <2>1. Len(s) + j \in DOMAIN (s \o t) /\ (s \o t)[Len(s) + j] = t[j]
    BY <1>2, Appending
  <2> QED BY <2>1 DEF Named
<1>3. ASSUME NEW i \in DOMAIN (s \o t)
      PROVE  (s \o t)[i].name \in Named(s) \cup Named(t)
  <2>1. \/ i \in DOMAIN s /\ (s \o t)[i] = s[i]
        \/ i - Len(s) \in DOMAIN t /\ (s \o t)[i] = t[i - Len(s)]
    BY <1>3, Appending
  <2> QED BY <2>1 DEF Named
<1> QED BY <1>1, <1>2, <1>3 DEF Named

\* The entries at a sequence of positions in use are a page of the directory.
LEMMA EntriesOfPage ==
    ASSUME TypeOK, NEW n \in Nat, NEW k, NEW at \in [1..n -> Behind(k)]
    PROVE  /\ EntriesAt(at) \in Seq(Entries)
           /\ Len(EntriesAt(at)) = n
           /\ DOMAIN EntriesAt(at) = 1..n
           /\ \A i \in 1..n : /\ EntriesAt(at)[i].cookie = at[i]
                              /\ EntriesAt(at)[i].name = dir[at[i]]
                              /\ at[i] \in Cookies /\ at[i] > k /\ dir[at[i]] \in Names
<1>1. \A i \in 1..n : at[i] \in Cookies /\ at[i] > k /\ dir[at[i]] \in Names
  BY DEF Behind, TypeOK
<1>2. EntriesAt(at) \in [1..n -> Entries]
  BY <1>1 DEF EntriesAt, Entries
<1>3. EntriesAt(at) \in Seq(Entries)
  BY <1>2, SeqDef
<1> QED BY <1>1, <1>2, <1>3 DEF EntriesAt

-----------------------------------------------------------------------------
(* One lemma for each action that moves the listing on.                    *)

\* The client takes over a page.
LEMMA ReceivePageKeeps ==
    ASSUME ListingInv, ReceivePage
    PROVE  ListingInv'
<1>1. /\ all \in Seq(Entries) /\ page.entries \in Seq(Entries) /\ all' = all \o page.entries
      /\ page' = NoPage /\ cookieverf' = page.verf /\ cookie' = LastCookie(page.entries)
      /\ dir' = dir /\ verf' = verf /\ stayed' = stayed /\ seen' = seen
      /\ pc' = IF page.eof THEN "returned" ELSE "request"
      /\ HasPage
  BY DEF ReceivePage, ListingInv, TypeOK, Done, HasPage
<1>2. /\ LastCookie(page.entries) \in 0..MaxCookie
      /\ LastCookie(page.entries) >= cookie
      /\ \A i \in DOMAIN page.entries : page.entries[i].cookie <= LastCookie(page.entries)
      /\ page.entries # <<>> => LastCookie(page.entries) > 0
  <2>1. CASE page.entries = <<>>
    BY <2>1 DEF LastCookie, ListingInv, TypeOK
  <2>2. CASE page.entries # <<>>
    <3>1. /\ DOMAIN page.entries = 1..Len(page.entries)
          /\ Len(page.entries) \in DOMAIN page.entries
          /\ Len(page.entries) \in Nat
      BY <1>1, <2>2, EntriesOf
    <3>2. \A i \in DOMAIN page.entries : page.entries[i].cookie \in Cookies
      BY <1>1, EntriesOf
    <3>3. LastCookie(page.entries) = page.entries[Len(page.entries)].cookie
      BY <2>2 DEF LastCookie
    <3>4. page.entries[Len(page.entries)].cookie > cookie
      BY <3>1 DEF ListingInv, OrderInv
    <3>5. ASSUME NEW i \in DOMAIN page.entries
          PROVE  page.entries[i].cookie <= page.entries[Len(page.entries)].cookie
      <4>1. i = Len(page.entries) \/ i < Len(page.entries)
        BY <3>1
      <4>2. i < Len(page.entries) =>
                page.entries[i].cookie < page.entries[Len(page.entries)].cookie
        BY <3>1 DEF ListingInv, OrderInv
      <4> QED BY <3>1, <3>2, <4>1, <4>2
    <3>6. cookie \in 0..MaxCookie
      BY DEF ListingInv, TypeOK
    <3> QED BY <3>1, <3>2, <3>3, <3>4, <3>5, <3>6
  <2> QED BY <2>1, <2>2
<1>3. TypeOK'
  BY <1>1, <1>2, Appending DEF ListingInv, TypeOK
<1>4. PageInv'
  BY <1>1 DEF ListingInv, PageInv, TypeOK, HasPage
<1>5. OrderInv'
  <2>1. \A i \in DOMAIN all : all[i].cookie \in Cookies
    BY <1>1, EntriesOf
  <2>2. \A i \in DOMAIN page.entries : page.entries[i].cookie \in Cookies
    BY <1>1, EntriesOf
  <2> DEFINE m == Len(all)
             l == Len(page.entries)
  <2>0. /\ m \in Nat /\ l \in Nat /\ DOMAIN all = 1..m /\ DOMAIN page.entries = 1..l
        /\ DOMAIN all' = 1..(m + l)
        /\ \A i \in 1..m : all'[i] = all[i]
        /\ \A i \in 1..(m + l) : i > m => all'[i] = page.entries[i - m]
    BY <1>1, Appending
  <2> HIDE DEF m, l
  <2>3. ASSUME NEW i \in DOMAIN all' PROVE all'[i].cookie <= LastCookie(page.entries)
    <3>1. CASE i <= m
      <4>1. i \in DOMAIN all /\ all'[i] = all[i] /\ all[i].cookie <= cookie
        BY <2>0, <2>3, <3>1 DEF ListingInv, OrderInv
      <4> QED BY <1>2, <2>1, <4>1 DEF ListingInv, TypeOK
    <3>2. CASE i > m
      <4>1. i - m \in DOMAIN page.entries /\ all'[i] = page.entries[i - m]
        BY <2>0, <2>3, <3>2
      <4> QED BY <1>2, <4>1
    <3> QED BY <2>0, <2>3, <3>1, <3>2
  <2>4. ASSUME NEW i \in DOMAIN all', NEW j \in DOMAIN all', i < j
        PROVE  all'[i].cookie < all'[j].cookie
    <3>1. CASE j <= m
      BY <2>0, <2>4, <3>1 DEF ListingInv, OrderInv, OnceEach
    <3>2. CASE i <= m /\ j > m
      <4>1. i \in DOMAIN all /\ j - m \in DOMAIN page.entries
        BY <2>0, <2>4, <3>2
      <4>2. all[i].cookie <= cookie /\ page.entries[j - m].cookie > cookie
        BY <4>1 DEF ListingInv, OrderInv
      <4>3. all'[i] = all[i] /\ all'[j] = page.entries[j - m]
        BY <2>0, <2>4, <3>2
      <4> QED BY <2>1, <2>2, <4>1, <4>2, <4>3 DEF ListingInv, TypeOK
    <3>3. CASE i > m
      <4>1. /\ i - m \in DOMAIN page.entries /\ j - m \in DOMAIN page.entries
            /\ i - m < j - m
            /\ all'[i] = page.entries[i - m] /\ all'[j] = page.entries[j - m]
        BY <2>0, <2>4, <3>3
      <4> QED BY <4>1 DEF ListingInv, OrderInv
    <3> QED BY <2>0, <2>4, <3>1, <3>2, <3>3
  <2>5. DOMAIN page'.entries = {}
    BY <1>1
  <2>6. OnceEach'
    BY <2>4 DEF OnceEach
  <2>7. \A i \in DOMAIN all' : all'[i].cookie <= cookie'
    BY <1>1, <2>3
  <2> QED BY <2>5, <2>6, <2>7 DEF OrderInv
<1>6. AheadInv'
  <2>1. Named(all) \cup Named(page.entries) \subseteq Named(all')
    BY <1>1, NamedAppending
  <2>2. Present' = Present
    BY <1>1 DEF Present
  <2>3. CASE page.eof
    BY <1>1, <2>1, <2>3 DEF ListingInv, AheadInv, HasPage
  <2>4. CASE ~page.eof
    <3>1. cookie' # 0
      BY <1>1, <1>2, <2>4 DEF ListingInv, PageInv
    <3>2. pc' = "request" /\ ~HasPage'
      BY <1>1, <2>4 DEF HasPage
    <3>3. stayed' \subseteq Present'
      BY <1>1, <2>2 DEF ListingInv, AheadInv, HasPage
    <3>4. ASSUME cookieverf' = verf', NEW n \in stayed'
          PROVE  n \in Named(all') \/ \E k \in Cookies : k > cookie' /\ dir'[k] = n
      BY <1>1, <2>1, <2>4, <3>4 DEF ListingInv, AheadInv
    <3> QED BY <3>1, <3>2, <3>3, <3>4 DEF AheadInv
  <2> QED BY <1>1, <2>3, <2>4 DEF ListingInv, TypeOK
<1>7. SeenInv'
  <2>1. Named(all') = Named(all) \cup Named(page.entries)
    BY <1>1, NamedAppending
  <2>2. Named(page'.entries) = {}
    BY <1>1 DEF Named
  <2>3. Present' = Present
    BY <1>1 DEF Present
  <2> QED BY <1>1, <2>1, <2>2, <2>3 DEF ListingInv, SeenInv, Directories, HasPage
<1> QED BY <1>3, <1>4, <1>5, <1>6, <1>7 DEF ListingInv

\* The server sends a page.
LEMMA SrvPageKeeps ==
    ASSUME ListingInv, SrvPage
    PROVE  ListingInv'
<1>0. TypeOK
  BY DEF ListingInv
<1>1. PICK n \in 0..MaxPage, e \in BOOLEAN : \E at \in [1..n -> Behind(cookie)] :
          /\ \A i, j \in 1..n : i < j => at[i] < at[j]
          /\ \A k \in Behind(cookie) :
                (\E i \in 1..n : at[i] = k) \/ (~e /\ \A i \in 1..n : at[i] < k)
          /\ n = 0 => e
          /\ page' = [status |-> "ok", entries |-> EntriesAt(at), verf |-> verf, eof |-> e]
  BY DEF SrvPage
<1>2. PICK at \in [1..n -> Behind(cookie)] :
          /\ \A i, j \in 1..n : i < j => at[i] < at[j]
          /\ \A k \in Behind(cookie) :
                (\E i \in 1..n : at[i] = k) \/ (~e /\ \A i \in 1..n : at[i] < k)
          /\ n = 0 => e
          /\ page' = [status |-> "ok", entries |-> EntriesAt(at), verf |-> verf, eof |-> e]
  BY <1>1
<1> DEFINE es == EntriesAt(at)
<1>3. /\ pc = "request" /\ pc' = "reply" /\ (cookie # 0 => cookieverf = verf)
      /\ UNCHANGED <<cookie, cookieverf, all, dir, verf, stayed, seen>>
  BY DEF SrvPage
<1>4. /\ page'.entries = es /\ page'.status = "ok" /\ page'.verf = verf /\ page'.eof = e
  BY <1>2
<1>5. n \in Nat
  OBVIOUS
<1>6. /\ es \in Seq(Entries) /\ Len(es) = n /\ DOMAIN es = 1..n
      /\ \A i \in 1..n : /\ es[i].cookie = at[i] /\ es[i].name = dir[at[i]]
                         /\ at[i] \in Cookies /\ at[i] > cookie /\ dir[at[i]] \in Names
  BY <1>0, <1>2, <1>5, EntriesOfPage
<1> HIDE DEF es
<1>7. TypeOK'
  BY <1>0, <1>3, <1>4, <1>6 DEF TypeOK
<1>8. PageInv'
  BY <1>0, <1>2, <1>3, <1>4, <1>6 DEF ListingInv, PageInv, TypeOK, HasPage
<1>9. OrderInv'
  BY <1>2, <1>3, <1>4, <1>6 DEF ListingInv, OrderInv, OnceEach
<1>10. AheadInv'
  <2>1. ASSUME NEW m \in stayed
        PROVE  \/ m \in Named(all) \cup Named(es)
               \/ ~e /\ \E k \in Cookies : k > LastCookie(es) /\ dir[k] = m
    <3>1. CASE m \in Named(all)
      BY <3>1
    <3>2. CASE m \notin Named(all)
      <4>1. PICK k \in Cookies : k > cookie /\ dir[k] = m
        BY <1>3, <3>2 DEF ListingInv, AheadInv
      <4>2. k \in Behind(cookie)
        BY <1>0, <4>1 DEF Behind, TypeOK
      <4>3. CASE \E i \in 1..n : at[i] = k
        <5>1. PICK i \in 1..n : at[i] = k
          BY <4>3
        <5>2. es[i].name = m /\ i \in DOMAIN es
          BY <1>6, <4>1, <5>1
        <5> QED BY <5>2 DEF Named
      <4>4. CASE ~e /\ \A i \in 1..n : at[i] < k
        <5>1. es # <<>> /\ n \in 1..n
          BY <1>2, <1>6, <4>4
        <5>2. LastCookie(es) = at[n]
          BY <1>6, <5>1 DEF LastCookie
        <5> QED BY <4>1, <4>4, <5>1, <5>2, <1>6
      <4> QED BY <1>2, <4>2, <4>3, <4>4
    <3> QED BY <3>1, <3>2
  <2>2. Present' = Present
    BY <1>3 DEF Present
  <2>3. LastCookie(page.entries)' = LastCookie(es)
    BY <1>3, <1>4 DEF LastCookie
  <2>4. stayed' \subseteq Present'
    BY <1>3, <2>2 DEF ListingInv, AheadInv
  <2>5. ASSUME NEW m \in stayed'
        PROVE  \/ m \in Named(all') \cup Named(page'.entries)
               \/ /\ ~page'.eof
                  /\ \E k \in Cookies : k > LastCookie(page.entries)' /\ dir'[k] = m
    BY <1>3, <1>4, <2>1, <2>3, <2>5
  <2> QED BY <1>3, <2>4, <2>5 DEF AheadInv, HasPage
<1>11. SeenInv'
  <2>1. ASSUME NEW i \in 1..n PROVE es[i].name \in Present
    BY <1>6 DEF Present
  <2>2. Named(es) \subseteq seen
    BY <1>3, <1>6, <2>1 DEF ListingInv, SeenInv, Named
  <2>3. Present' = Present
    BY <1>3 DEF Present
  <2> QED BY <1>3, <1>4, <2>2, <2>3 DEF ListingInv, SeenInv, Directories
<1> QED BY <1>7, <1>8, <1>9, <1>10, <1>11 DEF ListingInv

-----------------------------------------------------------------------------
(* The other actions.                                                      *)

\* The listing begins: every name of the directory is ahead of cursor 0.
LEMMA StartKeeps ==
    ASSUME ListingInv, Start
    PROVE  ListingInv'
<1>1. /\ pc = "start" /\ pc' = "request" /\ stayed' = Present /\ page = NoPage /\ cookie = 0
      /\ seen' = Present /\ all = <<>>
      /\ UNCHANGED <<cookie, cookieverf, all, page, dir, verf>>
  BY DEF Start, ListingInv, PageInv
<1>2. Present \subseteq Names /\ Present' = Present
  BY <1>1 DEF Present, ListingInv, TypeOK
<1>3. TypeOK'
  BY <1>1, <1>2 DEF ListingInv, TypeOK
<1>4. PageInv' /\ OrderInv'
  BY <1>1 DEF ListingInv, PageInv, OrderInv, OnceEach, HasPage
<1>5. AheadInv'
  BY <1>1, <1>2 DEF AheadInv, HasPage, Present
<1>6. SeenInv'
  BY <1>1, <1>2 DEF ListingInv, SeenInv, Directories, Named
<1> QED BY <1>3, <1>4, <1>5, <1>6 DEF ListingInv

\* The listing fails: nothing is promised any more.
LEMMA ReceiveErrorKeeps ==
    ASSUME ListingInv, ReceiveError
    PROVE  ListingInv'
<1>1. /\ pc' = "thrown" /\ all' = <<>> /\ page' = NoPage
      /\ UNCHANGED <<cookie, cookieverf, dir, verf, stayed, seen>>
  BY DEF ReceiveError
<1>2. TypeOK'
  <2>1. all' \in Seq(Entries) /\ page'.entries \in Seq(Entries)
    BY <1>1
  <2> QED BY <1>1, <2>1 DEF ListingInv, TypeOK
<1>3. DOMAIN all' = {} /\ DOMAIN page'.entries = {}
  BY <1>1
<1>4. PageInv' /\ OrderInv'
  BY <1>1, <1>2, <1>3 DEF ListingInv, PageInv, OrderInv, OnceEach, HasPage, TypeOK
<1>5. AheadInv'
  BY <1>1 DEF AheadInv, HasPage
<1>6. SeenInv'
  BY <1>1, <1>3 DEF ListingInv, SeenInv, Directories, Named
<1> QED BY <1>2, <1>4, <1>5, <1>6 DEF ListingInv

\* The server answers with an error.
LEMMA SrvErrorKeeps ==
    ASSUME ListingInv, SrvError
    PROVE  ListingInv'
<1>1. /\ pc = "request" /\ pc' = "reply" /\ page'.status = "error"
      /\ page'.entries = <<>> /\ page'.verf = 0 /\ page'.eof = FALSE
      /\ UNCHANGED <<cookie, cookieverf, all, dir, verf, stayed, seen>>
  BY DEF SrvError
<1>2. TypeOK'
  <2>1. page'.entries \in Seq(Entries)
    BY <1>1
  <2>2. page'.status \in {"none", "ok", "error"} /\ page'.verf \in 0..MaxVerf
    BY <1>1
  <2>3. page'.eof \in BOOLEAN
    BY <1>1, Zenon
  <2>4. TypeOK
    BY DEF ListingInv
  <2> QED BY <1>1, <2>1, <2>2, <2>3, <2>4 DEF TypeOK
<1>3. DOMAIN page'.entries = {}
  BY <1>1
<1>4. PageInv' /\ OrderInv'
  BY <1>1, <1>2, <1>3 DEF ListingInv, PageInv, OrderInv, OnceEach, HasPage, TypeOK
<1>5. AheadInv'
  BY <1>1 DEF ListingInv, AheadInv, HasPage, Present
<1>6. SeenInv'
  BY <1>1, <1>3 DEF ListingInv, SeenInv, Directories, Present, Named
<1> QED BY <1>2, <1>4, <1>5, <1>6 DEF ListingInv

\* What another client does to the directory: one name comes or goes, and every name
\* that has stayed keeps its position.
LEMMA ChangeFacts ==
    ASSUME ListingInv, Change
    PROVE  /\ dir' \in Directories
           /\ \A j \in Cookies : dir[j] \in stayed' => dir'[j] = dir[j]
           /\ stayed' = stayed \cap Present'
           /\ seen' = seen \cup Present'
           /\ \E n \in Names :
                 \/ n \notin Present /\ Present' = Present \cup {n}
                 \/ n \in Present /\ Present' = Present \ {n}
<1>1. /\ dir \in [Cookies -> Names \cup {None}] /\ stayed \subseteq Names
      /\ \A i, j \in Cookies : dir[i] = dir[j] /\ dir[i] # None => i = j
      /\ stayed \subseteq Present /\ Present \subseteq seen
  BY DEF ListingInv, TypeOK, SeenInv, AheadInv, Directories, Change
<1>2. PICK k \in Cookies :
          \/ /\ dir[k] = None
             /\ \E n \in Names \ Present :
                   /\ dir' = [dir EXCEPT ![k] = n]
                   /\ seen' = seen \cup {n}
             /\ UNCHANGED stayed
          \/ /\ dir[k] # None
             /\ dir' = [dir EXCEPT ![k] = None]
             /\ stayed' = stayed \ {dir[k]}
             /\ UNCHANGED seen
  BY DEF Change
<1>3. CASE dir[k] = None
  <2>1. PICK n \in Names \ Present : dir' = [dir EXCEPT ![k] = n] /\ seen' = seen \cup {n}
    BY <1>2, <1>3
  <2>2. /\ dir' \in [Cookies -> Names \cup {None}] /\ dir'[k] = n
        /\ \A j \in Cookies : j # k => dir'[j] = dir[j]
    BY <1>1, <2>1
  <2>3. \A j \in Cookies : dir[j] # n
    BY <2>1 DEF Present
  <2>4. dir' \in Directories
    BY <1>1, <2>2, <2>3 DEF Directories
  <2>5. Present' = Present \cup {n}
    BY <1>3, <2>1, <2>2 DEF Present
  <2>6. stayed' = stayed
    BY <1>2, <1>3
  <2>7. \A j \in Cookies : dir[j] \in stayed' => dir'[j] = dir[j]
    BY <1>1, <1>3, <2>2, <2>6
  <2> QED BY <1>1, <2>1, <2>4, <2>5, <2>6, <2>7
<1>4. CASE dir[k] # None
  <2>1. dir' = [dir EXCEPT ![k] = None] /\ stayed' = stayed \ {dir[k]} /\ seen' = seen
    BY <1>2, <1>4
  <2>2. /\ dir' \in [Cookies -> Names \cup {None}] /\ dir'[k] = None
        /\ \A j \in Cookies : j # k => dir'[j] = dir[j]
    BY <1>1, <2>1
  <2>3. dir' \in Directories
    BY <1>1, <2>2 DEF Directories
  <2>4. \A j \in Cookies : j # k => dir[j] # dir[k]
    BY <1>1, <1>4
  <2>5. Present' = Present \ {dir[k]}
    BY <2>2, <2>4 DEF Present
  <2>6. dir[k] \in Present /\ dir[k] \in Names
    BY <1>1, <1>4 DEF Present
  <2>7. \A j \in Cookies : dir[j] \in stayed' => dir'[j] = dir[j]
    BY <2>1, <2>2
  <2> QED BY <1>1, <2>1, <2>3, <2>5, <2>6, <2>7
<1> QED BY <1>3, <1>4

\* Another client creates or removes a name.  A name that has stayed keeps its position.
LEMMA ChangeKeeps ==
    ASSUME ListingInv, Change
    PROVE  ListingInv'
<1>1. pc \in {"request", "reply"} /\ UNCHANGED <<pc, cookie, cookieverf, all, page, verf>>
  BY DEF Change
<1>2. /\ stayed' \subseteq stayed
      /\ dir' \in Directories /\ dir' \in [Cookies -> Names \cup {None}]
      /\ \A j \in Cookies : dir[j] \in stayed' => dir'[j] = dir[j]
      /\ seen \subseteq seen' /\ seen' \subseteq Names /\ Present' \subseteq seen'
  <2>1. dir' \in [Cookies -> Names \cup {None}]
    BY ChangeFacts DEF Directories
  <2>2. Present' \subseteq Names
    BY <2>1 DEF Present
  <2> QED BY <2>1, <2>2, ChangeFacts DEF ListingInv, TypeOK
<1>3. TypeOK'
  BY <1>1, <1>2 DEF ListingInv, TypeOK
<1>4. PageInv' /\ OrderInv'
  BY <1>1 DEF ListingInv, PageInv, OrderInv, OnceEach, HasPage
<1>5. AheadInv'
  <2>1. stayed' \subseteq Present'
    BY <1>1, <1>2 DEF ListingInv, AheadInv, Present, TypeOK
  <2>2. ASSUME NEW n \in stayed', NEW k \in Cookies, dir[k] = n
        PROVE  dir'[k] = n
    BY <1>2, <2>2
  <2>3. LastCookie(page.entries)' = LastCookie(page.entries)
    BY <1>1 DEF LastCookie
  <2>4. ASSUME pc' = "request", cookie' # 0 => cookieverf' = verf', NEW n \in stayed'
        PROVE  n \in Named(all') \/ \E k \in Cookies : k > cookie' /\ dir'[k] = n
    BY <1>1, <1>2, <2>2, <2>4 DEF ListingInv, AheadInv
  <2>5. ASSUME HasPage', page'.eof \/ page'.verf = verf', NEW n \in stayed'
        PROVE  \/ n \in Named(all') \cup Named(page'.entries)
               \/ /\ ~page'.eof
                  /\ \E k \in Cookies : k > LastCookie(page.entries)' /\ dir'[k] = n
    BY <1>1, <1>2, <2>2, <2>3, <2>5 DEF ListingInv, AheadInv, HasPage
  <2> QED BY <1>1, <2>1, <2>4, <2>5 DEF AheadInv
<1>6. SeenInv'
  BY <1>1, <1>2 DEF ListingInv, SeenInv
<1> QED BY <1>3, <1>4, <1>5, <1>6 DEF ListingInv

\* The directory is laid out anew: no cookie in hand is one of the new verifier, and
\* from cursor 0 every name is still ahead.
LEMMA RelayoutKeeps ==
    ASSUME ListingInv, Relayout
    PROVE  ListingInv'
<1>1. /\ pc \in {"request", "reply"} /\ UNCHANGED <<pc, cookie, cookieverf, all, page, stayed, seen>>
      /\ verf' = verf + 1 /\ verf' \in 1..MaxVerf
      /\ dir' \in [Cookies -> Names \cup {None}] /\ Present' = Present
      /\ dir' \in Directories
  <2>1. verf \in 1..MaxVerf /\ verf < MaxVerf /\ verf' = verf + 1
    BY DEF Relayout, ListingInv, TypeOK
  <2>2. /\ pc \in {"request", "reply"}
        /\ UNCHANGED <<pc, cookie, cookieverf, all, page, stayed, seen>>
    BY DEF Relayout
  <2>3. dir' \in Directories /\ {dir'[k] : k \in Cookies} \ {None} = Present
    BY DEF Relayout
  <2>4. dir' \in [Cookies -> Names \cup {None}]
    BY <2>3 DEF Directories
  <2> QED BY <2>1, <2>2, <2>3, <2>4 DEF Present
<1>2. TypeOK'
  BY <1>1 DEF ListingInv, TypeOK
<1>3. PageInv' /\ OrderInv'
  BY <1>1 DEF ListingInv, PageInv, OrderInv, OnceEach, HasPage, TypeOK
<1>4. AheadInv'
  <2>1. stayed' \subseteq Present'
    BY <1>1 DEF ListingInv, AheadInv
  <2>2. cookieverf' < verf' /\ page'.verf < verf'
    BY <1>1 DEF ListingInv, PageInv, TypeOK
  <2>3. ASSUME pc' = "request", cookie' = 0, NEW n \in stayed'
        PROVE  \E k \in Cookies : k > cookie' /\ dir'[k] = n
    BY <2>1, <2>3 DEF Present
  <2>4. ASSUME HasPage', page'.eof, NEW n \in stayed'
        PROVE  n \in Named(all') \cup Named(page'.entries)
    BY <1>1, <2>4 DEF ListingInv, AheadInv, HasPage
  <2>5. cookieverf' # verf' /\ page'.verf # verf'
    BY <1>2, <2>2 DEF TypeOK
  <2> QED BY <1>1, <2>1, <2>3, <2>4, <2>5 DEF AheadInv
<1>5. SeenInv'
  BY <1>1 DEF ListingInv, SeenInv
<1> QED BY <1>2, <1>3, <1>4, <1>5 DEF ListingInv

-----------------------------------------------------------------------------
(* The theorems.                                                           *)

\* No step breaks the inductive invariant.
LEMMA ListingInvariance == Spec => []ListingInv
<1>1. Init => ListingInv
  <2> SUFFICES ASSUME Init PROVE ListingInv
    OBVIOUS
  <2>1. /\ pc = "start" /\ cookie = 0 /\ cookieverf = 0 /\ all = <<>> /\ page = NoPage
        /\ verf = 1 /\ stayed = {} /\ seen = {} /\ dir \in [Cookies -> Names \cup {None}]
        /\ dir \in Directories
    BY DEF Init, Directories
  <2>2. DOMAIN all = {} /\ DOMAIN page.entries = {}
    BY <2>1
  <2>3. all \in Seq(Entries) /\ page.entries \in Seq(Entries)
    BY <2>1
  <2>4. TypeOK
    BY <2>1, <2>3 DEF TypeOK
  <2>5. PageInv /\ OrderInv
    BY <2>1, <2>2 DEF PageInv, OrderInv, OnceEach, HasPage
  <2>6. AheadInv
    BY <2>1 DEF AheadInv, HasPage
  <2>7. SeenInv
    BY <2>1, <2>2 DEF SeenInv, Named
  <2> QED BY <2>4, <2>5, <2>6, <2>7 DEF ListingInv
<1>2. ListingInv /\ [Next]_vars => ListingInv'
  <2> SUFFICES ASSUME ListingInv, [Next]_vars PROVE ListingInv'
    OBVIOUS
  <2>1. CASE ClientStep
    BY <2>1, StartKeeps, ReceivePageKeeps, ReceiveErrorKeeps DEF ClientStep
  <2>2. CASE ServerStep
    BY <2>2, SrvPageKeeps, SrvErrorKeeps DEF ServerStep
  <2>3. CASE Change
    BY <2>3, ChangeKeeps
  <2>4. CASE Relayout
    BY <2>4, RelayoutKeeps
  <2>5. CASE UNCHANGED vars
    <3>1. UNCHANGED <<pc, cookie, cookieverf, all, page, dir, verf, stayed, seen>>
      BY <2>5 DEF vars
    <3> QED BY <3>1 DEF ListingInv, TypeOK, PageInv, OrderInv, OnceEach, AheadInv, SeenInv,
                        HasPage, Present, LastCookie, Directories
  <2> QED BY <2>1, <2>2, <2>3, <2>4, <2>5 DEF Next
<1> QED BY <1>1, <1>2, PTL DEF Spec

\* The variables keep their types: the cursor stays a position of the directory, or 0.
THEOREM TypeCorrect == Spec => []TypeOK
<1>1. ListingInv => TypeOK
  BY DEF ListingInv
<1> QED BY <1>1, ListingInvariance, PTL

\* A listing that readdir returns has every name that was in the directory from the
\* first request to the end, whatever other clients and the server did meanwhile.
THEOREM ListingComplete == Spec => []NothingMissed
<1>1. ListingInv => NothingMissed
  BY DEF ListingInv, AheadInv, NothingMissed, Named
<1> QED BY <1>1, ListingInvariance, PTL

\* The cookies of the listing grow, so no entry is in it twice.
THEOREM ListedOnce == Spec => []OnceEach
<1>1. ListingInv => OnceEach
  BY DEF ListingInv, OrderInv
<1> QED BY <1>1, ListingInvariance, PTL

-----------------------------------------------------------------------------
(* The refinement of Listing.                                              *)

\* A step of the loop, the server or another client is a step of Listing, or invisible
\* in it: the last page is Return, an error is Throw, every other page a stutter.
LEMMA StepRefines ==
    ASSUME ListingInv, ListingInv', [Next]_vars
    PROVE  [Abstract!Next]_(Abstract!vars)
<1>1. CASE Start
  <2>1. /\ Phase = "start" /\ Phase' = "listing" /\ Present' = Present
        /\ Returned = {} /\ Returned' = {} /\ stayed' = Present /\ seen' = Present
    BY <1>1 DEF Start, Phase, Present, Returned
  <2> QED BY <2>1 DEF Abstract!Next, Abstract!Begin
<1>2. CASE ReceivePage
  <2>1. /\ pc = "reply" /\ page.status = "ok" /\ UNCHANGED <<dir, verf, stayed, seen>>
        /\ pc' = IF page.eof THEN "returned" ELSE "request"
    BY <1>2 DEF ReceivePage, Done
  <2>2. Phase = "listing" /\ Returned = {} /\ Present' = Present
    BY <2>1 DEF Phase, Returned, Present
  <2>3. CASE page.eof
    <3>1. pc' = "returned"
      BY <2>1, <2>3
    <3>2. Phase' = "returned" /\ Returned' = Named(all')
      BY <3>1 DEF Phase, Returned, Named
    <3>3. stayed' \subseteq Named(all') /\ Named(all') \subseteq seen'
      BY <3>1 DEF ListingInv, AheadInv, SeenInv, Named
    <3>4. Returned' \in {S \in SUBSET seen : stayed \subseteq S}
      BY <2>1, <3>2, <3>3
    <3> QED BY <2>1, <2>2, <3>2, <3>4 DEF Abstract!Next, Abstract!Return
  <2>4. CASE ~page.eof
    <3>1. Phase' = "listing" /\ Returned' = {}
      BY <2>1, <2>4 DEF Phase, Returned
    <3> QED BY <2>1, <2>2, <3>1 DEF Abstract!vars
  <2> QED BY <2>3, <2>4
<1>3. CASE ReceiveError
  <2>1. /\ Phase = "listing" /\ Phase' = "thrown" /\ Present' = Present
        /\ Returned = {} /\ Returned' = {} /\ UNCHANGED <<stayed, seen>>
    BY <1>3 DEF ReceiveError, Phase, Present, Returned
  <2> QED BY <2>1 DEF Abstract!Next, Abstract!Throw
<1>4. CASE SrvPage \/ SrvError
  <2>1. pc = "request" /\ pc' = "reply" /\ UNCHANGED <<dir, stayed, seen>>
    BY <1>4 DEF SrvPage, SrvError
  <2>2. Phase' = Phase /\ Present' = Present /\ Returned' = Returned
    BY <2>1 DEF Phase, Present, Returned
  <2> QED BY <2>1, <2>2 DEF Abstract!vars
<1>5. CASE Change
  <2>1. pc \in {"request", "reply"} /\ pc' = pc
    BY <1>5 DEF Change
  <2>2. Phase = "listing" /\ Phase' = "listing" /\ Returned = {} /\ Returned' = {}
    BY <2>1 DEF Phase, Returned
  <2> QED BY <1>5, <2>2, ChangeFacts DEF Abstract!Next, Abstract!Modify
<1>6. CASE Relayout
  <2>1. UNCHANGED <<pc, all, stayed, seen>> /\ Present' = Present
    BY <1>6 DEF Relayout, Present
  <2>2. Phase' = Phase /\ Returned' = Returned
    BY <2>1 DEF Phase, Returned
  <2> QED BY <2>1, <2>2 DEF Abstract!vars
<1>7. CASE UNCHANGED vars
  <2>1. UNCHANGED <<pc, all, dir, stayed, seen>>
    BY <1>7 DEF vars
  <2>2. Phase' = Phase /\ Present' = Present /\ Returned' = Returned
    BY <2>1 DEF Phase, Present, Returned
  <2> QED BY <2>1, <2>2 DEF Abstract!vars
<1> QED BY <1>1, <1>2, <1>3, <1>4, <1>5, <1>6, <1>7 DEF Next, ClientStep, ServerStep

\* readdir keeps the promise of Listing, for any directory and any size of the pages: it
\* throws, or returns every name that stayed and no name that was never there.
THEOREM ListingRefinement == Spec => ImplementsListing
<1>1. Init => Abstract!Init
  <2> SUFFICES ASSUME Init PROVE Abstract!Init
    OBVIOUS
  <2>1. Phase = "start" /\ Returned = {} /\ stayed = {} /\ seen = {}
    BY DEF Init, Phase, Returned
  <2>2. Present \subseteq Names
    BY DEF Init, Directories, Present
  <2> QED BY <2>1, <2>2 DEF Abstract!Init
<1>2. ListingInv /\ ListingInv' /\ [Next]_vars => [Abstract!Next]_(Abstract!vars)
  BY StepRefines
<1> QED BY <1>1, <1>2, ListingInvariance, PTL DEF Spec, ImplementsListing, Abstract!Spec
=============================================================================
