------------------------------- MODULE Codec -------------------------------
(***************************************************************************)
(* A call of the client library on the wire, one item at a time: the client *)
(* encodes the arguments, the server decodes them, executes the request and *)
(* encodes a result, the client decodes it and returns or throws.  What the *)
(* client puts and gets is in Nfs3Wire and Nfs4Wire, what the server gets   *)
(* and puts in ServerWire.                                                  *)
(***************************************************************************)
EXTENDS Nfs4Wire, ServerWire

CONSTANTS
    Lens,       \* lengths of the strings and opaques of a message
    MaxList     \* longest list or array the server sends

ASSUME CodecAssumption == Lens \subseteq Nat /\ MaxList \in Nat

VARIABLES
    phase,      \* what is going on: see Phases
    calls,      \* the call being made, then those the method still has to make
    todo,       \* items still to be put or got
    buf,        \* the message: chunks put so far, or still to be got
    outer,      \* rest of the message while the attrlist of a fattr4 is decoded
    len,        \* length of the strings and opaques of this message
    status,     \* the status the client read last
    req,        \* the request as the server understood it
    sent,       \* the status of the server's reply
    cut,        \* whether the reply ended too soon
    thrown      \* what the method threw, or "nothing"

vars == <<phase, calls, todo, buf, outer, len, status, req, sent, cut, thrown>>

Phases == {"idle", "encode", "request", "reply", "decode", "done",
           "garbage_args", "garbage_result"}

NoReq == [minor |-> 0, ops |-> <<>>, asked |-> {}]

Methods == [v3 |-> Methods3, v40 |-> Methods40, v41 |-> Methods41]

Init ==
    /\ phase = "idle" /\ calls = <<>> /\ todo = <<>> /\ buf = <<>> /\ outer = <<>>
    /\ len = 0 /\ status = 0 /\ req = NoReq /\ sent = 0 /\ cut = FALSE /\ thrown = "nothing"

----------------------------------------------------------------------------
(* Encoding, by the client ("encode") and by the server ("reply"). *)

Writing(kinds) == phase \in {"encode", "reply"} /\ todo # <<>> /\ Head(todo).k \in kinds

Put(chunks, next) ==
    /\ buf' = buf \o chunks
    /\ todo' = next \o Tail(todo)
    /\ UNCHANGED <<phase, calls, outer, len, status, req, sent, cut, thrown>>

Plain == {"words", "lit", "fixed", "opaque"}

Chunks(i) ==
    CASE i.k = "words"  -> [j \in DOMAIN i.ts |-> put_uint32(i.ts[j], 0)[1]]
      [] i.k = "lit"    -> put_uint32(i.t, i.v)
      [] i.k = "fixed"  -> put_fixed_opaque(i.t, i.n)
      [] i.k = "opaque" -> put_opaque(i.t, len)

Repeat(layout, n) == FlattenSeq([i \in 1 .. n |-> layout])

PutPlain == Writing(Plain) /\ Put(Chunks(Head(todo)), <<>>)

PutAlt ==
    /\ Writing({"alt"})
    /\ \E d \in DOMAIN Head(todo).f : Put(put_uint32(Head(todo).t, d), Head(todo).f[d])

PutList ==
    /\ Writing({"list"})
    /\ \E n \in 0 .. MaxList :
          Put(<<>>, Repeat(Lit(Head(todo).t, 1) \o Head(todo).body, n) \o Lit(Head(todo).t, 0))

PutArray ==
    /\ Writing({"array"})
    /\ \E n \in 0 .. MaxList :
          Put(put_uint32(Head(todo).t, n), Repeat(Head(todo).body, n))

PutIds == Writing({"ids"}) /\ Put(encode_bitmap4(make_bitmap4(Head(todo).ids)), <<>>)

\* encode_fattr4: the bitmap, then the attributes from an encoder of their own.
PutFattr ==
    /\ Writing({"fattr"})
    /\ \E ids \in Head(todo).sets :
          LET present == SelectSeq(Head(todo).table, LAMBDA a : a.id \in ids)
              items   == FlattenSeq([j \in DOMAIN present |-> present[j].layout])
          IN  Put(encode_bitmap4(make_bitmap4(ids))
                    \o put_nested("attrlist", FlattenSeq([j \in DOMAIN items |-> Chunks(items[j])])),
                  <<>>)

\* encode_fh: the length of the handle decides.
PutFh ==
    /\ Writing({"encode_fh"})
    /\ Put(<<>>, IF len = 0 THEN Head(todo).root ELSE Head(todo).other)

----------------------------------------------------------------------------
(* Decoding, by the server ("request") and by the client ("decode"). *)

Reading(kinds) == phase \in {"request", "decode"} /\ todo # <<>> /\ Head(todo).k \in kinds

\* The call ends: the decoder is dropped with whatever it has not read.
End(exception) ==
    /\ phase' = "done" /\ thrown' = exception
    /\ todo' = <<>> /\ buf' = <<>> /\ outer' = <<>>

\* Goes on with next after a read; a client that runs out of bytes throws.
Got(r, next) ==
    IF r.out = "underflow" /\ phase = "decode" THEN End("underflow")
    ELSE /\ phase' = CASE r.out = "ok"       -> phase
                       [] phase = "request"  -> "garbage_args"
                       [] OTHER              -> "garbage_result"
         /\ buf' = r.rest
         /\ todo' = next \o Tail(todo)
         /\ UNCHANGED <<outer, thrown>>

\* The read r, or "misread" when the reader cannot make sense of what it read.
Sound(r, ok) == IF r.out = "ok" /\ ~ok THEN [r EXCEPT !.out = "misread"] ELSE r

GetPlain ==
    /\ Reading(Plain)
    /\ LET i == Head(todo)
       IN  Got(CASE i.k = "words"  -> get_words(buf, i.ts)
                 [] i.k = "lit"    -> get_uint32(buf, i.t)
                 [] i.k = "fixed"  -> get_fixed_opaque(buf, i.t, i.n)
                 [] i.k = "opaque" -> get_opaque(buf, i.t), <<>>)
    /\ UNCHANGED <<calls, len, status, req, sent, cut>>

GetAlt ==
    /\ Reading({"alt"})
    /\ LET r == get_uint32(buf, Head(todo).t)
           known == r.v \in DOMAIN Head(todo).f
       IN  Got(Sound(r, known), IF r.out = "ok" /\ known THEN Head(todo).f[r.v] ELSE <<>>)
    /\ UNCHANGED <<calls, len, status, req, sent, cut>>

\* while (dec.get_uint32() != 0) { body }
GetList ==
    /\ Reading({"list"})
    /\ LET r == get_uint32(buf, Head(todo).t)
       IN  Got(r, IF r.out = "ok" /\ r.v # 0 THEN Append(Head(todo).body, Head(todo)) ELSE <<>>)
    /\ UNCHANGED <<calls, len, status, req, sent, cut>>

\* for (i = 0; i < count; ++i) { body }
GetArray ==
    /\ Reading({"array"})
    /\ LET r == get_uint32(buf, Head(todo).t)
       IN  Got(r, IF r.out = "ok" THEN Repeat(Head(todo).body, r.v) ELSE <<>>)
    /\ UNCHANGED <<calls, len, status, req, sent, cut>>

\* decode_fattr4: the bitmap, then the attributes it names from a decoder of
\* their own; reading them is sound when every bit is one the reader knows.
GetFattr ==
    /\ Reading({"fattr"})
    /\ LET bm      == decode_bitmap4(buf)
           list    == get_opaque(bm.rest, "attrlist")
           r       == IF bm.out # "ok" THEN bm ELSE list
           table   == Head(todo).table
           present == SelectSeq(table, LAMBDA a : bitmap4_test(bm.v, a.id))
           known   == FoldLeft(LAMBDA n, w : n + Cardinality(w), 0, bm.v) = Len(present)
       IN  IF r.out = "ok" /\ known
           THEN /\ todo' = FlattenSeq([j \in DOMAIN present |-> present[j].layout])
                             \o <<[k |-> "resume"]>> \o Tail(todo)
                /\ buf' = IF present = <<>> THEN <<>> ELSE r.v
                /\ outer' = r.rest
                /\ UNCHANGED <<phase, thrown>>
           ELSE Got(Sound(r, r.out # "ok"), <<>>)
    /\ UNCHANGED <<calls, len, status, req, sent, cut>>

\* The decoder of the attrlist is dropped; it should have come to its end.
Resume ==
    /\ Reading({"resume"})
    /\ phase' = IF buf = <<>> THEN phase
                ELSE IF phase = "request" THEN "garbage_args" ELSE "garbage_result"
    /\ buf' = outer /\ outer' = <<>> /\ todo' = Tail(todo)
    /\ UNCHANGED <<calls, len, status, req, sent, cut, thrown>>

----------------------------------------------------------------------------
(* The client between two reads. *)

GetStatus ==
    /\ Reading({"status"})
    /\ LET r == get_uint32(buf, "status")
       IN  Got(r, <<>>) /\ status' = r.v
    /\ UNCHANGED <<calls, len, req, sent, cut>>

DoCheck ==
    /\ Reading({"check"})
    /\ IF status # 0 THEN End("NfsError")
       ELSE todo' = Tail(todo) /\ UNCHANGED <<phase, buf, outer, thrown>>
    /\ UNCHANGED <<calls, len, status, req, sent, cut>>

DoThrow ==
    /\ Reading({"throw"})
    /\ End(Head(todo).e)
    /\ UNCHANGED <<calls, len, status, req, sent, cut>>

DoLater ==
    /\ Reading({"later"})
    /\ todo' = Tail(todo) \o Head(todo).then
    /\ UNCHANGED <<phase, calls, buf, outer, len, status, req, sent, cut, thrown>>

DoMore ==
    /\ Reading({"more"})
    /\ calls' = <<Head(calls), Head(todo).call>> \o Tail(calls)
    /\ todo' = Tail(todo)
    /\ UNCHANGED <<phase, buf, outer, len, status, req, sent, cut, thrown>>

----------------------------------------------------------------------------
(* The course of a method *)

StartCall(cs) ==
    /\ phase' = "encode" /\ calls' = cs /\ todo' = Head(cs).args /\ buf' = <<>>
    /\ len' \in Lens
    /\ status' = 0 /\ req' = NoReq /\ sent' = 0 /\ cut' = FALSE
    /\ UNCHANGED <<outer, thrown>>

Invoke ==
    /\ phase = "idle"
    /\ \E v \in DOMAIN Methods : \E m \in DOMAIN Methods[v] : StartCall(Methods[v][m])

\* TcpRpcClient::call hands the server the procedure and the encoded arguments.
IsCompound == Head(calls).proc = <<NFS_PROG, 4, 1>>

Send ==
    /\ phase = "encode" /\ todo = <<>>
    /\ phase' = "request"
    /\ todo' = LET p == Head(calls).proc
               IN  IF IsCompound THEN Opaque("tag") \o <<[k |-> "header"]>>
                   ELSE IF p[1] = NFS_PROG THEN NfsArgs3[p[3]]
                   ELSE OtherArgs[p]
    /\ UNCHANGED <<calls, buf, outer, len, status, req, sent, cut, thrown>>

NextCall ==
    /\ phase = "decode" /\ todo = <<>> /\ Len(calls) > 1
    /\ StartCall(Tail(calls))

Return ==
    /\ phase = "decode" /\ todo = <<>> /\ Len(calls) = 1
    /\ End("nothing")
    /\ UNCHANGED <<calls, len, status, req, sent, cut>>

\* The caller goes on; nothing of the call is left.
Forget ==
    /\ phase = "done"
    /\ phase' = "idle" /\ calls' = <<>> /\ len' = 0 /\ status' = 0 /\ req' = NoReq
    /\ sent' = 0 /\ cut' = FALSE /\ thrown' = "nothing"
    /\ UNCHANGED <<todo, buf, outer>>

----------------------------------------------------------------------------
(* The server *)

GetHeader ==
    /\ Reading({"header"})
    /\ LET r == get_words(buf, <<"minor", "numops">>)
       IN  /\ Got(r, IF r.out = "ok" THEN Repeat(<<[k |-> "op"]>>, r.v[2]) ELSE <<>>)
           /\ req' = [req EXCEPT !.minor = IF r.out = "ok" THEN r.v[1] ELSE 0]
    /\ UNCHANGED <<calls, len, status, sent, cut>>

GetOp ==
    /\ Reading({"op"})
    /\ LET r == get_uint32(buf, "op")
           known == r.v \in DOMAIN OpArgs4
       IN  /\ Got(Sound(r, known), IF r.out = "ok" /\ known THEN OpArgs4[r.v] ELSE <<>>)
           /\ req' = [req EXCEPT !.ops = Append(@, r.v)]
    /\ UNCHANGED <<calls, len, status, sent, cut>>

GetIds ==
    /\ Reading({"ids"})
    /\ LET r == decode_bitmap4(buf)
       IN  /\ Got(r, <<>>)
           /\ req' = [req EXCEPT !.asked = IF r.out # "ok" THEN {}
                                           ELSE UNION {{32 * (w - 1) + b : b \in r.v[w]} :
                                                       w \in DOMAIN r.v}]
    /\ UNCHANGED <<calls, len, status, sent, cut>>

\* The server has values for all or none of the attributes asked, or all but one,
\* or just one.
Answers(asked) == {{}, asked} \cup {{a} : a \in asked} \cup {asked \ {a} : a \in asked}

\* A reply to a COMPOUND of which k operations succeed, and to any other call,
\* which succeeds when k = 1.
CompoundReply(k, answer) ==
    LET n      == Len(req.ops)
        Ok(i)  == Lit("resop", req.ops[i]) \o Lit("status", 0)
                    \o OpOk4(req.ops[i], req.minor, answer)
        failed == IF k = n THEN <<>>
                  ELSE Lit("resop", req.ops[k + 1]) \o Lit("status", 1) \o OpFail4(req.ops[k + 1])
    IN  Lit("status", IF k = n THEN 0 ELSE 1) \o Opaque("tag")
          \o Lit("numres", IF k = n THEN n ELSE k + 1)
          \o FlattenSeq([i \in 1 .. k |-> Ok(i)]) \o failed

HasStatus(p) == p[1] = NFS_PROG \/ p = Mnt.proc

OtherReply(p, k) ==
    LET ok == IF p[1] = NFS_PROG THEN NfsOk3[p[3]] ELSE OtherOk[p]
    IN  IF HasStatus(p)
        THEN IF k = 1 THEN Lit("status", 0) \o ok
             ELSE Lit("status", 1) \o IF p[1] = NFS_PROG THEN NfsFail3(p[3]) ELSE <<>>
        ELSE ok

\* The server has read the arguments to their end and executes the request.
Execute ==
    /\ phase = "request" /\ todo = <<>>
    /\ IF buf = <<>> /\ (IsCompound => Executable(req.ops, req.minor))
       THEN \E k \in 0 .. (IF IsCompound THEN Len(req.ops) ELSE 1), answer \in Answers(req.asked) :
              /\ todo' = IF IsCompound THEN CompoundReply(k, answer)
                         ELSE OtherReply(Head(calls).proc, k)
              /\ sent' = IF IsCompound THEN IF k = Len(req.ops) THEN 0 ELSE 1
                         ELSE IF HasStatus(Head(calls).proc) THEN 1 - k ELSE 0
              /\ phase' = "reply"
              /\ len' \in Lens
       ELSE phase' = "garbage_args" /\ UNCHANGED <<todo, sent, len>>
    /\ req' = NoReq
    /\ UNCHANGED <<calls, buf, outer, status, cut, thrown>>

Deliver ==
    /\ phase = "reply" /\ todo = <<>>
    /\ phase' = "decode" /\ todo' = Head(calls).res
    /\ UNCHANGED <<calls, buf, outer, len, status, req, sent, cut, thrown>>

\* The reply turns out to end where the client has read to, at any item of it.  (Inside an
\* attrlist it cannot: get_opaque has taken all of that, or has thrown.)
ReplyCut ==
    /\ phase = "decode" /\ buf # <<>>
    /\ \A i \in DOMAIN todo : todo[i].k # "resume"
    /\ buf' = <<>> /\ cut' = TRUE
    /\ UNCHANGED <<phase, calls, todo, outer, len, status, req, sent, thrown>>

Next ==
    \/ Invoke \/ Send \/ NextCall \/ Return \/ Forget
    \/ PutPlain \/ PutAlt \/ PutList \/ PutArray \/ PutIds \/ PutFattr \/ PutFh
    \/ GetPlain \/ GetAlt \/ GetList \/ GetArray \/ GetFattr \/ Resume
    \/ GetStatus \/ DoCheck \/ DoThrow \/ DoLater \/ DoMore
    \/ GetHeader \/ GetOp \/ GetIds \/ Execute \/ Deliver \/ ReplyCut

Spec == Init /\ [][Next]_vars

----------------------------------------------------------------------------
(* Properties *)

\* Types, with every message a whole number of XDR words unless the transport
\* cut it, and every operation of a request one the server knows.
TypeOK ==
    /\ phase \in Phases
    /\ len \in Lens \cup {0}
    /\ status \in {0, 1} /\ sent \in {0, 1}
    /\ cut \in BOOLEAN
    /\ thrown \in {"nothing", "NfsError", "underflow", "no_handle", "unregistered", "confirm"}
    /\ ~cut => Size(buf) % 4 = 0
    /\ req.minor \in {0, 1} /\ req.ops \in Seq(DOMAIN OpArgs4) /\ req.asked \subseteq 0 .. 95

\* The server takes every request for what the client meant, to its last byte:
\* fields, their order and their padding, unions and optional parts, the number
\* of operations announced, attribute numbers and their order, and a COMPOUND
\* that can be executed (encode_* and call_compound of both protocols).
RequestUnderstood == phase # "garbage_args"

\* The client never takes a field of a result for another one, whatever optional
\* parts the server sends, and leaves no attribute it asked for unread
\* (decode_* of both protocols).
ResultUnderstood == phase # "garbage_result"

\* How a call ends is what happened to it: a method that looks at its reply
\* returns only if the server executed all of the request; NfsError comes from
\* the server's status, and a whole reply with such a status gives nothing else;
\* the decoder runs out of bytes only when the reply lost some.
Outcome ==
    phase = "done" =>
        /\ thrown = "nothing" /\ Head(calls).res # <<>> => sent = 0
        /\ thrown = "NfsError" => sent = 1
        /\ sent = 1 /\ ~cut /\ Head(calls).res # <<>> => thrown = "NfsError"
        /\ thrown = "underflow" => cut
============================================================================
