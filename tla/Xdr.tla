-------------------------------- MODULE Xdr --------------------------------
(***************************************************************************)
(* XdrEncoder and XdrDecoder (src/src/xdr/xdr.cpp), and the vocabulary in   *)
(* which the other wire modules write the layout of a message.              *)
(*                                                                          *)
(* A buffer is a sequence of chunks [t, n, v]: n bytes that its writer      *)
(* meant as field t, with value v where a reader acts on the value (0       *)
(* elsewhere).  The encoder appends chunks.  The decoder consumes them from *)
(* the front by byte counts: it fails with "underflow" exactly where        *)
(* require() throws, and the model adds the outcome "misread" for bytes     *)
(* taken for something their writer did not mean, which the program cannot  *)
(* see and goes on with.                                                    *)
(***************************************************************************)
EXTENDS Integers, SequencesExt

\* Mutant: no padding, as if opaques were sent as they are.
Pad_None(n) == 0

\* Padding of n bytes up to a 4-byte boundary.
Pad(n) == (4 - (n % 4)) % 4

\* Number of bytes of a buffer: size() of an encoder, size_ - offset_ of a decoder.
Size(buf) == FoldLeft(LAMBDA sum, c : sum + c.n, 0, buf)

----------------------------------------------------------------------------
(* XdrEncoder: what each put_ appends. *)

put_uint32(t, v) == <<[t |-> t, n |-> 4, v |-> v]>>

\* n bytes of field t, possibly none.
Bytes(t, n) == IF n = 0 THEN <<>> ELSE <<[t |-> t, n |-> n, v |-> 0]>>

put_fixed_opaque(t, n) == Bytes(t, n) \o Bytes("pad", Pad(n))

put_opaque(t, n) == put_uint32("len", n) \o put_fixed_opaque(t, n)

\* put_opaque of the bytes of another encoder (the attrlist of a fattr4).
put_nested(t, body) ==
    put_uint32("len", Size(body))
      \o IF body = <<>> THEN <<>> ELSE <<[t |-> t, n |-> Size(body), v |-> body]>>

----------------------------------------------------------------------------
(* XdrDecoder: each get_ returns [out, v, rest]. *)

\* require(n), then n bytes of field t.
Take(buf, t, n) ==
    LET Result(out, v, rest) == [out |-> out, v |-> v, rest |-> rest]
    IN  IF Size(buf) < n THEN Result("underflow", 0, buf)
        ELSE IF n = 0 THEN Result("ok", 0, buf)
        ELSE IF Head(buf).t # t \/ Head(buf).n # n THEN Result("misread", 0, buf)
        ELSE Result("ok", Head(buf).v, Tail(buf))

get_uint32(buf, t) == Take(buf, t, 4)

get_fixed_opaque(buf, t, n) ==
    LET data == Take(buf, t, n)
        pad  == Take(data.rest, "pad", Pad(n))
    IN  IF data.out # "ok" THEN data ELSE [pad EXCEPT !.v = data.v]

get_opaque(buf, t) ==
    LET len == get_uint32(buf, "len")
    IN  IF len.out # "ok" THEN len ELSE get_fixed_opaque(len.rest, t, len.v)

\* A run of uint32 fields; v is the sequence of their values.
get_words(buf, ts) ==
    FoldLeft(LAMBDA r, t : IF r.out # "ok" THEN r
                           ELSE LET w == get_uint32(r.rest, t)
                                IN  [w EXCEPT !.v = Append(r.v, w.v)],
             [out |-> "ok", v |-> <<>>, rest |-> buf], ts)

----------------------------------------------------------------------------
(* Layouts: sequences of items, joined with \o.  A writer carries the items *)
(* out with the put_ operators and a reader with the get_ operators.        *)

Words(ts)     == <<[k |-> "words", ts |-> ts]>>           \* uint32 fields
Lit(t, v)     == <<[k |-> "lit", t |-> t, v |-> v]>>      \* a constant uint32
Fixed(t, n)   == <<[k |-> "fixed", t |-> t, n |-> n]>>    \* opaque of n bytes
Opaque(t)     == <<[k |-> "opaque", t |-> t]>>            \* opaque<> or string<>
Alt(t, f)     == <<[k |-> "alt", t |-> t, f |-> f]>>      \* union: f by discriminant
List(t, body) == <<[k |-> "list", t |-> t, body |-> body]>>   \* value_follows list
Array(t, body) == <<[k |-> "array", t |-> t, body |-> body]>> \* counted array

U64(t)        == Words(<<t, t>>)                          \* put_uint64: two words
Opt(t, body)  == Alt(t, 0 :> <<>> @@ 1 :> body)           \* bool and optional body

\* Items that read no bytes: what the code does between two reads.
Status   == <<[k |-> "status"]>>              \* status = dec.get_uint32()
Check    == <<[k |-> "check"]>>               \* if (status != 0) throw NfsError
Throw(e) == <<[k |-> "throw", e |-> e]>>      \* throw std::runtime_error
Later(i) == <<[k |-> "later", then |-> i]>>   \* do i when the reply has been read
More(c)  == <<[k |-> "more", call |-> c]>>    \* make call c before returning
============================================================================
