------------------------------ MODULE Nfs4Wire ------------------------------
(***************************************************************************)
(* What the NFSv4.0 and NFSv4.1 clients write and read: one definition for  *)
(* each operation of src/src/nfs4/*.cpp, as [enc, dec] with enc what its    *)
(* encode_ function puts and dec what its decode_ function gets; then the   *)
(* methods of Nfs4Client and Nfs41Client as the COMPOUNDs they send, each   *)
(* with the operation count the method passes.                              *)
(***************************************************************************)
EXTENDS Nfs3Wire

CONSTANT SetTimes   \* whether callers set time_access and time_modify of a Sattr4

----------------------------------------------------------------------------
(* nfs4_types.hpp *)

Nfs4Fh      == Opaque("fh")
Stateid4    == Words(<<"stateid.seqid">>) \o Fixed("stateid.other", 12)
Nfstime4(t) == Words(<<t, t, t>>)                       \* int64 seconds, uint32 nseconds
ChangeInfo4 == Words(<<"atomic", "before", "before", "after", "after">>)

----------------------------------------------------------------------------
(* Attributes (nfs4_attr.hpp, nfs4_attr.cpp) *)

attr == [TYPE |-> 1, CHANGE |-> 3, SIZE |-> 4, FSID |-> 8, FILEID |-> 20, MODE |-> 33,
         NUMLINKS |-> 35, OWNER |-> 36, OWNER_GROUP |-> 37, SPACE_USED |-> 45,
         TIME_ACCESS |-> 47, TIME_METADATA |-> 52, TIME_MODIFY |-> 53,
         MOUNTED_ON_FILEID |-> 55, TIME_ACCESS_SET |-> 64, TIME_MODIFY_SET |-> 65]

\* A bitmap4 is a sequence of words; a word is the set of its bits that are on.
make_bitmap4(ids) ==
    LET words == {id \div 32 : id \in ids}
    IN  [w \in 1 .. (IF ids = {} THEN 0 ELSE 1 + Max(words)) |->
            {id % 32 : id \in {i \in ids : i \div 32 = w - 1}}]

bitmap4_test(bm, id) == id \div 32 < Len(bm) /\ id % 32 \in bm[(id \div 32) + 1]

encode_bitmap4(bm) ==
    put_uint32("bitmap", Len(bm)) \o [w \in DOMAIN bm |-> put_uint32("bits", bm[w])[1]]

decode_bitmap4(buf) ==
    LET count == get_uint32(buf, "bitmap")
    IN  IF count.out # "ok" THEN count
        ELSE get_words(count.rest, [w \in 1 .. count.v |-> "bits"])

\* encode_attr_request: the bitmap of the attributes asked for.
AttrRequest(ids) == <<[k |-> "ids", ids |-> ids]>>

\* A fattr4: the bitmap of one of sets, then the attributes in the order of table.
Fattr4(table, sets) == <<[k |-> "fattr", table |-> table, sets |-> sets]>>

\* The order in which decode_fattr4 looks for attributes, and what it reads.
decode_fattr4 ==
    LET A(id, layout) == [id |-> id, layout |-> layout]
    IN  Fattr4(<<A(attr.TYPE, Words(<<"type">>)), A(attr.CHANGE, U64("change")),
                 A(attr.SIZE, U64("size")), A(attr.FSID, U64("fsid") \o U64("fsid")),
                 A(attr.FILEID, U64("fileid")), A(attr.MODE, Words(<<"mode">>)),
                 A(attr.NUMLINKS, Words(<<"nlink">>)), A(attr.OWNER, Opaque("owner")),
                 A(attr.OWNER_GROUP, Opaque("group")), A(attr.SPACE_USED, U64("used")),
                 A(attr.TIME_ACCESS, Nfstime4("atime")),
                 A(attr.TIME_METADATA, Nfstime4("ctime")),
                 A(attr.TIME_MODIFY, Nfstime4("mtime")),
                 A(attr.MOUNTED_ON_FILEID, U64("mounted"))>>, {})

\* encode_fattr4 of any Sattr4 whose present fields are a subset of fields.
encode_fattr4(fields) ==
    LET A(id, layout) == [id |-> id, layout |-> layout]
        Time(t)       == Lit("time_how", 1) \o Nfstime4(t)
    IN  Fattr4(<<A(attr.SIZE, U64("size")), A(attr.MODE, Words(<<"mode">>)),
                 A(attr.OWNER, Opaque("owner")), A(attr.OWNER_GROUP, Opaque("group")),
                 A(attr.TIME_ACCESS_SET, Time("atime")),
                 A(attr.TIME_MODIFY_SET, Time("mtime"))>>, SUBSET fields)

Sattr4 == encode_fattr4({attr.SIZE, attr.MODE, attr.OWNER, attr.OWNER_GROUP}
                          \cup IF SetTimes THEN {attr.TIME_ACCESS_SET, attr.TIME_MODIFY_SET}
                               ELSE {})

----------------------------------------------------------------------------
(* The operations.  Every decoder reads resop, which it ignores, and status. *)

Op(code, args) == Lit("op", code) \o args
OpResult(body) == Words(<<"resop">>) \o Status \o Check \o body

Putrootfh4 == [enc |-> Op(24, <<>>), dec |-> OpResult(<<>>)]
Getfh4     == [enc |-> Op(10, <<>>), dec |-> OpResult(Nfs4Fh)]
Savefh4    == [enc |-> Op(32, <<>>), dec |-> OpResult(<<>>)]

\* encode_fh: the empty handle stands for the root.
Fh4 == [enc |-> <<[k |-> "encode_fh", root |-> Op(24, <<>>), other |-> Op(22, Nfs4Fh)]>>,
        dec |-> OpResult(<<>>)]

Lookup4   == [enc |-> Op(15, Opaque("name")), dec |-> OpResult(<<>>)]
Readlink4 == [enc |-> Op(27, <<>>), dec |-> OpResult(Opaque("target"))]

Getattr4(ids) == [enc |-> Op(9, AttrRequest(ids)), dec |-> OpResult(decode_fattr4)]

AttrSet4 == Array("attrset", Words(<<"bits">>))         \* read and discarded

Setattr4 == [enc |-> Op(34, Stateid4 \o Sattr4), dec |-> OpResult(AttrSet4)]

Access4 == [enc |-> Op(3, Words(<<"access">>)),
            dec |-> OpResult(Words(<<"supported", "access">>))]

Commit4 == [enc |-> Op(5, U64("offset") \o Words(<<"count">>)),
            dec |-> OpResult(Fixed("verf", 8))]

Read4 == [enc |-> Op(25, Stateid4 \o U64("offset") \o Words(<<"count">>)),
          dec |-> OpResult(Words(<<"eof">>) \o Opaque("data"))]

Write4 == [enc |-> Op(38, Stateid4 \o U64("offset") \o Words(<<"stable">>) \o Opaque("data")),
           dec |-> OpResult(Words(<<"count", "stable">>) \o Fixed("verf", 8))]

CreateDir4 == [enc |-> Op(6, Lit("ftype", 2) \o Opaque("name") \o Sattr4),
               dec |-> OpResult(ChangeInfo4 \o AttrSet4)]

CreateSymlink4 == [enc |-> Op(6, Lit("ftype", 5) \o Opaque("target") \o Opaque("name") \o Sattr4),
                   dec |-> OpResult(ChangeInfo4 \o AttrSet4)]

Remove4 == [enc |-> Op(28, Opaque("name")), dec |-> OpResult(ChangeInfo4)]

Rename4 == [enc |-> Op(29, Opaque("name") \o Opaque("to_name")),
            dec |-> OpResult(ChangeInfo4 \o ChangeInfo4)]

Readdir4(ids) ==
    [enc |-> Op(26, U64("cookie") \o Fixed("cookieverf", 8)
                      \o Words(<<"dircount", "maxcount">>) \o AttrRequest(ids)),
     dec |-> OpResult(Fixed("cookieverf", 8)
                        \o List("entry", U64("cookie") \o Opaque("name") \o decode_fattr4)
                        \o Words(<<"eof">>))]

\* encode_open_prefix, then NOCREATE or CREATE of an UNCHECKED file without
\* attributes, then CLAIM_NULL.
OpenArgs4(create) ==
    Op(18, Words(<<"seqid", "share_access", "share_deny">>) \o U64("clientid") \o Opaque("owner"))
      \o (IF create THEN Lit("opentype", 1) \o Lit("createmode", 0) \o encode_fattr4({})
          ELSE Lit("opentype", 0))
      \o Lit("claim", 0) \o Opaque("name")

Nfsace4 == Words(<<"acetype", "aceflag", "acemask">>) \o Opaque("who")

\* Mutant: the delegation is taken for its type alone.
OpenResult4_NoDelegation(confirm) ==
    OpResult(Stateid4 \o ChangeInfo4 \o Alt("rflags", 0 :> <<>> @@ 2 :> Later(confirm))
               \o AttrSet4 \o Words(<<"deleg">>))

\* confirm: what the caller does when OPEN4_RESULT_CONFIRM is among rflags.
OpenResult4(confirm) ==
    OpResult(Stateid4 \o ChangeInfo4
               \o Alt("rflags", 0 :> <<>> @@ 2 :> Later(confirm))
               \o AttrSet4
               \o Alt("deleg", 0 :> <<>>
                        @@ 1 :> Stateid4 \o Words(<<"recall">>) \o Nfsace4
                        @@ 2 :> Stateid4 \o Words(<<"recall", "limitby", "limit", "limit">>)
                                  \o Nfsace4))

Open4(create, confirm) == [enc |-> OpenArgs4(create), dec |-> OpenResult4(confirm)]

OpenConfirm4 == [enc |-> Op(20, Stateid4 \o Words(<<"seqid">>)), dec |-> OpResult(Stateid4)]

Close4 == [enc |-> Op(4, Words(<<"seqid">>) \o Stateid4), dec |-> OpResult(Stateid4)]

Renew4 == [enc |-> Op(30, U64("clientid")), dec |-> OpResult(<<>>)]

Setclientid4 ==
    [enc |-> Op(35, Fixed("verifier", 8) \o Opaque("ownerid") \o Words(<<"cb_program">>)
                      \o Opaque("netid") \o Opaque("addr") \o Words(<<"cb_ident">>)),
     dec |-> OpResult(U64("clientid") \o Fixed("confirm", 8))]

SetclientidConfirm4 == [enc |-> Op(36, U64("clientid") \o Fixed("confirm", 8)),
                        dec |-> OpResult(<<>>)]

----------------------------------------------------------------------------
(* The operations of NFSv4.1 (session41.cpp) *)

ExchangeId41 ==
    [enc |-> Op(42, Fixed("verifier", 8) \o Opaque("ownerid") \o Words(<<"eia_flags">>)
                      \o Lit("spa_how", 0) \o Lit("impl_id", 0)),
     dec |-> OpResult(U64("clientid") \o Words(<<"sequenceid", "eir_flags", "spr_how">>)
                        \o U64("so_minor") \o Opaque("so_major") \o Opaque("scope")
                        \o Array("impl_id", Opaque("nii_domain") \o Opaque("nii_name")
                                              \o Nfstime4("nii_date")))]

ChannelAttrs == <<"headerpad", "maxrequest", "maxresponse", "maxcached", "maxops", "maxreqs">>

CreateSession41 ==
    LET Chan == Words(ChannelAttrs) \o Lit("rdma_ird", 0)
    IN  [enc |-> Op(43, U64("clientid") \o Words(<<"sequenceid", "csa_flags">>)
                          \o Chan \o Chan \o Words(<<"cb_program">>)
                          \o Lit("sec_parms", 1) \o Lit("secflavor", 0)),
         dec |-> OpResult(Fixed("sessionid", 16) \o Words(<<"sequenceid", "csr_flags">>)
                            \o Words(ChannelAttrs \o <<"rdma_ird">>)
                            \o Words(ChannelAttrs \o <<"rdma_ird">>))]

Sequence41 ==
    [enc |-> Op(53, Fixed("sessionid", 16)
                      \o Words(<<"sequenceid", "slotid", "highest_slotid", "cachethis">>)),
     dec |-> OpResult(Fixed("sessionid", 16)
                        \o Words(<<"sequenceid", "slotid", "highest_slotid",
                                   "target_highest", "sr_flags">>))]

ReclaimComplete41 == [enc |-> Op(58, Words(<<"one_fs">>)), dec |-> OpResult(<<>>)]

DestroySession41 == [enc |-> Op(44, Fixed("sessionid", 16)), dec |-> OpResult(<<>>)]

----------------------------------------------------------------------------
(* COMPOUND: call_compound and check_compound_status.  num_ops is what the  *)
(* caller passes; nothing in the code relates it to the operations encoded. *)

Compound(minor, num_ops, ops) ==
    [proc |-> <<NFS_PROG, 4, 1>>,
     args |-> Opaque("tag") \o Lit("minor", minor) \o Lit("numops", num_ops)
                \o FlattenSeq([i \in DOMAIN ops |-> ops[i].enc]),
     res  |-> Status \o Check \o Opaque("tag") \o Words(<<"numres">>)
                \o FlattenSeq([i \in DOMAIN ops |-> ops[i].dec])]

Compound40(num_ops, ops) == Compound(0, num_ops, ops)

\* Mutant: SEQUENCE is not counted.
Compound41_Uncounted(num_ops, ops) == Compound(1, num_ops, <<Sequence41>> \o ops)

\* Nfs41Client::compound41: SEQUENCE in front, and one more operation.
Compound41(num_ops, ops) == Compound(1, num_ops + 1, <<Sequence41>> \o ops)

GetattrIds == {attr.TYPE, attr.CHANGE, attr.SIZE, attr.FILEID, attr.MODE, attr.NUMLINKS,
               attr.OWNER, attr.OWNER_GROUP, attr.TIME_ACCESS, attr.TIME_METADATA,
               attr.TIME_MODIFY}

ReaddirIds == {attr.TYPE, attr.SIZE, attr.FILEID, attr.MODE, attr.TIME_MODIFY}

----------------------------------------------------------------------------
(* The methods of Nfs4Client.  NFS4ERR_GRACE is retried in module Nfs40Open *)
(* and the page loop of readdir is module Readdir.                          *)

Construct40 ==
    [construct |-> <<Getport, Compound40(1, <<Setclientid4>>),
                     Compound40(1, <<SetclientidConfirm4>>),
                     Compound40(2, <<Putrootfh4, Getfh4>>)>>]

FileMethods40 ==
    LET confirm      == More(Compound40(2, <<Fh4, OpenConfirm4>>))
        Open(create) == <<Compound40(3, <<Fh4, Open4(create, confirm), Getfh4>>)>>
    IN  [lookup  |-> <<Compound40(3, <<Fh4, Lookup4, Getfh4>>)>>,
         getattr |-> <<Compound40(2, <<Fh4, Getattr4(GetattrIds)>>)>>,
         access  |-> <<Compound40(2, <<Fh4, Access4>>)>>,
         open    |-> Open(FALSE),
         create  |-> Open(TRUE),
         close   |-> <<Compound40(2, <<Fh4, Close4>>)>>]

DataMethods40 ==
    [read   |-> <<Compound40(2, <<Fh4, Read4>>)>>,
     write  |-> <<Compound40(2, <<Fh4, Write4>>)>>,
     commit |-> <<Compound40(2, <<Fh4, Commit4>>)>>]

NameMethods40 ==
    [mkdir    |-> <<Compound40(3, <<Fh4, CreateDir4, Getfh4>>)>>,
     remove   |-> <<Compound40(2, <<Fh4, Remove4>>)>>,
     rename   |-> <<Compound40(4, <<Fh4, Savefh4, Fh4, Rename4>>)>>,
     symlink  |-> <<Compound40(3, <<Fh4, CreateSymlink4, Getfh4>>)>>,
     readlink |-> <<Compound40(2, <<Fh4, Readlink4>>)>>,
     setattr  |-> <<Compound40(2, <<Fh4, Setattr4>>)>>,
     readdir  |-> <<Compound40(2, <<Fh4, Readdir4(ReaddirIds)>>)>>,
     renew    |-> <<Compound40(1, <<Renew4>>)>>]

Methods40 == Construct40 @@ FileMethods40 @@ DataMethods40 @@ NameMethods40

----------------------------------------------------------------------------
(* The methods of Nfs41Client. *)

Construct41 ==
    [construct |-> <<Getport, Compound(1, 1, <<ExchangeId41>>),
                     Compound(1, 1, <<CreateSession41>>),
                     Compound41(1, <<ReclaimComplete41>>),
                     Compound41(2, <<Putrootfh4, Getfh4>>)>>,
     \* the destructor looks at no reply and swallows every exception
     destruct  |-> <<[Compound(1, 1, <<DestroySession41>>) EXCEPT !.res = <<>>]>>]

FileMethods41 ==
    LET confirm      == Throw("confirm")
        Open(create) == <<Compound41(3, <<Fh4, Open4(create, confirm), Getfh4>>)>>
    IN  [lookup  |-> <<Compound41(3, <<Fh4, Lookup4, Getfh4>>)>>,
         getattr |-> <<Compound41(2, <<Fh4, Getattr4(GetattrIds)>>)>>,
         access  |-> <<Compound41(2, <<Fh4, Access4>>)>>,
         open    |-> Open(FALSE),
         create  |-> Open(TRUE),
         close   |-> <<Compound41(2, <<Fh4, Close4>>)>>]

DataMethods41 ==
    [read   |-> <<Compound41(2, <<Fh4, Read4>>)>>,
     write  |-> <<Compound41(2, <<Fh4, Write4>>)>>,
     commit |-> <<Compound41(2, <<Fh4, Commit4>>)>>]

NameMethods41 ==
    [mkdir    |-> <<Compound41(3, <<Fh4, CreateDir4, Getfh4>>)>>,
     remove   |-> <<Compound41(2, <<Fh4, Remove4>>)>>,
     rename   |-> <<Compound41(4, <<Fh4, Savefh4, Fh4, Rename4>>)>>,
     symlink  |-> <<Compound41(3, <<Fh4, CreateSymlink4, Getfh4>>)>>,
     readlink |-> <<Compound41(2, <<Fh4, Readlink4>>)>>,
     setattr  |-> <<Compound41(2, <<Fh4, Setattr4>>)>>,
     readdir  |-> <<Compound41(2, <<Fh4, Readdir4(ReaddirIds)>>)>>]

Methods41 == Construct41 @@ FileMethods41 @@ DataMethods41 @@ NameMethods41
============================================================================
