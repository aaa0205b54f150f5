----------------------------- MODULE ServerWire -----------------------------
(***************************************************************************)
(* The other end of the wire: portmapper, mount daemon and NFS server.      *)
(* Nothing of it is in the repository; the layouts are those of RFC 1833,   *)
(* RFC 1813, RFC 7530 and RFC 8881, which the sources cite at every         *)
(* structure they put or get.  They are written here from the protocol and  *)
(* not from the client's modules, so that the two descriptions can disagree.*)
(***************************************************************************)
EXTENDS Xdr

----------------------------------------------------------------------------
(* NFSv3 and MOUNT *)

LOCAL Sattr ==
    LET Time(t) == Alt("set_" \o t, 0 :> <<>> @@ 1 :> <<>> @@ 2 :> U64(t))
    IN  Opt("set_mode", Words(<<"mode">>)) \o Opt("set_uid", Words(<<"uid">>))
          \o Opt("set_gid", Words(<<"gid">>)) \o Opt("set_size", U64("size"))
          \o Time("atime") \o Time("mtime")

LOCAL Attr == Words(<<"type", "mode", "nlink", "uid", "gid">>)
                \o U64("size") \o U64("used") \o U64("rdev") \o U64("fsid") \o U64("fileid")
                \o U64("atime") \o U64("mtime") \o U64("ctime")
LOCAL Post == Opt("has_attrs", Attr)
LOCAL Wcc  == Opt("has_pre", U64("size") \o U64("mtime") \o U64("ctime")) \o Post

LOCAL DirOp == Opaque("fh") \o Opaque("name")
LOCAL Page  == Opaque("fh") \o U64("cookie") \o Fixed("cookieverf", 8)

\* Arguments of the NFSv3 procedures, by number.
NfsArgs3 ==
    <<Opaque("fh"),
      Opaque("fh") \o Sattr \o Opt("guard", U64("ctime")),
      DirOp,
      Opaque("fh") \o Words(<<"access">>),
      Opaque("fh"),
      Opaque("fh") \o U64("offset") \o Words(<<"count">>),
      Opaque("fh") \o U64("offset") \o Words(<<"count", "stable">>) \o Opaque("data"),
      DirOp \o Alt("how", 0 :> Sattr @@ 1 :> Sattr @@ 2 :> Fixed("createverf", 8)),
      DirOp \o Sattr,
      DirOp \o Sattr \o Opaque("target"),
      DirOp \o Alt("ftype", 3 :> Sattr \o Words(<<"major", "minor">>)
                              @@ 4 :> Sattr \o Words(<<"major", "minor">>)
                              @@ 6 :> Sattr @@ 7 :> Sattr),
      DirOp,
      DirOp,
      DirOp \o Opaque("to_fh") \o Opaque("to_name"),
      Opaque("fh") \o Opaque("to_fh") \o Opaque("to_name"),
      Page \o Words(<<"count">>),
      Page \o Words(<<"dircount", "maxcount">>),
      Opaque("fh"),
      Opaque("fh"),
      Opaque("fh"),
      Opaque("fh") \o U64("offset") \o Words(<<"count">>)>>

LOCAL Created == Opt("has_fh", Opaque("fh")) \o Post \o Wcc
LOCAL Entry   == U64("fileid") \o Opaque("name") \o U64("cookie")

\* Results of the NFSv3 procedures after status NFS3_OK, by number.
NfsOk3 ==
    <<Attr,
      Wcc,
      Opaque("fh") \o Post \o Post,
      Post \o Words(<<"access">>),
      Post \o Opaque("target"),
      Post \o Words(<<"count", "eof">>) \o Opaque("data"),
      Wcc \o Words(<<"count", "stable">>) \o Fixed("verf", 8),
      Created,
      Created,
      Created,
      Created,
      Wcc,
      Wcc,
      Wcc \o Wcc,
      Post \o Wcc,
      Post \o Fixed("cookieverf", 8) \o List("entry", Entry) \o Words(<<"eof">>),
      Post \o Fixed("cookieverf", 8)
        \o List("entry", Entry \o Post \o Opt("has_fh", Opaque("fh"))) \o Words(<<"eof">>),
      Post \o U64("tbytes") \o U64("fbytes") \o U64("abytes") \o U64("tfiles")
        \o U64("ffiles") \o U64("afiles") \o Words(<<"invarsec">>),
      Post \o Words(<<"rtmax", "rtpref", "rtmult", "wtmax", "wtpref", "wtmult", "dtpref">>)
        \o U64("maxfilesize") \o U64("time_delta") \o Words(<<"properties">>),
      Post \o Words(<<"linkmax", "name_max", "no_trunc", "chown_restricted",
                      "case_insensitive", "case_preserving">>),
      Wcc \o Fixed("verf", 8)>>

\* What follows a failure status.
NfsFail3(proc) ==
    CASE proc = 1                                      -> <<>>
      [] proc \in {2, 7, 8, 9, 10, 11, 12, 13, 21}     -> Wcc
      [] proc = 14                                     -> Wcc \o Wcc
      [] proc = 15                                     -> Post \o Wcc
      [] OTHER                                         -> Post

\* Portmapper and mount daemon, by <<program, version, procedure>>.
OtherArgs == <<100000, 2, 3>> :> Words(<<"prog", "vers", "prot", "port">>)
               @@ <<100005, 3, 1>> :> Opaque("path")
               @@ <<100005, 3, 3>> :> Opaque("path")
               @@ <<100005, 3, 5>> :> <<>>

OtherOk == <<100000, 2, 3>> :> Alt("port", 0 :> <<>> @@ 1 :> <<>>)
             @@ <<100005, 3, 1>> :> Opaque("fh") \o Array("auth_flavors", Words(<<"flavor">>))
             @@ <<100005, 3, 3>> :> <<>>
             @@ <<100005, 3, 5>> :> List("export", Opaque("path") \o List("group", Opaque("group")))

----------------------------------------------------------------------------
(* NFSv4 *)

LOCAL Stateid == Words(<<"stateid.seqid">>) \o Fixed("stateid.other", 12)
LOCAL Time(t) == U64(t) \o Words(<<t>>)
LOCAL Cinfo   == Words(<<"atomic">>) \o U64("before") \o U64("after")
LOCAL A(id, layout) == [id |-> id, layout |-> layout]

\* A fattr4 in either direction: attributes in ascending order of their number.
LOCAL Fattr(sets) ==
    <<[k     |-> "fattr",
       table |-> <<A(1, Words(<<"type">>)), A(3, U64("change")), A(4, U64("size")),
                   A(8, U64("fsid") \o U64("fsid")), A(20, U64("fileid")),
                   A(33, Words(<<"mode">>)), A(35, Words(<<"nlink">>)), A(36, Opaque("owner")),
                   A(37, Opaque("group")), A(45, U64("used")), A(47, Time("atime")),
                   A(48, Alt("time_how", 0 :> <<>> @@ 1 :> Time("atime"))),
                   A(52, Time("ctime")), A(53, Time("mtime")),
                   A(54, Alt("time_how", 0 :> <<>> @@ 1 :> Time("mtime"))),
                   A(55, U64("mounted"))>>,
       sets  |-> sets]>>

LOCAL AskedIds == <<[k |-> "ids", ids |-> {}]>>
LOCAL Chan     == Words(<<"headerpad", "maxrequest", "maxresponse", "maxcached", "maxops",
                          "maxreqs">>)

\* Arguments of the operations, by number.
OpArgs4 ==
    3 :> Words(<<"access">>)
      @@ 4 :> Words(<<"seqid">>) \o Stateid
      @@ 5 :> U64("offset") \o Words(<<"count">>)
      @@ 6 :> Alt("ftype", 2 :> <<>> @@ 5 :> Opaque("target")) \o Opaque("name") \o Fattr({})
      @@ 9 :> AskedIds
      @@ 10 :> <<>>
      @@ 15 :> Opaque("name")
      @@ 18 :> Words(<<"seqid", "share_access", "share_deny">>) \o U64("clientid")
                 \o Opaque("owner")
                 \o Alt("opentype", 0 :> <<>>
                          @@ 1 :> Alt("createmode", 0 :> Fattr({}) @@ 1 :> Fattr({})))
                 \o Alt("claim", 0 :> Opaque("name"))
      @@ 20 :> Stateid \o Words(<<"seqid">>)
      @@ 22 :> Opaque("fh")
      @@ 24 :> <<>>
      @@ 25 :> Stateid \o U64("offset") \o Words(<<"count">>)
      @@ 26 :> U64("cookie") \o Fixed("cookieverf", 8) \o Words(<<"dircount", "maxcount">>)
                 \o AskedIds
      @@ 27 :> <<>>
      @@ 28 :> Opaque("name")
      @@ 29 :> Opaque("name") \o Opaque("to_name")
      @@ 30 :> U64("clientid")
      @@ 32 :> <<>>
      @@ 34 :> Stateid \o Fattr({})
      @@ 35 :> Fixed("verifier", 8) \o Opaque("ownerid") \o Words(<<"cb_program">>)
                 \o Opaque("netid") \o Opaque("addr") \o Words(<<"cb_ident">>)
      @@ 36 :> U64("clientid") \o Fixed("confirm", 8)
      @@ 38 :> Stateid \o U64("offset") \o Words(<<"stable">>) \o Opaque("data")
      @@ 42 :> Fixed("verifier", 8) \o Opaque("ownerid") \o Words(<<"eia_flags">>)
                 \o Alt("spa_how", 0 :> <<>>) \o Array("impl_id", Opaque("nii_domain"))
      @@ 43 :> U64("clientid") \o Words(<<"sequenceid", "csa_flags">>)
                 \o Chan \o Array("rdma_ird", Words(<<"ird">>))
                 \o Chan \o Array("rdma_ird", Words(<<"ird">>))
                 \o Words(<<"cb_program">>) \o Array("sec_parms", Alt("secflavor", 0 :> <<>>))
      @@ 44 :> Fixed("sessionid", 16)
      @@ 53 :> Fixed("sessionid", 16)
                 \o Words(<<"sequenceid", "slotid", "highest_slotid", "cachethis">>)
      @@ 58 :> Words(<<"one_fs">>)

LOCAL AttrSet == Array("attrset", Words(<<"bits">>))
LOCAL Ace     == Words(<<"acetype", "aceflag", "acemask">>) \o Opaque("who")

\* Result of an operation after status NFS4_OK; answer is the set of attributes
\* the server has a value for among those it was asked.
OpOk4(op, minor, answer) ==
    CASE op = 3  -> Words(<<"supported", "access">>)
      [] op \in {4, 20} -> Stateid
      [] op = 5  -> Fixed("verf", 8)
      [] op = 6  -> Cinfo \o AttrSet
      [] op = 9  -> Fattr({answer})
      [] op = 10 -> Opaque("fh")
      [] op = 18 -> Stateid \o Cinfo
                      \o Alt("rflags", [f \in IF minor = 0 THEN {0, 2} ELSE {0} |-> <<>>])
                      \o AttrSet
                      \o Alt("deleg", 0 :> <<>>
                               @@ 1 :> Stateid \o Words(<<"recall">>) \o Ace
                               @@ 2 :> Stateid \o Words(<<"recall">>)
                                         \o Alt("limitby", 1 :> U64("limit")
                                                  @@ 2 :> Words(<<"limit", "limit">>))
                                         \o Ace)
      [] op = 25 -> Words(<<"eof">>) \o Opaque("data")
      [] op = 26 -> Fixed("cookieverf", 8)
                      \o List("entry", U64("cookie") \o Opaque("name") \o Fattr({answer}))
                      \o Words(<<"eof">>)
      [] op = 27 -> Opaque("target")
      [] op = 28 -> Cinfo
      [] op = 29 -> Cinfo \o Cinfo
      [] op = 34 -> AttrSet
      [] op = 35 -> U64("clientid") \o Fixed("confirm", 8)
      [] op = 38 -> Words(<<"count", "stable">>) \o Fixed("verf", 8)
      [] op = 42 -> U64("clientid") \o Words(<<"sequenceid", "eir_flags", "spr_how">>)
                      \o U64("so_minor") \o Opaque("so_major") \o Opaque("scope")
                      \o Array("impl_id", Opaque("nii_domain") \o Opaque("nii_name")
                                            \o Time("nii_date"))
      [] op = 43 -> Fixed("sessionid", 16) \o Words(<<"sequenceid", "csr_flags">>)
                      \o Chan \o Lit("rdma_ird", 0) \o Chan \o Lit("rdma_ird", 0)
      [] op = 53 -> Fixed("sessionid", 16)
                      \o Words(<<"sequenceid", "slotid", "highest_slotid", "target_highest",
                                 "sr_flags">>)
      [] OTHER   -> <<>>

\* What follows a failure status: only SETATTR4res has something.
OpFail4(op) == IF op = 34 THEN AttrSet ELSE <<>>

\* Operations that NFSv4.1 dropped, and those it added.
Only40 == {20, 30, 35, 36}
Only41 == {42, 43, 44, 53, 58}

\* Operations that may start a COMPOUND of minor version 1.
Starts41 == {42, 43, 44, 53}

NeedsHandle == {3, 4, 5, 6, 9, 10, 15, 18, 20, 25, 26, 27, 28, 29, 32, 34, 38}

\* A COMPOUND the server can execute to its end: operations of its minor version,
\* SEQUENCE first in a session, a current handle before the operations that use
\* one and a saved one before RENAME.
Executable(ops, minor) ==
    /\ \A i \in DOMAIN ops : ops[i] \notin IF minor = 0 THEN Only41 ELSE Only40
    /\ minor = 1 => ops # <<>> /\ ops[1] \in Starts41
    /\ \A i \in DOMAIN ops :
          /\ ops[i] \in NeedsHandle => \E j \in 1 .. i - 1 : ops[j] \in {22, 24}
          /\ ops[i] = 29 => \E j \in 1 .. i - 1 : ops[j] = 32
============================================================================
