------------------------------ MODULE Nfs3Wire ------------------------------
(***************************************************************************)
(* What the NFSv3 client writes and reads: one definition for each          *)
(* procedure of src/src/nfs/*.cpp, as [proc, args, res] with proc the       *)
(* program, version and procedure passed to TcpRpcClient::call, args what   *)
(* encode_*_args puts and res what decode_*_reply gets, in its order; then  *)
(* the methods of NFSClient as the calls they make.                         *)
(***************************************************************************)
EXTENDS Xdr

CONSTANT ExclusiveMode   \* whether callers pass EXCLUSIVE to create(), as its mode allows

ASSUME ExclusiveModeAssumption == ExclusiveMode \in BOOLEAN

NFS_PROG   == 100003
MOUNT_PROG == 100005
PMAP_PROG  == 100000

----------------------------------------------------------------------------
(* nfs3_types.hpp *)

Fh3 == Opaque("fh")

Fattr3 == Words(<<"type", "mode", "nlink", "uid", "gid", "size", "size", "used", "used",
                  "rdev", "rdev", "fsid", "fsid", "fileid", "fileid", "atime", "atime",
                  "mtime", "mtime", "ctime", "ctime">>)

\* SetTimeHow: the time follows only SET_TO_CLIENT_TIME.
SetTime3(t) == Alt("set_" \o t, 0 :> <<>> @@ 1 :> <<>> @@ 2 :> Words(<<t, t>>))

Sattr3 ==
    Opt("set_mode", Words(<<"mode">>)) \o Opt("set_uid", Words(<<"uid">>))
      \o Opt("set_gid", Words(<<"gid">>)) \o Opt("set_size", U64("size"))
      \o SetTime3("atime") \o SetTime3("mtime")

PostOpAttr == Opt("has_attrs", Fattr3)
PreOpAttr  == Opt("has_pre", Words(<<"size", "size", "mtime", "mtime", "ctime", "ctime">>))
WccData    == PreOpAttr \o PostOpAttr

----------------------------------------------------------------------------
(* Portmap and MOUNT: each call is made over a connection of its own. *)

Getport == [proc |-> <<PMAP_PROG, 2, 3>>,
            args |-> Words(<<"prog", "vers", "prot", "port">>),
            res  |-> Alt("port", 0 :> Throw("unregistered") @@ 1 :> <<>>)]

Mnt == [proc |-> <<MOUNT_PROG, 3, 1>>, args |-> Opaque("path"),
        res  |-> Status \o Check \o Fh3]        \* auth_flavors is left unread

Umnt == [proc |-> <<MOUNT_PROG, 3, 3>>, args |-> Opaque("path"), res |-> <<>>]

Export == [proc |-> <<MOUNT_PROG, 3, 5>>, args |-> <<>>,
           res  |-> List("export", Opaque("path") \o List("group", Opaque("group")))]

----------------------------------------------------------------------------
(* The NFS program.  Some decoders read the attributes before the check of  *)
(* the status, because the reply carries them in both branches.             *)

\* post_op_fh3, insisted on; obj_attributes; dir_wcc.
NewObject3 == Status \o Check
                \o Alt("has_fh", 0 :> Throw("no_handle") @@ 1 :> Fh3)
                \o PostOpAttr \o WccData

Getattr3 == [proc |-> <<NFS_PROG, 3, 1>>, args |-> Fh3, res |-> Status \o Check \o Fattr3]

Setattr3 == [proc |-> <<NFS_PROG, 3, 2>>,
             args |-> Fh3 \o Sattr3 \o Opt("guard", Words(<<"ctime", "ctime">>)),
             res  |-> Status \o WccData \o Check]

Lookup3 == [proc |-> <<NFS_PROG, 3, 3>>, args |-> Fh3 \o Opaque("name"),
            res  |-> Status \o Check \o Fh3 \o PostOpAttr \o PostOpAttr]

Access3 == [proc |-> <<NFS_PROG, 3, 4>>, args |-> Fh3 \o Words(<<"access">>),
            res  |-> Status \o PostOpAttr \o Check \o Words(<<"access">>)]

Readlink3 == [proc |-> <<NFS_PROG, 3, 5>>, args |-> Fh3,
              res  |-> Status \o PostOpAttr \o Check \o Opaque("target")]

Read3 == [proc |-> <<NFS_PROG, 3, 6>>,
          args |-> Fh3 \o U64("offset") \o Words(<<"count">>),
          res  |-> Status \o PostOpAttr \o Check \o Words(<<"count", "eof">>) \o Opaque("data")]

Write3 == [proc |-> <<NFS_PROG, 3, 7>>,
           args |-> Fh3 \o U64("offset") \o Words(<<"count", "stable">>) \o Opaque("data"),
           res  |-> Status \o WccData \o Check \o Words(<<"count", "stable">>) \o Fixed("verf", 8)]

Create3(mode) == [proc |-> <<NFS_PROG, 3, 8>>,
                  args |-> Fh3 \o Opaque("name") \o Lit("how", mode) \o Sattr3,
                  res  |-> NewObject3]

CreateExclusive3 == [proc |-> <<NFS_PROG, 3, 8>>,
                     args |-> Fh3 \o Opaque("name") \o Lit("how", 2) \o Fixed("createverf", 8),
                     res  |-> NewObject3]

Mkdir3 == [proc |-> <<NFS_PROG, 3, 9>>, args |-> Fh3 \o Opaque("name") \o Sattr3,
           res  |-> NewObject3]

Symlink3 == [proc |-> <<NFS_PROG, 3, 10>>,
             args |-> Fh3 \o Opaque("name") \o Sattr3 \o Opaque("target"),
             res  |-> NewObject3]

Mknod3(type) == [proc |-> <<NFS_PROG, 3, 11>>,
                 args |-> Fh3 \o Opaque("name") \o Lit("ftype", type) \o Sattr3,
                 res  |-> NewObject3]

MknodDevice3(type) == [Mknod3(type) EXCEPT !.args = @ \o Words(<<"major", "minor">>)]

Remove3 == [proc |-> <<NFS_PROG, 3, 12>>, args |-> Fh3 \o Opaque("name"),
            res  |-> Status \o Check \o WccData]

Rmdir3 == [proc |-> <<NFS_PROG, 3, 13>>, args |-> Fh3 \o Opaque("name"),
           res  |-> Status \o Check \o WccData]

\* Mutant: the status is read and never looked at.
Rename3_Unchecked == [proc |-> <<NFS_PROG, 3, 14>>,
                      args |-> Fh3 \o Opaque("name") \o Opaque("to_fh") \o Opaque("to_name"),
                      res  |-> Status \o WccData \o WccData]

Rename3 == [proc |-> <<NFS_PROG, 3, 14>>,
            args |-> Fh3 \o Opaque("name") \o Opaque("to_fh") \o Opaque("to_name"),
            res  |-> Status \o WccData \o WccData \o Check]

Link3 == [proc |-> <<NFS_PROG, 3, 15>>, args |-> Fh3 \o Opaque("to_fh") \o Opaque("to_name"),
          res  |-> Status \o PostOpAttr \o WccData \o Check]

Readdir3 == [proc |-> <<NFS_PROG, 3, 16>>,
             args |-> Fh3 \o U64("cookie") \o Fixed("cookieverf", 8) \o Words(<<"count">>),
             res  |-> Status \o PostOpAttr \o Check \o Fixed("cookieverf", 8)
                        \o List("entry", U64("fileid") \o Opaque("name") \o U64("cookie"))
                        \o Words(<<"eof">>)]

Readdirplus3 == [proc |-> <<NFS_PROG, 3, 17>>,
                 args |-> Fh3 \o U64("cookie") \o Fixed("cookieverf", 8)
                            \o Words(<<"dircount", "maxcount">>),
                 res  |-> Status \o PostOpAttr \o Check \o Fixed("cookieverf", 8)
                            \o List("entry", U64("fileid") \o Opaque("name") \o U64("cookie")
                                               \o PostOpAttr \o Opt("has_fh", Fh3))
                            \o Words(<<"eof">>)]

Fsstat3 == [proc |-> <<NFS_PROG, 3, 18>>, args |-> Fh3,
            res  |-> Status \o PostOpAttr \o Check
                       \o U64("tbytes") \o U64("fbytes") \o U64("abytes")
                       \o U64("tfiles") \o U64("ffiles") \o U64("afiles")
                       \o Words(<<"invarsec">>)]

Fsinfo3 == [proc |-> <<NFS_PROG, 3, 19>>, args |-> Fh3,
            res  |-> Status \o PostOpAttr \o Check
                       \o Words(<<"rtmax", "rtpref", "rtmult", "wtmax", "wtpref", "wtmult",
                                  "dtpref">>)
                       \o U64("maxfilesize") \o Words(<<"time_delta", "time_delta", "properties">>)]

Pathconf3 == [proc |-> <<NFS_PROG, 3, 20>>, args |-> Fh3,
              res  |-> Status \o PostOpAttr \o Check
                         \o Words(<<"linkmax", "name_max", "no_trunc", "chown_restricted",
                                    "case_insensitive", "case_preserving">>)]

Commit3 == [proc |-> <<NFS_PROG, 3, 21>>,
            args |-> Fh3 \o U64("offset") \o Words(<<"count">>),
            res  |-> Status \o WccData \o Check \o Fixed("verf", 8)]

----------------------------------------------------------------------------
(* The methods of NFSClient, as sequences of calls.  readdir and            *)
(* readdirplus, which repeat the page call, are module Readdir.             *)

Methods3 ==
    [construct |-> <<Getport>>, mount |-> <<Getport, Mnt>>, umnt |-> <<Getport, Umnt>>,
     export_list |-> <<Getport, Export>>,
     getattr |-> <<Getattr3>>, lookup |-> <<Lookup3>>, read |-> <<Read3>>,
     write |-> <<Write3>>, create |-> <<Create3(0)>>, create_guarded |-> <<Create3(1)>>,
     create_exclusive |-> <<CreateExclusive3>>, mkdir |-> <<Mkdir3>>,
     remove |-> <<Remove3>>, rmdir |-> <<Rmdir3>>, setattr |-> <<Setattr3>>,
     readdir_page |-> <<Readdir3>>, rename |-> <<Rename3>>, commit |-> <<Commit3>>,
     access |-> <<Access3>>, fsstat |-> <<Fsstat3>>, fsinfo |-> <<Fsinfo3>>,
     pathconf |-> <<Pathconf3>>, readlink |-> <<Readlink3>>, symlink |-> <<Symlink3>>,
     link |-> <<Link3>>, mknod_fifo |-> <<Mknod3(7)>>, mknod_socket |-> <<Mknod3(6)>>,
     mknod_chr |-> <<MknodDevice3(4)>>, mknod_blk |-> <<MknodDevice3(3)>>,
     readdirplus_page |-> <<Readdirplus3>>]
    @@ (IF ExclusiveMode THEN [create_mode_exclusive |-> <<Create3(2)>>] ELSE <<>>)
============================================================================
