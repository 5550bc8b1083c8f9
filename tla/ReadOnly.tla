------------------------------ MODULE ReadOnly ------------------------------
(***************************************************************************)
(* passthrough/read_only.rs: PassthroughFsRo, the file system of a share   *)
(* exported with --readonly.  It hands a request on to PassthroughFs,      *)
(* refuses it, or opens with fewer flags.                                  *)
(***************************************************************************)
EXTENDS FileOps

P == INSTANCE PassthroughFs

\* ops_allow!
Allowed == {"init", "destroy", "lookup", "forget", "batch_forget", "getattr", "readlink", "read", "flush",
            "fsync", "release", "statfs", "getxattr", "listxattr", "readdir", "fsyncdir", "releasedir", "lseek",
            "syncfs"}

\* ops_forbid!
Refused == {"setattr", "symlink", "mknod", "mkdir", "unlink", "rmdir", "rename", "link", "write", "fallocate",
            "setxattr", "removexattr", "copyfilerange"}

\* Mutant: O_TRUNC is let through, as it means nothing without write access.
read_only_open_trunc(flags) ==
  IF "path" \in flags /\ config.os = "linux" THEN "ok"
  ELSE IF flags \cap {"write", "excl"} # {} THEN "EROFS"
  ELSE IF "tmpfile" \in flags THEN "EINVAL" ELSE "ok"

\* read_only_open: "ok", or the error.
read_only_open(flags) ==
  IF "path" \in flags /\ config.os = "linux" THEN "ok"
  ELSE IF flags \cap {"write", "excl"} # {} THEN "EROFS"
  ELSE IF flags \cap {"tmpfile", "trunc"} # {} THEN "EINVAL" ELSE "ok"

\* rofs_open: what was not there is not made.  `outs` are the outcomes of the
\* open without O_CREAT.
rofs_open(s, flags, outs) ==
  IF read_only_open(flags) # "ok" THEN Err(s, read_only_open(flags))
  ELSE IF "creat" \notin flags THEN outs
  ELSE {IF ~o.ok /\ o.val = "ENOENT" THEN [o EXCEPT !.val = "EROFS"] ELSE o : o \in outs}

open(s, q) == rofs_open(s, q.flags, P!open(s, [q EXCEPT !.flags = @ \ {"creat"}]))
opendir(s, q) == rofs_open(s, q.flags, P!opendir(s, [q EXCEPT !.flags = @ \ {"creat"}]))

\* create: a lookup and an open.
create(s, q) ==
  LET found == {IF ~o.ok /\ o.val = "ENOENT" THEN [o EXCEPT !.val = "EROFS"] ELSE o : o \in P!lookup(s, q)}
  IN Then(found, LAMBDA t, f : open(t, [ino |-> f, kill_priv |-> q.kill_priv, flags |-> q.flags]))

access(s, q) == IF q.write THEN Err(s, "EROFS") ELSE P!access(s, q)

Call(s, q) ==
  CASE q.op \in Allowed -> P!Call(s, q)
    [] q.op \in Refused -> Err(s, "EROFS")
    [] q.op = "open"    -> open(s, q)
    [] q.op = "create"  -> create(s, q)
    [] q.op = "opendir" -> opendir(s, q)
    [] q.op = "access"  -> access(s, q)
=============================================================================
