------------------------------- MODULE FileOps -------------------------------
(***************************************************************************)
(* passthrough/mod.rs: what the file system handlers do to the host's      *)
(* files, to the inode and handle tables and to the identity of the thread *)
(* that runs them.                                                         *)
(*                                                                         *)
(* Every handler is a chain of host calls, each of which may fail, and     *)
(* each failure returns at once ("?").  So a handler is an operator from a *)
(* state to the SET of its outcomes, and Then chains two of them.  A scope *)
(* guard (credentials, umask, working directory, capability) is an         *)
(* operator that changes the thread, runs its body and undoes the change   *)
(* in every outcome of the body, as Drop does.                             *)
(*                                                                         *)
(* The shared directory is one directory; its files are Files, their names *)
(* Names.  Open flags are sets of flag names (OpenFlags has the encoding), *)
(* xattr names go through XattrMap, ids through SoftIdMap.                 *)
(***************************************************************************)
EXTENDS Naturals, Sequences, FiniteSets, XattrMap, SoftIdMap
LOCAL INSTANCE SequencesExt
LOCAL INSTANCE FiniteSetsExt

CONSTANTS
  Files,     \* host inodes other than the root directory
  RootDir,   \* the root directory: fuse::ROOT_ID
  Names,     \* names in the root directory
  Handles,   \* what guest_fd_limit leaves for open files: handle numbers
  None       \* no file, no handle

VARIABLES
  config,    \* the command line: Config in passthrough/mod.rs
  host,      \* the files of the host: file, and at, the names
  thread,    \* the identity of the worker thread
  fs         \* PassthroughFs: refs, handles, up, and the options of the guest

Cap == <<"security", "capability">>
Acl == <<"system", "posix_acl_access">>
AclDefault == <<"system", "posix_acl_default">>
Secctx == <<"security", "selinux">>
Root == 0  \* the id of the root user and group
Inodes == Files \cup {RootDir}

\* What the thread is between two requests.
Daemon == [uid |-> Root, gid |-> Root, groups |-> FALSE, umask |-> "none", cwd |-> "orig",
           fsetid |-> TRUE, dac |-> TRUE]

\* FileType::from_mode, is_regular_file and util.rs, is_safe_inode.
is_regular_file(s, f) == s.host.file[f].type = "reg"
is_safe_inode(s, f) == s.host.file[f].type \in {"reg", "dir"}
-----------------------------------------------------------------------------
Ok(s, v) == {[s |-> s, ok |-> TRUE, val |-> v]}
Err(s, e) == {[s |-> s, ok |-> FALSE, val |-> e]}

\* `?`: what follows runs on success only.
Then(outs, F(_, _)) == UNION {IF o.ok THEN F(o.s, o.val) ELSE {o} : o \in outs}

\* A host call: it takes effect, or fails and takes none.
Sys(s, t, v) == Ok(t, v) \cup Err(s, "EIO")

\* A guard's Drop, in every outcome of its scope.
Undo(outs, F(_)) == {[o EXCEPT !.s = F(o.s)] : o \in outs}

\* ScopedWorkingDirectory, by switch_to_proc_self_fd.
WorkIn(s, dir) == [s EXCEPT !.thread.cwd = dir]
InProcSelfFd(s, F(_)) == Undo(F(WorkIn(s, "proc")), LAMBDA t : WorkIn(t, "orig"))

\* oslib.rs, ScopedUmask: only with posix_acl, else the umask stays clear.
umask(s, mask) == [s EXCEPT !.thread.umask = mask]
ScopedUmask(s, F(_)) ==
  IF s.fs.nego.posix_acl
  THEN Undo(F(umask(s, "guest")), LAMBDA t : umask(t, s.thread.umask)) ELSE F(s)

\* credentials.rs, drop_effective_cap and ScopedCaps: FSETID is dropped, when
\* the thread has it, for the scope of F.  macOS has no capabilities.
SetFsetid(s, on) == [s EXCEPT !.thread.fsetid = on]
WithoutFsetid(s, kill_priv, F(_)) ==
  IF ~(config.killpriv_v2 /\ kill_priv /\ config.os = "linux") THEN F(s)
  ELSE Err(s, "EINVAL") \cup
       IF ~s.thread.fsetid THEN F(s)
       ELSE Undo(F(SetFsetid(s, FALSE)), LAMBDA t : SetFsetid(t, TRUE))

\* map_guest_uid and map_guest_gid.
MapGuestId(s, id) ==
  LET h == map_guest(IdMapOf(config.idmap), id)
  IN IF h = Forbidden THEN Err(s, "EPERM") ELSE Ok(s, h)

\* UnixCredentials::set: groups, then gid, then uid, since only root may set
\* the first two.  Root ids are never set.  A thread that is no longer root has
\* no DAC_OVERRIDE in effect, and takes it up again, as far as the host lets
\* it, when the guest cannot send supplementary groups.  The value is what the
\* guard will put back: nothing when neither id changed.
SetUid(s, uid, guard) ==
  LET t == [s EXCEPT !.thread.uid = uid, !.thread.dac = FALSE]
      keep_capability == config.os = "linux" /\ ~s.fs.nego.sup_group
  IN Sys(s, t, guard) \cup IF keep_capability THEN Ok([t EXCEPT !.thread.dac = TRUE], guard) ELSE {}

SetCredentials(s, uid, gid, groups) ==
  LET change_uid == uid # Root /\ uid # s.thread.uid
      change_gid == gid # Root /\ gid # s.thread.gid
      guard == [uid    |-> IF change_uid THEN s.thread.uid ELSE None,
                gid    |-> IF change_gid THEN s.thread.gid ELSE None,
                groups |-> groups /\ (change_uid \/ change_gid)]
  IN Then(IF groups THEN Sys(s, [s EXCEPT !.thread.groups = TRUE], None) ELSE Ok(s, None), LAMBDA t, v :
     Then(IF change_gid THEN Sys(t, [t EXCEPT !.thread.gid = gid], None) ELSE Ok(t, None), LAMBDA u, w :
     IF change_uid THEN SetUid(u, uid, guard) ELSE Ok(u, guard)))

\* Mutant: the user id is put back only when the groups were not changed.
DropOneOfTwo(s, guard) ==
  [s EXCEPT !.thread.uid = IF guard.uid = None \/ guard.groups THEN @ ELSE guard.uid,
            !.thread.dac = @ \/ (guard.uid # None /\ ~guard.groups),
            !.thread.gid = IF guard.gid = None THEN @ ELSE guard.gid,
            !.thread.groups = IF guard.groups THEN FALSE ELSE @]

\* Drop for UnixCredentialsGuard.  It runs as a thread whose saved ids are
\* root's, so that its calls do not fail; back at root the kernel puts every
\* permitted capability in effect.
DropCredentials(s, guard) ==
  [s EXCEPT !.thread.uid = IF guard.uid = None THEN @ ELSE guard.uid,
            !.thread.dac = @ \/ guard.uid # None,
            !.thread.gid = IF guard.gid = None THEN @ ELSE guard.gid,
            !.thread.groups = IF guard.groups THEN FALSE ELSE @]

\* unix_credentials_guard around F.  The supplementary groups are mapped as
\* gid is.
unix_credentials_guard(s, q) ==
  Then(MapGuestId(s, q.uid), LAMBDA t, uid :
  Then(MapGuestId(t, q.gid), LAMBDA u, gid : SetCredentials(u, uid, gid, q.groups)))

AsGuestUser(s, q, F(_)) ==
  Then(unix_credentials_guard(s, q), LAMBDA t, guard : Undo(F(t), LAMBDA u : DropCredentials(u, guard)))
-----------------------------------------------------------------------------
\* The host kernel.  A write, a truncation and a change of owner take the
\* file capability away under its own name, and a write or truncation takes
\* the set-id bits from a writer that has not FSETID.  A directory keeps both
\* when its owner changes.
KernelWrite(s, f) ==
  [s EXCEPT !.host.file[f].data = 1,
            !.host.file[f].setid = @ /\ s.thread.fsetid,
            !.host.file[f].xattrs = @ \ {Cap}]

KernelChown(s, f, uid) ==
  LET dir == s.host.file[f].type = "dir"
  IN [s EXCEPT !.host.file[f].owner = uid,
               !.host.file[f].setid = @ /\ dir,
               !.host.file[f].xattrs = IF dir THEN @ ELSE @ \ {Cap}]

NewFile(s, type) ==
  [type |-> type, data |-> 0, setid |-> FALSE, owner |-> s.thread.uid, group |-> s.thread.gid, xattrs |-> {}]

NoFile == [type |-> "none", data |-> 0, setid |-> FALSE, owner |-> Root, group |-> Root, xattrs |-> {}]

\* A file without names, references and open handles is gone.
Reaped(s) ==
  [s EXCEPT !.host.file = [f \in Inodes |->
     IF \/ f = RootDir
        \/ \E n \in Names : s.host.at[n] = f
        \/ s.fs.refs[f] > 0
        \/ \E h \in Handles : s.fs.handles[h] # None /\ s.fs.handles[h].file = f
     THEN @[f] ELSE NoFile]]

\* openat(O_CREAT | O_EXCL), mkdirat, mknodat, symlinkat.
MakeNode(s, name, type) ==
  IF s.host.at[name] # None THEN Err(s, "EEXIST")
  ELSE LET free == {f \in Files : s.host.file[f].type = "none"}
       IN Err(s, "EIO") \cup
          UNION {Ok([s EXCEPT !.host.file[f] = NewFile(s, type), !.host.at[name] = f], f) : f \in free}

Unnamed(s, name) == Reaped([s EXCEPT !.host.at[name] = None])
-----------------------------------------------------------------------------
\* InodeStore::get of the inode a request names, which is there as long as
\* the guest has a reference; find_handle; get_file and open_file may fail.
GetInode(s, f) == IF s.fs.refs[f] > 0 THEN Sys(s, s, f) ELSE Err(s, "EBADF")

find_handle(s, q) ==
  IF s.fs.handles[q.fh] # None /\ s.fs.handles[q.fh].file = q.ino
  THEN Ok(s, s.fs.handles[q.fh]) ELSE Err(s, "EBADF")

\* do_lookup: a reference for the guest, once nothing can fail any more.
do_lookup(s, name) ==
  IF s.host.at[name] = None THEN Err(s, "ENOENT")
  ELSE Sys(s, [s EXCEPT !.fs.refs[s.host.at[name]] = @ + 1], s.host.at[name])

\* block_xattr and map_client_xattrname.
block_xattr(s, name) == ~s.fs.nego.posix_acl /\ (IsPrefix(name, Acl) \/ IsPrefix(name, AclDefault))

map_client_xattrname(s, name) ==
  IF block_xattr(s, name) THEN Err(s, "ENOTSUP")
  ELSE IF config.xattrmap = <<>> THEN Ok(s, name)
  ELSE LET m == map_client_xattr(config.xattrmap, name)
       IN CASE m.rule = "Pass" -> Ok(s, m.name)
            [] m.rule = "Deny" -> Err(s, "EPERM")
            [] m.rule = "Unsupported" -> Err(s, "ENOTSUP")

map_server_names(s, names) ==
  {n \in IF config.xattrmap = <<>> THEN names ELSE map_server_xattrlist(config.xattrmap, names) :
     ~block_xattr(s, n)}

\* PassthroughFs::new: the host name of a remapped security.capability.
xattr_security_capability ==
  LET m == map_client_xattr(config.xattrmap, Cap)
  IN IF config.xattrmap = <<>> THEN None
     ELSE IF m.rule = "Pass" THEN (IF m.name = Cap THEN None ELSE m.name) ELSE None

\* Mutant: the capability is looked for under the name the guest uses.
clear_unmapped(s, f, o_path) ==
  IF xattr_security_capability = None \/ ~is_regular_file(s, f) THEN Ok(s, None)
  ELSE LET Clear(t) == Sys(t, [t EXCEPT !.host.file[f].xattrs = @ \ {Cap}], None)
       IN IF o_path THEN InProcSelfFd(s, Clear) ELSE Clear(s)

\* clear_file_capabilities: unmapped, the kernel does it.
clear_file_capabilities(s, f, o_path) ==
  IF xattr_security_capability = None \/ ~is_regular_file(s, f) THEN Ok(s, None)
  ELSE LET Clear(t) == Sys(t, [t EXCEPT !.host.file[f].xattrs = @ \ {xattr_security_capability}], None)
       IN IF o_path THEN InProcSelfFd(s, Clear) ELSE Clear(s)

clear_sgid(s, f) == Sys(s, [s EXCEPT !.host.file[f].setid = FALSE], None)

\* should_clear_sgid_for_setxattr, of the name after mapping.
should_clear_sgid_for_setxattr(s, kill_sgid, name) == s.fs.nego.posix_acl /\ kill_sgid /\ name = Acl
-----------------------------------------------------------------------------
\* open_inode: with writeback caching, whoever writes may also be asked to
\* read.  The host opens regular files and directories, and directories only
\* for reading.  O_PATH ignores the other flags; O_TRUNC truncates
\* whatever the access mode.
open_inode(s, f, flags) ==
  LET mode == IF s.fs.nego.writeback /\ "write" \in flags THEN flags \cup {"read"} ELSE flags
      fits == IF is_regular_file(s, f) THEN "dir" \notin mode
              ELSE is_safe_inode(s, f) /\ mode \cap {"write", "trunc"} = {}
  IN CASE "path" \in flags -> Sys(s, s, {})
       [] "path" \notin flags /\ fits -> Sys(s, IF "trunc" \in mode THEN KernelWrite(s, f) ELSE s, mode)
       [] OTHER -> Err(s, "EBADF")

\* HandleData into the handle table, if guest_fd_limit has room.
AddHandle(s, f, mode) ==
  LET free == {h \in Handles : s.fs.handles[h] = None}
      fh   == Min(free)
  IN IF free = {} THEN Err(s, "ENFILE")
     ELSE Ok([s EXCEPT !.fs.handles[fh] = [file |-> f, mode |-> mode]], [ino |-> f, fh |-> fh])

\* apply_nocache: F_NOCACHE, which only macOS has, on a regular file the guest
\* opens for direct I/O.
apply_nocache(s, f) ==
  IF config.os = "macos" /\ is_regular_file(s, f) THEN Sys(s, s, None) ELSE Ok(s, None)

\* The file capability of a truncated file is removed through the new
\* descriptor, which the host refuses if that is an O_PATH one.
ClearTruncated(s, f, flags) ==
  IF "trunc" \notin flags THEN Ok(s, None)
  ELSE IF "path" \in flags /\ xattr_security_capability # None /\ is_regular_file(s, f) THEN Err(s, "EBADF")
  ELSE clear_file_capabilities(s, f, FALSE)

do_open(s, f, kill_priv, flags) ==
  Then(GetInode(s, f), LAMBDA t, i :
  Then(WithoutFsetid(t, kill_priv, LAMBDA u : open_inode(u, f, flags)), LAMBDA u, mode :
  Then(apply_nocache(u, f), LAMBDA v, a :
  Then(ClearTruncated(v, f, flags), LAMBDA w, n :
    AddHandle(w, f, mode \cap {"read", "write"})))))

do_release(s, q) ==
  Then(find_handle(s, q), LAMBDA t, h : Ok(Reaped([t EXCEPT !.fs.handles[q.fh] = None]), None))

\* do_getattr: the owner is shown as map_host_uid says, or not at all.
do_getattr(s, f) ==
  Then(GetInode(s, f), LAMBDA t, i :
    LET id == map_host(IdMapOf(config.idmap), t.host.file[f].owner)
    IN IF id = Forbidden THEN Err(t, "EPERM") ELSE Sys(t, t, id))

\* do_unlink, for UNLINK and RMDIR.
do_unlink(s, name, dir) ==
  Then(GetInode(s, RootDir), LAMBDA t, i :
    IF t.host.at[name] # None /\ (t.host.file[t.host.at[name]].type = "dir") = dir
    THEN Sys(t, Unnamed(t, name), None) ELSE Err(t, "ENOENT"))

\* The security context of a new node: a failure takes the node away again,
\* as far as the host lets it, and is returned.
OrUnlink(outs, name) ==
  UNION {IF o.ok THEN {o} ELSE {o, [o EXCEPT !.s = Unnamed(o.s, name)]} : o \in outs}

SetSecctx(s, f, name) == Sys(s, [s EXCEPT !.host.file[f].xattrs = @ \cup {name}], f)

do_create(s, q) ==
  Then(AsGuestUser(s, q, LAMBDA t : ScopedUmask(t, LAMBDA u : MakeNode(u, q.name, "reg"))), LAMBDA t, f :
    IF ~q.secctx THEN Ok(t, f)
    ELSE OrUnlink(Then(map_client_xattrname(t, Secctx), LAMBDA u, name : SetSecctx(u, f, name)), q.name))

do_mknod_mkdir_symlink_secctx(s, f) ==
  Then(map_client_xattrname(s, Secctx), LAMBDA t, name :
  Then(Sys(t, t, None), LAMBDA u, fd : InProcSelfFd(u, LAMBDA v : SetSecctx(v, f, name))))

\* The tail of MKDIR, MKNOD and SYMLINK, once the node is made.
NodeMade(s, q, f) ==
  Then(IF q.secctx THEN OrUnlink(do_mknod_mkdir_symlink_secctx(s, f), q.name) ELSE Ok(s, f), LAMBDA t, g :
    do_lookup(t, q.name))
=============================================================================
