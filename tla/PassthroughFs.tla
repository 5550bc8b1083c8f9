---------------------------- MODULE PassthroughFs ----------------------------
(***************************************************************************)
(* `impl FileSystem for PassthroughFs` in passthrough/mod.rs: one operator *)
(* per method, from the state s and the arguments of the request q to the  *)
(* set of outcomes (FileOps).  Call is the method the request asks for.    *)
(*                                                                         *)
(* The hooks of path-tracking migration and of the dentry index that some  *)
(* of these methods call are actions of Migration and DentryIndex; they    *)
(* change nothing that is kept here and their failures are not returned.   *)
(***************************************************************************)
EXTENDS FileOps
LOCAL INSTANCE SequencesExt
LOCAL INSTANCE FiniteSetsExt

destroy(s) ==
  Reaped([s EXCEPT !.fs.handles = [h \in Handles |-> None], !.fs.refs = [f \in Inodes |-> 0],
                   !.fs.nego = [n \in DOMAIN @ |-> FALSE]])

\* What the guest must be able to do for posix_acl.
acl_required_flags == {"POSIX_ACL", "DONT_MASK", "SETXATTR_EXT"}

\* init: the options asked for, in the order the code looks at them; the two
\* refusals leave the flags set before them set.
init(s, capable) ==
  Then(Sys(destroy(s), [destroy(s) EXCEPT !.fs.refs[RootDir] = 2], None), LAMBDA t, v :
    LET If(on, opts) == IF on THEN opts ELSE {}
        acl  == config.posix_acl # "never" /\ acl_required_flags \subseteq capable
        sec  == config.security_label # "never" /\ "SECURITY_CTX" \in capable
        u    == [t EXCEPT !.fs.nego.writeback = config.writeback /\ "WRITEBACK_CACHE" \in capable,
                          !.fs.nego.submounts = config.announce_submounts /\ "SUBMOUNTS" \in capable,
                          !.fs.nego.posix_acl = acl]
        w    == [u EXCEPT !.fs.nego.sup_group = "CREATE_SUPP_GROUP" \in capable]
        refused == (config.posix_acl = "always" /\ ~acl) \/ (config.security_label = "always" /\ ~sec)
    IN IF refused
       THEN Err(u, "EPROTO")
       ELSE Ok(w, If(config.readdirplus, {"DO_READDIRPLUS", "READDIRPLUS_AUTO"})
                  \cup If(u.fs.nego.writeback, {"WRITEBACK_CACHE"})
                  \cup If(config.killpriv_v2, {"HANDLE_KILLPRIV_V2"} \cap capable)
                  \cup If(acl, acl_required_flags)
                  \cup If(config.allow_mmap, {"DIRECT_IO_ALLOW_MMAP"})
                  \cup If(sec, {"SECURITY_CTX"})))
-----------------------------------------------------------------------------
lookup(s, q) == Then(GetInode(s, RootDir), LAMBDA t, i : do_lookup(t, q.name))

\* forget and batch_forget: no reply and no failure.
Forgotten(s, f, count) ==
  Reaped([s EXCEPT !.fs.refs[f] = IF @ > count THEN @ - count ELSE 0])
forget(s, q) == Ok(Forgotten(s, q.ino, q.count), None)
batch_forget(s, q) == Ok(FoldSet(LAMBDA f, t : Forgotten(t, f, 1), s, q.inodes), None)

statfs(s, q) == GetInode(s, q.ino)
getattr(s, q) == do_getattr(s, q.ino)
access(s, q) == Then(do_getattr(s, q.ino), LAMBDA t, id : Sys(t, t, None))
readlink(s, q) ==
  Then(GetInode(s, q.ino), LAMBDA t, i :
    IF t.host.file[q.ino].type = "lnk" THEN Sys(t, t, None) ELSE Err(t, "EINVAL"))
syncfs(s, q) ==
  Then(GetInode(s, q.ino), LAMBDA t, i : Then(open_inode(t, q.ino, {"read"}), LAMBDA u, m : Sys(u, u, None)))

open(s, q) == do_open(s, q.ino, q.kill_priv, q.flags)
opendir(s, q) == do_open(s, q.ino, FALSE, q.flags \cup {"dir"})
release(s, q) == do_release(s, q)
releasedir(s, q) == do_release(s, q)

\* A host call on an open file that changes nothing here.
OnHandle(s, q) == Then(find_handle(s, q), LAMBDA t, h : Sys(t, t, None))
read(s, q) == Then(find_handle(s, q), LAMBDA t, h : IF "read" \in h.mode THEN Sys(t, t, None) ELSE Err(t, "EBADF"))
flush(s, q) == OnHandle(s, q)
fsync(s, q) == OnHandle(s, q)
fsyncdir(s, q) == fsync(s, q)
lseek(s, q) == OnHandle(s, q)

CurrentDir == 0  \* "." and "..", which are no names of files

\* readdir: the entries of the directory; ReadDir has how they are read.
readdir(s, q) ==
  Then(find_handle(s, q), LAMBDA t, h :
    Sys(t, t, <<CurrentDir>> \o SetToSortSeq({n \in Names : t.host.at[n] # None}, <)))
-----------------------------------------------------------------------------
write(s, q) ==
  Then(find_handle(s, q), LAMBDA t, h :
    WithoutFsetid(t, q.kill_priv, LAMBDA u :
    Then(clear_file_capabilities(u, q.ino, FALSE), LAMBDA v, n :
      IF "write" \in h.mode THEN Sys(v, KernelWrite(v, q.ino), None) ELSE Err(v, "EBADF"))))

\* fallocate and copyfilerange change the file without either of the two.
fallocate(s, q) ==
  Then(find_handle(s, q), LAMBDA t, h :
    IF "write" \in h.mode THEN Sys(t, KernelWrite(t, q.ino), None) ELSE Err(t, "EBADF"))

copyfilerange(s, q) ==
  Then(find_handle(s, [ino |-> q.from_ino, fh |-> q.from_fh]), LAMBDA t, from :
  Then(find_handle(t, q), LAMBDA u, to :
    IF "read" \in from.mode /\ "write" \in to.mode THEN Sys(u, KernelWrite(u, q.ino), None) ELSE Err(u, "EBADF")))

\* setattr, in the order of the code: mode, owner, size, times.
SetMode(s, q) == Sys(s, [s EXCEPT !.host.file[q.ino].setid = TRUE], None)

SetOwner(s, q) ==
  Then(MapGuestId(s, q.owner), LAMBDA t, id :
  Then(clear_file_capabilities(t, q.ino, TRUE), LAMBDA u, n : Sys(u, KernelChown(u, q.ino, id), None)))

SetSize(s, q) ==
  WithoutFsetid(s, "kill_suidgid" \in q.valid, LAMBDA t :
  Then(clear_file_capabilities(t, q.ino, FALSE), LAMBDA u, n :
    IF q.fh = None \/ "write" \in s.fs.handles[q.fh].mode
    THEN Sys(u, KernelWrite(u, q.ino), None) ELSE Err(u, "EINVAL")))

setattr(s, q) ==
  LET When(field, t, F(_, _)) == IF field \in q.valid THEN F(t, q) ELSE Ok(t, None)
  IN Then(GetInode(s, q.ino), LAMBDA t, i :
     Then(IF q.fh # None THEN find_handle(t, q)
          ELSE IF "size" \in q.valid /\ ~is_regular_file(t, q.ino) THEN Err(t, "EISDIR") ELSE Ok(t, None), LAMBDA u, h :
     Then(When("mode", u, SetMode), LAMBDA v, a :
     Then(When("owner", v, SetOwner), LAMBDA w, b :
     Then(When("size", w, SetSize), LAMBDA x, c :
     Then(When("times", x, LAMBDA y, r : Sys(y, y, None)), LAMBDA y, d : do_getattr(y, q.ino)))))))
-----------------------------------------------------------------------------
mkdir(s, q) ==
  Then(GetInode(s, RootDir), LAMBDA r, i :
  Then(AsGuestUser(r, q, LAMBDA t : ScopedUmask(t, LAMBDA u : MakeNode(u, q.name, "dir"))), LAMBDA t, f :
    NodeMade(t, q, f)))

mknod(s, q) ==
  Then(GetInode(s, RootDir), LAMBDA r, i :
  Then(AsGuestUser(r, q, LAMBDA t : ScopedUmask(t, LAMBDA u : MakeNode(u, q.name, "node"))), LAMBDA t, f :
    NodeMade(t, q, f)))

symlink(s, q) ==
  Then(GetInode(s, RootDir), LAMBDA r, i :
  Then(AsGuestUser(r, q, LAMBDA t : MakeNode(t, q.name, "lnk")), LAMBDA t, f :
    NodeMade(t, q, f)))

\* create: O_EXCL is added, so that the guest's user makes the file or
\* nobody does; a file that was there is opened if the guest did not ask for
\* O_EXCL.
create(s, q) ==
  Then(GetInode(s, RootDir), LAMBDA t, i :
    LET made   == do_create(t, q)
        exists == {o \in made : ~o.ok /\ o.val = "EEXIST"}
    IN IF exists # {} /\ "excl" \notin q.flags
       THEN (made \ exists) \cup
            Then(do_lookup(t, q.name), LAMBDA u, f : do_open(u, f, q.kill_priv, q.flags))
       ELSE Then(made, LAMBDA u, f : Then(apply_nocache(u, f), LAMBDA v, n :
            Then(do_lookup(v, q.name), LAMBDA w, g : AddHandle(w, g, q.flags \cap {"read", "write"})))))

unlink(s, q) == do_unlink(s, q.name, FALSE)
rmdir(s, q) == do_unlink(s, q.name, TRUE)

\* link.
link(s, q) ==
  Then(GetInode(s, q.ino), LAMBDA r, j :
  Then(GetInode(r, RootDir), LAMBDA t, i :
    IF t.host.at[q.name] # None \/ t.host.file[q.ino].type = "dir" THEN Err(t, "EEXIST")
    ELSE Then(Sys(t, [t EXCEPT !.host.at[q.name] = q.ino], None), LAMBDA u, n : do_lookup(u, q.name))))

\* renameat2 on the host, with the guest's flags (RENAME_WHITEOUT aside).
Renamed(s, from, to, flag) ==
  LET old == s.host.at[from]
      new == s.host.at[to]
      IsDir(f) == s.host.file[f].type = "dir"
  IN CASE old = None -> {}
       [] flag = "exchange" /\ new # None -> {[s EXCEPT !.host.at[from] = new, !.host.at[to] = old]}
       [] flag = "exchange" /\ new = None -> {}
       [] flag = "noreplace" /\ new # None -> {}
       [] flag # "exchange" /\ new = old -> {s}
       [] flag # "exchange" /\ new = None -> {[s EXCEPT !.host.at[from] = None, !.host.at[to] = old]}
       [] OTHER -> {t \in {Reaped([s EXCEPT !.host.at[from] = None, !.host.at[to] = old])} : IsDir(old) = IsDir(new)}

rename(s, q) ==
  Then(GetInode(s, RootDir), LAMBDA t, i :
    Err(t, "EIO") \cup UNION {Ok(u, None) : u \in Renamed(t, q.name, q.to, q.flag)})
-----------------------------------------------------------------------------
\* The extended attributes of a regular file or directory are reached through
\* a fresh descriptor, those of any other node by name in /proc/self/fd.
XattrCall(s, f, F(_)) ==
  IF is_safe_inode(s, f) THEN Then(open_inode(s, f, {"read"}), LAMBDA t, m : F(t))
  ELSE InProcSelfFd(s, F)

setxattr(s, q) ==
  IF ~config.xattr THEN Err(s, "ENOSYS")
  ELSE Then(GetInode(s, q.ino), LAMBDA t, i :
       Then(map_client_xattrname(t, q.xattr), LAMBDA u, name :
       Then(IF is_safe_inode(u, q.ino) THEN open_inode(u, q.ino, {"read"}) ELSE Ok(u, None), LAMBDA v, m :
       Then(clear_file_capabilities(v, q.ino, ~is_safe_inode(v, q.ino)), LAMBDA w, n :
       Then(IF should_clear_sgid_for_setxattr(w, q.kill_sgid, name) THEN clear_sgid(w, q.ino) ELSE Ok(w, None), LAMBDA x, c :
         LET Set(y) == Sys(y, [y EXCEPT !.host.file[q.ino].xattrs = @ \cup {name}], None)
         IN IF is_safe_inode(x, q.ino) THEN Set(x) ELSE InProcSelfFd(x, Set))))))

\* getxattr: a denied name is an absent one.
getxattr(s, q) ==
  IF ~config.xattr THEN Err(s, "ENOSYS")
  ELSE LET mapped == {IF ~o.ok /\ o.val = "EPERM" THEN [o EXCEPT !.val = "ENODATA"] ELSE o :
                      o \in map_client_xattrname(s, q.xattr)}
       IN Then(mapped, LAMBDA t, name :
          Then(GetInode(t, q.ino), LAMBDA u, i :
            XattrCall(u, q.ino, LAMBDA v :
              IF name \in v.host.file[q.ino].xattrs THEN Ok(v, name) ELSE Err(v, "ENODATA"))))

listxattr(s, q) ==
  IF ~config.xattr THEN Err(s, "ENOSYS")
  ELSE Then(GetInode(s, q.ino), LAMBDA t, i :
         XattrCall(t, q.ino, LAMBDA u : Ok(u, map_server_names(u, u.host.file[q.ino].xattrs))))

removexattr(s, q) ==
  IF ~config.xattr THEN Err(s, "ENOSYS")
  ELSE Then(GetInode(s, q.ino), LAMBDA t, i :
       Then(map_client_xattrname(t, q.xattr), LAMBDA u, name :
         XattrCall(u, q.ino, LAMBDA v :
           IF name \in v.host.file[q.ino].xattrs
           THEN Sys(v, [v EXCEPT !.host.file[q.ino].xattrs = @ \ {name}], None) ELSE Err(v, "ENODATA"))))
-----------------------------------------------------------------------------
Call(s, q) ==
  CASE q.op = "init" -> init(s, q.capable)       [] q.op = "destroy" -> Ok(destroy(s), None)
    [] q.op = "lookup" -> lookup(s, q)           [] q.op = "forget" -> forget(s, q)
    [] q.op = "batch_forget" -> batch_forget(s, q) [] q.op = "statfs" -> statfs(s, q)
    [] q.op = "getattr" -> getattr(s, q)         [] q.op = "access" -> access(s, q)
    [] q.op = "readlink" -> readlink(s, q)       [] q.op = "syncfs" -> syncfs(s, q)
    [] q.op = "open" -> open(s, q)               [] q.op = "opendir" -> opendir(s, q)
    [] q.op = "release" -> release(s, q)         [] q.op = "releasedir" -> releasedir(s, q)
    [] q.op = "read" -> read(s, q)               [] q.op = "flush" -> flush(s, q)
    [] q.op = "fsync" -> fsync(s, q)             [] q.op = "fsyncdir" -> fsyncdir(s, q)
    [] q.op = "lseek" -> lseek(s, q)             [] q.op = "readdir" -> readdir(s, q)
    [] q.op = "write" -> write(s, q)             [] q.op = "fallocate" -> fallocate(s, q)
    [] q.op = "copyfilerange" -> copyfilerange(s, q) [] q.op = "setattr" -> setattr(s, q)
    [] q.op = "mkdir" -> mkdir(s, q)             [] q.op = "mknod" -> mknod(s, q)
    [] q.op = "symlink" -> symlink(s, q)         [] q.op = "create" -> create(s, q)
    [] q.op = "unlink" -> unlink(s, q)           [] q.op = "rmdir" -> rmdir(s, q)
    [] q.op = "link" -> link(s, q)               [] q.op = "rename" -> rename(s, q)
    [] q.op = "setxattr" -> setxattr(s, q)       [] q.op = "getxattr" -> getxattr(s, q)
    [] q.op = "listxattr" -> listxattr(s, q)     [] q.op = "removexattr" -> removexattr(s, q)
=============================================================================
