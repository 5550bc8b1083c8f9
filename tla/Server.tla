------------------------------- MODULE Server -------------------------------
(***************************************************************************)
(* server.rs: a FUSE message q is decoded (Early, Asked), the file system  *)
(* is called (Fs) and its outcome o is encoded as a reply, by one operator *)
(* per handler.                                                            *)
(*                                                                         *)
(* How a message is laid out depends on what INIT negotiated: the guest    *)
(* writes it as the reply to its INIT told it to, the server reads it as   *)
(* its own `options` tell it to.  A message that cannot be decoded ends    *)
(* the daemon (vhost_user.rs, process_message).                            *)
(***************************************************************************)
EXTENDS FileOps
LOCAL INSTANCE SequencesExt
LOCAL INSTANCE FiniteSetsExt

VARIABLE options  \* Server::options

P == INSTANCE PassthroughFs
RO == INSTANCE ReadOnly

\* FileSystem for the share: main.rs picks PassthroughFsRo for --readonly.
Fs(s, q) == IF config.readonly THEN RO!Call(s, q) ELSE P!Call(s, q)

\* An answer: how the request ends, and what the reply tells the guest: the
\* inodes it now has a reference to, and an open file.
Answer(s, end, ok, entries, fh) == {[s |-> s, end |-> end, ok |-> ok, entries |-> entries, fh |-> fh]}
reply_ok(s, entries, fh) == Answer(s, "reply", TRUE, entries, fh)
reply_error(s) == Answer(s, "reply", FALSE, <<>>, None)
NoReply(s) == Answer(s, "none", TRUE, <<>>, None)
DecodeError(s) == Answer(s, "exit", FALSE, <<>>, None)
-----------------------------------------------------------------------------
\* The handlers, from the outcome o of the file system to the answer.  First
\* their tails: Err(e) => reply_error, and Ok.
Plain(o)  == IF o.ok THEN reply_ok(o.s, <<>>, None) ELSE reply_error(o.s)
Entry(o)  == IF o.ok THEN reply_ok(o.s, <<o.val>>, None) ELSE reply_error(o.s)
Opened(o) == IF o.ok THEN reply_ok(o.s, <<>>, o.val.fh) ELSE reply_error(o.s)

lookup(q, o)  == Entry(o)
link(q, o)    == Entry(o)
symlink(q, o) == Entry(o)
mknod(q, o)   == Entry(o)
mkdir(q, o)   == Entry(o)
create(q, o)  == IF o.ok THEN reply_ok(o.s, <<o.val.ino>>, o.val.fh) ELSE reply_error(o.s)
open(q, o)    == Opened(o)
opendir(q, o) == Opened(o)
getattr(q, o) == Plain(o)
setattr(q, o) == Plain(o)
readlink(q, o) == Plain(o)
unlink(q, o)  == Plain(o)
rmdir(q, o)   == Plain(o)
do_rename(q, o) == Plain(o)
rename(q, o)  == do_rename(q, o)
rename2(q, o) == do_rename(q, o)
read(q, o)    == Plain(o)
write(q, o)   == Plain(o)
statfs(q, o)  == Plain(o)
release(q, o) == Plain(o)
fsync(q, o)   == Plain(o)
setxattr(q, o) == Plain(o)
getxattr(q, o) == Plain(o)
listxattr(q, o) == Plain(o)
removexattr(q, o) == Plain(o)
flush(q, o)   == Plain(o)
releasedir(q, o) == Plain(o)
fsyncdir(q, o) == Plain(o)
access(q, o)  == Plain(o)
fallocate(q, o) == Plain(o)
lseek(q, o)   == Plain(o)
copyfilerange(q, o) == Plain(o)
syncfs(q, o)  == Plain(o)

\* No reply to these, whatever happens.
forget(q, o) == NoReply(o.s)
batch_forget(q, o) == NoReply(o.s)
destroy(q, o) == NoReply([o.s EXCEPT !.options = {}])

\* Without the file system.
interrupt(s) == NoReply(s)
setupmapping(s) == reply_error(s)
removemapping(s) == reply_error(s)
tmpfile(s) == reply_error(s)
unknown(s) == reply_error(s)
oversized(s) == reply_error(s)  \* a header whose len is above the buffers

\* GETLK, SETLK, SETLKW, BMAP, IOCTL, POLL and NOTIFY_REPLY: the methods of
\* the FileSystem trait say ENOSYS, and no file system here overrides them.
unimplemented(s) == reply_error(s)
-----------------------------------------------------------------------------
\* get_extensions: what follows the name in CREATE, MKDIR, MKNOD and SYMLINK.
\* Each extension at most once and only if negotiated; the security context
\* (or a message that there is none) always, if negotiated.
get_extensions(opts, exts) ==
  LET SecCtx == {"secctx", "no_secctx"}
      Count(kinds) == Cardinality({i \in DOMAIN exts : exts[i] \in kinds})
  IN IF opts \cap {"SECURITY_CTX", "CREATE_SUPP_GROUP"} = {}
     THEN [ok |-> TRUE, secctx |-> FALSE, groups |-> FALSE]
     ELSE [ok     |-> /\ Count(SecCtx) = IF "SECURITY_CTX" \in opts THEN 1 ELSE 0
                      /\ Count({"groups"}) <= IF "CREATE_SUPP_GROUP" \in opts THEN 1 ELSE 0,
           secctx |-> Count({"secctx"}) > 0,
           groups |-> Count({"groups"}) > 0]

Extended == {"create", "mkdir", "mknod", "symlink"}

\* SETXATTR has a long and a short form.  The other one is read as a wrong
\* size of the value, or without a name.
Undecodable(s, q) ==
  CASE q.op \in Extended -> ~get_extensions(s.options, q.exts).ok
    [] q.op = "setxattr" -> q.long # ("SETXATTR_EXT" \in s.options)
    [] OTHER -> FALSE
-----------------------------------------------------------------------------
supported == {"SUBMOUNTS", "INIT_EXT", "CREATE_SUPP_GROUP"}
flags2 == {"SECURITY_CTX", "CREATE_SUPP_GROUP", "DIRECT_IO_ALLOW_MMAP"}  \* the options above bit 31

\* Mutant: the options above bit 31 are read whether or not INIT_EXT is set.
capable_unextended(q) == q.flags

capable(q) == IF "INIT_EXT" \in q.flags THEN q.flags ELSE q.flags \ flags2

\* Another major version is answered at once, as is a minor one too old.
KERNEL_VERSION == 7
init_version(s, q) ==
  CASE q.major < KERNEL_VERSION -> reply_error(s)
    [] q.major > KERNEL_VERSION -> reply_ok(s, <<>>, None)
    [] q.major = KERNEL_VERSION /\ q.minor < 27 -> reply_error(s)
    [] OTHER -> {}

init(q, o) ==
  IF o.ok THEN reply_ok([o.s EXCEPT !.options = capable(q) \cap (o.val \cup supported)], <<>>, None)
  ELSE reply_error(o.s)
-----------------------------------------------------------------------------
\* handle_dirent: "." is told without a reference.  A read-only share hands
\* LOOKUP on.
handle_dirent(s, name) == IF name = P!CurrentDir THEN Ok(s, None) ELSE P!lookup(s, [name |-> name])

\* Mutant: the entry that did not fit is not forgotten again.
undo_never(s, f) == s

\* The lookup of an entry that was not sent is undone.
undo(s, f) == IF f = None THEN s ELSE P!Forgotten(s, f, 1)

\* add_dirent: an entry takes one unit of the size the guest asked for and of
\* the buffer behind the header, which may be shorter.
add_dirent(q, written) ==
  CASE q.size - written < 1 -> "full"
    [] q.size - written >= 1 /\ q.available - 1 - written < 1 -> "error"
    [] OTHER -> "added"

\* The loop of readdirplus: an error after the first entry ends it as a full
\* buffer does.
RECURSIVE FillPlus(_, _, _, _, _)
FillPlus(s, q, names, written, sent) ==
  IF names = <<>> THEN reply_ok(s, sent, None)
  ELSE UNION {
    IF o.ok /\ add_dirent(q, written) = "added"
    THEN FillPlus(o.s, q, Tail(names), written + 1, IF o.val = None THEN sent ELSE Append(sent, o.val))
    ELSE LET t == IF o.ok THEN undo(o.s, o.val) ELSE o.s
             failed == ~o.ok \/ add_dirent(q, written) = "error"
         IN IF failed /\ written = 0 THEN reply_error(t) ELSE reply_ok(t, sent, None)
    : o \in handle_dirent(s, Head(names))}

\* A buffer for the reply that is smaller than it may get is refused.
dirent_room(s, q) == IF q.available < q.size THEN reply_error(s) ELSE {}

readdirplus(q, o) ==
  IF o.ok THEN FillPlus(o.s, q, SubSeq(o.val, q.offset + 1, Len(o.val)), 0, <<>>) ELSE reply_error(o.s)

\* readdir: no references, and any error is replied.
readdir(q, o) ==
  IF o.ok /\ \A w \in 0..Len(o.val) - q.offset - 1 : add_dirent(q, w) # "error"
  THEN reply_ok(o.s, <<>>, None) ELSE reply_error(o.s)
-----------------------------------------------------------------------------
\* What is answered before the file system is called, if anything.
Early(s, q) ==
  CASE q.op = "interrupt" -> interrupt(s)        [] q.op = "tmpfile" -> tmpfile(s)
    [] q.op = "setupmapping" -> setupmapping(s)  [] q.op = "removemapping" -> removemapping(s)
    [] q.op = "unimplemented" -> unimplemented(s) [] q.op = "unknown" -> unknown(s)
    [] q.op = "oversized" -> oversized(s)        [] q.op = "init" -> init_version(s, q)
    [] q.op \in {"readdir", "readdirplus"} -> dirent_room(s, q)
    [] OTHER -> IF Undecodable(s, q) THEN DecodeError(s) ELSE {}

\* The call of the file system, with the arguments decoded.
Asked(s, q) ==
  CASE q.op = "init" -> [op |-> "init", capable |-> capable(q)]
    [] q.op = "rename2" -> [q EXCEPT !.op = "rename"]
    [] q.op = "readdirplus" -> [q EXCEPT !.op = "readdir"]
    [] q.op \in Extended -> LET e == get_extensions(s.options, q.exts)
                            IN [q EXCEPT !.secctx = e.secctx, !.groups = e.groups]
    [] OTHER -> q

Handled(q, o) ==
  CASE q.op = "lookup" -> lookup(q, o)           [] q.op = "forget" -> forget(q, o)
    [] q.op = "getattr" -> getattr(q, o)         [] q.op = "setattr" -> setattr(q, o)
    [] q.op = "readlink" -> readlink(q, o)       [] q.op = "symlink" -> symlink(q, o)
    [] q.op = "mknod" -> mknod(q, o)             [] q.op = "mkdir" -> mkdir(q, o)
    [] q.op = "unlink" -> unlink(q, o)           [] q.op = "rmdir" -> rmdir(q, o)
    [] q.op = "rename" -> rename(q, o)           [] q.op = "rename2" -> rename2(q, o)
    [] q.op = "link" -> link(q, o)               [] q.op = "open" -> open(q, o)
    [] q.op = "read" -> read(q, o)               [] q.op = "write" -> write(q, o)
    [] q.op = "statfs" -> statfs(q, o)           [] q.op = "release" -> release(q, o)
    [] q.op = "fsync" -> fsync(q, o)             [] q.op = "setxattr" -> setxattr(q, o)
    [] q.op = "getxattr" -> getxattr(q, o)       [] q.op = "listxattr" -> listxattr(q, o)
    [] q.op = "removexattr" -> removexattr(q, o) [] q.op = "flush" -> flush(q, o)
    [] q.op = "init" -> init(q, o)               [] q.op = "opendir" -> opendir(q, o)
    [] q.op = "readdir" -> readdir(q, o)         [] q.op = "releasedir" -> releasedir(q, o)
    [] q.op = "fsyncdir" -> fsyncdir(q, o)       [] q.op = "access" -> access(q, o)
    [] q.op = "create" -> create(q, o)           [] q.op = "destroy" -> destroy(q, o)
    [] q.op = "fallocate" -> fallocate(q, o)     [] q.op = "readdirplus" -> readdirplus(q, o)
    [] q.op = "lseek" -> lseek(q, o)             [] q.op = "copyfilerange" -> copyfilerange(q, o)
    [] q.op = "syncfs" -> syncfs(q, o)           [] q.op = "batch_forget" -> batch_forget(q, o)

handle_message(s, q) ==
  IF Early(s, q) # {} THEN Early(s, q) ELSE UNION {Handled(q, o) : o \in Fs(s, Asked(s, q))}
=============================================================================
