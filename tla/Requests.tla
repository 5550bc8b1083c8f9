------------------------------ MODULE Requests ------------------------------
(***************************************************************************)
(* A guest and the daemon: the guest sends one request after the other,    *)
(* written as its session told it to, and the daemon answers (Server over  *)
(* PassthroughFs or PassthroughFsRo).  Every host call may fail.           *)
(***************************************************************************)
EXTENDS Server
LOCAL INSTANCE SequencesExt
LOCAL INSTANCE FiniteSetsExt

CONSTANTS
  Configs,      \* the command lines
  Kernels,      \* what a guest kernel is capable of
  Scripts,      \* requests a guest starts its first session with
  MaxRequests   \* requests in a behaviour beyond those

VARIABLES
  guest,   \* up, its options, the references (told) and files (fhs) it has
  lost,    \* references that no reply told the guest of
  answer,  \* the last request and how it ended
  script,  \* what is left of the script
  left     \* requests that may still be sent

requestVars == << config, host, thread, fs, options, guest, lost, answer, script, left >>

Daemonised == [host |-> host, thread |-> thread, fs |-> fs, options |-> options]

NoSession == [up |-> FALSE, options |-> {}, told |-> [f \in Inodes |-> 0], fhs |-> [h \in Handles |-> None]]
-----------------------------------------------------------------------------
\* The requests a guest may send.
Known == {f \in Files : guest.told[f] > 0}
Nodes == Known \cup {RootDir}
Open(f) == {h \in Handles : guest.fhs[h] = f}

Inits == [op : {"init"}, major : {7}, minor : {31}, flags : Kernels]
         \cup [op : {"init"}, major : {6, 8}, minor : {31}, flags : {{}}]
         \cup [op : {"init"}, major : {7}, minor : {26}, flags : {{}}]

OnNames ==
  [op : {"lookup", "unlink", "rmdir"}, name : Names]
  \cup [op : {"rename"}, name : Names, to : Names, flag : {"none"}]
  \cup [op : {"rename2"}, name : Names, to : Names, flag : {"noreplace", "exchange"}]

User == [uid |-> 1, gid |-> 1]
Users == {[uid |-> Root, gid |-> Root], User}

\* The extensions the guest appends.
Extensions ==
  {sec \o sup : sec \in IF "SECURITY_CTX" \in guest.options THEN {<<"secctx">>, <<"no_secctx">>} ELSE {<<>>},
                sup \in IF "CREATE_SUPP_GROUP" \in guest.options THEN {<<>>, <<"groups">>} ELSE {<<>>}}

Makes ==
  {[op |-> op, name |-> n, uid |-> u.uid, gid |-> u.gid, exts |-> e, secctx |-> FALSE, groups |-> FALSE] :
     op \in {"mkdir", "mknod", "symlink"}, n \in Names, u \in {User}, e \in Extensions}
  \cup
  {[op |-> "create", name |-> n, uid |-> c[1].uid, gid |-> c[1].gid, exts |-> e, secctx |-> FALSE, groups |-> FALSE,
    kill_priv |-> TRUE, flags |-> c[2]] :
     n \in Names, e \in Extensions,
     c \in ({User} \X {{"creat", "read"}, {"creat", "write", "excl"}}) \cup (Users \X {{"creat", "write", "trunc"}})}

OnNodes ==
  [op : {"getattr", "statfs", "readlink", "syncfs", "listxattr"}, ino : Nodes]
  \cup [op : {"access"}, ino : Nodes, write : BOOLEAN]
  \cup [op : {"open"}, ino : Known, kill_priv : BOOLEAN,
        flags : {{"read"}, {"read", "trunc"}, {"write"}, {"path", "trunc"}}]
  \cup [op : {"opendir"}, ino : Nodes, flags : {{"read"}}]
  \cup [op : {"link"}, ino : Known, name : Names]
  \cup [op : {"getxattr", "removexattr"}, ino : Nodes, xattr : {Cap, Acl}]
  \cup [op : {"setxattr"}, ino : Nodes, xattr : {Cap, Acl}, kill_sgid : {TRUE},
        long : {"SETXATTR_EXT" \in guest.options}]
  \cup [op : {"setattr"}, ino : Nodes, fh : {None}, owner : {1},
        valid : {{"mode"}, {"owner", "times"}, {"size"}, {"size", "kill_suidgid"}}]

OnFiles ==
  UNION {LET Hs == Open(f) IN
         [op : {"release", "read", "flush", "fsync", "lseek", "fallocate"}, ino : {f}, fh : Hs]
         \cup [op : {"write"}, ino : {f}, fh : Hs, kill_priv : BOOLEAN]
         \cup [op : {"setattr"}, ino : {f}, fh : Hs, owner : {1}, valid : {{"size", "kill_suidgid"}}]
         \cup {[op |-> "copyfilerange", from_ino |-> guest.fhs[g], from_fh |-> g, ino |-> f, fh |-> h] :
                 g \in {i \in Handles : guest.fhs[i] # None}, h \in Hs} : f \in Files}
  \cup [op : {"releasedir", "fsyncdir"}, ino : {RootDir}, fh : Open(RootDir)]
  \cup [op : {"readdir", "readdirplus"}, ino : {RootDir}, fh : Open(RootDir),
        offset : {0}, size : {1, 3}, available : 2..4]

Forgets ==
  [op : {"forget"}, ino : Known, count : {1}]
  \cup (IF Known = {} THEN {} ELSE [op : {"batch_forget"}, inodes : {Known}])

Others ==
  [op : {"interrupt", "destroy", "tmpfile", "setupmapping", "removemapping",
         "unimplemented", "unknown", "oversized"}]
-----------------------------------------------------------------------------
\* What a guest kernel capable of `flags` takes from the reply to its INIT:
\* the options it knows, those above bit 31 only beside INIT_EXT.
Heeded(flags, told) == (flags \cap told) \ (IF "INIT_EXT" \in flags \cap told THEN {} ELSE flags2)

\* What the guest learns from the answer.
Learnt(q, a) ==
  LET Told(f) == guest.told[f] + Cardinality({i \in DOMAIN a.entries : a.entries[i] = f})
  IN CASE q.op = "init" ->
            IF a.ok /\ q.major = 7 THEN [NoSession EXCEPT !.up = TRUE, !.options = Heeded(q.flags, a.s.options)]
            ELSE NoSession
       [] q.op = "destroy" -> NoSession
       [] q.op = "forget" -> [guest EXCEPT !.told[q.ino] = @ - q.count]
       [] q.op = "batch_forget" -> [guest EXCEPT !.told = [f \in Inodes |-> IF f \in q.inodes THEN @[f] - 1 ELSE @[f]]]
       [] q.op \in {"release", "releasedir"} /\ a.ok -> [guest EXCEPT !.fhs[q.fh] = None]
       [] OTHER -> [guest EXCEPT !.told = [f \in Inodes |-> Told(f)],
                                 !.fhs = IF a.fh = None THEN @ ELSE [@ EXCEPT ![a.fh] = a.s.fs.handles[a.fh].file]]

\* A CREATE that fails after its lookup keeps the reference.
LostBy(q, a) ==
  CASE q.op \in {"init", "destroy"} -> [f \in Inodes |-> 0]
    [] q.op = "create" /\ ~a.ok -> [f \in Inodes |-> lost[f] + (a.s.fs.refs[f] - fs.refs[f])]
    [] OTHER -> lost

\* The session follows the script as long as that goes well, and is free then.
Scripted == guest.up /\ script # <<>>

\* A guest whose kernel restarts begins with INIT, and need not have sent
\* DESTROY.  Open files are closed before an inode is forgotten.
Sendable ==
  IF Scripted THEN {Head(script)}
  ELSE IF left = 0 THEN {}
  ELSE IF ~guest.up THEN Inits
  ELSE Inits \cup OnNames \cup OnNodes \cup Others \cup Makes \cup OnFiles
       \cup {q \in Forgets : q.op = "forget" => Open(q.ino) = {}}

Send(q) ==
  /\ answer.end # "exit"
  /\ \E a \in handle_message(Daemonised, q) :
       /\ host' = a.s.host /\ thread' = a.s.thread /\ fs' = a.s.fs /\ options' = a.s.options
       /\ guest' = Learnt(q, a)
       /\ lost' = LostBy(q, a)
       /\ answer' = [q |-> q, end |-> a.end, ok |-> a.ok]
       /\ script' = IF ~Scripted THEN script ELSE IF a.ok THEN Tail(script) ELSE <<>>
  /\ left' = IF Scripted THEN left ELSE left - 1
  /\ UNCHANGED config

\* The share: one file, with a file capability and a set-id bit.
CapOf(c) == IF c.xattrmap = <<>> THEN Cap ELSE map_client_xattr(c.xattrmap, Cap).name

RequestsInit ==
  /\ config \in Configs
  /\ LET f == CHOOSE i \in Files : TRUE IN host =
       [file |-> [i \in Inodes |->
          CASE i = RootDir -> [NoFile EXCEPT !.type = "dir"]
            [] i = f -> [NoFile EXCEPT !.type = "reg", !.setid = TRUE, !.xattrs = {CapOf(config)}]
            [] OTHER -> NoFile],
        at |-> [n \in Names |-> IF n = Min(Names) THEN f ELSE None]]
  /\ thread = Daemon
  /\ fs = [refs |-> [f \in Inodes |-> 0], handles |-> [h \in Handles |-> None],
           nego |-> [n \in {"writeback", "submounts", "posix_acl", "sup_group"} |-> FALSE]]
  /\ options = {}
  /\ guest = NoSession
  /\ lost = [f \in Inodes |-> 0]
  /\ answer = [q |-> [op |-> "none"], end |-> "none", ok |-> TRUE]
  /\ script \in Scripts
  /\ left = MaxRequests

RequestsNext == \E q \in Sendable : Send(q)
-----------------------------------------------------------------------------
\* A guest that writes its requests as its INIT reply told it to is answered:
\* one reply, or none to FORGET, BATCH_FORGET, INTERRUPT and DESTROY.  No
\* request of it is undecodable, which would end the daemon (get_extensions,
\* Server::setxattr, and the options Server::init stores), through failed and
\* repeated INITs and with other capabilities than the last guest kernel had.
RequestsAnswered ==
  answer.q.op # "none" =>
    answer.end = IF answer.q.op \in {"forget", "batch_forget", "interrupt", "destroy"} THEN "none" ELSE "reply"

\* The daemon holds one reference for each the guest was told of, and beyond
\* them only those of a CREATE that failed after its lookup.  So what is
\* looked up and then not sent, as the READDIRPLUS entry that did not fit, is
\* forgotten again.
EntryRefs == guest.up => \A f \in Files : fs.refs[f] = guest.told[f] + lost[f]

\* Between two requests the worker thread is who it was: user id, umask,
\* working directory, FSETID and DAC_OVERRIDE, on every error path (the guards
\* of credentials.rs, oslib.rs and passthrough/mod.rs).  Its group and its
\* supplementary groups are not promised: set() that fails half-way keeps
\* them.
IdentityKept ==
  /\ thread.uid = Root /\ thread.umask = Daemon.umask
  /\ thread.cwd = Daemon.cwd /\ thread.fsetid /\ thread.dac

Touches(q) ==
  CASE q.op = "write" -> TRUE
    [] q.op \in {"open", "create"} -> "trunc" \in q.flags /\ "path" \notin q.flags
    [] q.op = "setattr" -> q.valid \cap {"size", "owner"} # {}
    [] OTHER -> FALSE

Kills(q) ==
  CASE q.op \in {"write", "open", "create"} -> q.kill_priv
    [] q.op = "setattr" -> "kill_suidgid" \in q.valid
    [] OTHER -> FALSE

\* A WRITE, an OPEN or CREATE that truncates, and a SETATTR of size or owner,
\* when they succeed, leave no file capability on a regular file, under
\* whatever host name the xattrmap gives it, and no set-id bit if the guest
\* asked for that (clear_file_capabilities, drop_effective_cap).  Another inode
\* keeps what the guest stored under that name: clear_file_capabilities
\* returns at once for it.
PrivilegesDropped ==
  Touches(answer.q) /\ answer.ok =>
    LET q == answer.q
        f == host.file[IF q.op = "create" THEN host.at[q.name] ELSE q.ino]
    IN f.type = "reg" => CapOf(config) \notin f.xattrs /\ (config.killpriv_v2 /\ Kills(q) => ~f.setid)

\* Nothing a guest asks of a read-only share changes a file or a name on the
\* host, not even O_TRUNC or O_CREAT with read access.
HostUntouched == [][config.readonly => host' = host]_requestVars
=============================================================================
