----------------------------- MODULE Migration ------------------------------
(***************************************************************************)
(* Live migration: the front-end's calls, the thread that collects where   *)
(* every inode can be found while the guest keeps changing the shared      *)
(* directory, the stream, and the destination that rebuilds the inode      *)
(* store from it.                                                          *)
(*                                                                         *)
(* Sources: vhost_user.rs (acked_features, do_set_device_state_fd,         *)
(* do_check_device_state), passthrough/device_state, and the parts of      *)
(* passthrough/mod.rs that keep an inode's migration info up to date.      *)
(*                                                                         *)
(* Two processes run on the source: "guest" serves one request at a time,  *)
(* "mig" is the premigration thread and then the migration thread, which   *)
(* joins the former before it goes on.  The steps of do_lookup() are       *)
(* shared: a LOOKUP runs them once, a walk down a path reported by         *)
(* /proc/self/fd once per component.                                       *)
(*                                                                         *)
(* The inode store is a record: file[n] is the file behind inode n or      *)
(* NoFile, refs[n] its refcount, info[n] its migration info.  A file that  *)
(* the store knows is open or addressed by handle, so its inode number is  *)
(* never mistaken for another's (module InodeStore).                       *)
(***************************************************************************)
EXTENDS Naturals, Sequences, FiniteSets, FiniteSetsExt, SequencesExt

CONSTANTS
    Files,          \* the host's files
    Dirs,           \* those that are directories
    RootFile,       \* the shared directory
    NoFile,         \* nothing there, or not in the store
    InvalidFile,    \* an inode the destination could not find
    HasHandle,      \* the files for which the host yields file handles
    HardLinked,     \* files that have lost a name and may keep another one, or
                    \* have one outside the shared directory
    Names,          \* file names
    NoName,
    Fresh,          \* files that do not exist yet
    Setups,         \* configurations and starting states, see SetupType
    MaxInode        \* bound: inode IDs

Inodes == 1..MaxInode
ROOT_ID == 1
NoInode == 0
Procs == {"guest", "mig"}

SetupType ==
    [mode : {"paths", "handles"},         \* --migration-mode
     verify : BOOLEAN,                    \* --migration-verify-handles
     confirm : BOOLEAN,                   \* --migration-confirm-paths
     on_error : {"abort", "guest"},       \* --migration-on-error
     tree : [Dirs \X Names -> Files \cup {NoFile}],
     known : [Inodes -> Files \cup {NoFile}],   \* what the guest has looked up
     open : SUBSET Inodes,                \* the inodes it has a handle on
     compatible : BOOLEAN,                \* may the destination adopt the options?
     absent : SUBSET Files,               \* what the destination cannot open, or
                                          \* has another file in the place of
     mounts : BOOLEAN,                    \* are the mounts' paths known?
     bounds : [ops : Nat, logoff : Nat]]  \* bounds: requests of the guest that
                                          \* change names, cancelled migrations

ASSUME MigrationAssumption ==
    /\ Setups \subseteq SetupType
    /\ RootFile \in Dirs /\ Dirs \subseteq Files
    /\ \A s \in Setups : s.known[ROOT_ID] = RootFile

VARIABLES
    setup,
    tree,           \* the host: what each name of each directory stands for
    src,            \* the source's inode store
    next_inode,
    track,          \* PassthroughFs.track_migration_info
    guest,          \* the references the guest has been given
    loc,            \* local state of the processes
    walk,           \* "mig": mode and last inode of the walker, find_paths' stack
    fe,             \* the front-end: what it waits for
    premig,         \* VhostUserFsBackend.premigration_thread
    cancel,         \* the cancel flag of that thread
    result,         \* what VhostUserFsBackend.migration_thread returns
    stream,         \* the serialized state
    dst,            \* the destination: its store, what it still has to load
    budget          \* what is left of setup.bounds

hostVars == <<setup, tree>>
storeVars == <<src, next_inode, track, guest>>
control == <<fe, premig, cancel>>
far == <<result, stream, dst>>
vars == <<hostVars, storeVars, loc, walk, control, far, budget>>

-----------------------------------------------------------------------------
(* The inode store.                                                        *)

NoInfo == [at |-> "none", parent |-> NoInode, name |-> NoName]
RootInfo == [NoInfo EXCEPT !.at = "root"]

Stored(s) == {n \in Inodes : s.file[n] # NoFile}
Take(s, n) == [s EXCEPT !.refs[n] = @ + 1]

\* InodeStoreInner::forget_one(n, 1) and remove(), which drops the reference
\* to the parent that the removed inode's info holds.
RECURSIVE Drop(_, _)
Drop(s, n) ==
    IF n \notin Stored(s) THEN s
    ELSE IF s.refs[n] > 1 THEN [s EXCEPT !.refs[n] = @ - 1]
    ELSE LET t == [s EXCEPT !.refs[n] = 0, !.file[n] = NoFile, !.info[n] = NoInfo]
         IN  IF s.info[n].at = "path" THEN Drop(t, s.info[n].parent) ELSE t

\* InodeMigrationInfo::new(): an error where a file handle is needed and the
\* host has none for f.
InfoFails(f) == (setup.mode = "handles" \/ setup.verify) /\ f \notin HasHandle
NewInfo(parent, nm) ==
    IF setup.mode = "handles" THEN [NoInfo EXCEPT !.at = "handle"]
    ELSE [at |-> "path", parent |-> parent, name |-> nm]

\* Mutant: the old info's reference is leaked.
SetInfoLeaks(s, n, i) ==
    [(IF i.at = "path" THEN Take(s, i.parent) ELSE s) EXCEPT !.info[n] = i]

\* Replace n's info: the new one brings a reference to its parent, the old
\* one's is dropped.
SetInfo(s, n, i) ==
    LET t == [(IF i.at = "path" THEN Take(s, i.parent) ELSE s) EXCEPT !.info[n] = i]
    IN  IF s.info[n].at = "path" THEN Drop(t, s.info[n].parent) ELSE t

\* InodeStore::clear_migration_info(): every info but the root's.
ClearInfo(s) == FoldSet(LAMBDA n, t : IF n \in Stored(t) THEN SetInfo(t, n, NoInfo) ELSE t,
                        s, Inodes \ {ROOT_ID})

\* do_claim_inode()
Claim(s, f) == LET S == {n \in Inodes : s.file[n] = f}
               IN  IF S = {} THEN NoInode ELSE Min(S)

Insert(s, n, f, i) ==
    LET t == [s EXCEPT !.file[n] = f, !.refs[n] = 1]
    IN  SetInfo(t, n, i)

-----------------------------------------------------------------------------
(* The host.                                                               *)

At(s, d, nm) == IF s.file[d] \in Dirs THEN tree[s.file[d], nm] ELSE NoFile
Links(f) == {e \in Dirs \X Names : tree[e] = f}

RECURSIVE PathsOf(_)
PathsOf(f) ==
    IF f = RootFile THEN {<<>>}
    ELSE UNION {{Append(p, e[2]) : p \in PathsOf(e[1])} : e \in Links(f)}

RECURSIVE Inside(_, _)
Inside(f, d) == f = d \/ \E e \in Links(f) : Inside(e[1], d)

\* Mutant: it is enough that the name exists.
PresentByName(s, n) ==
    s.info[n].at = "path" => At(s, s.info[n].parent, s.info[n].name) # NoFile

\* InodePath::check_presence(): is the inode still where its info says?
Present(s, n) ==
    \/ s.info[n].at # "path"
    \/ At(s, s.info[n].parent, s.info[n].name) = s.file[n]

-----------------------------------------------------------------------------
(* do_lookup() and the walk along a path.                                  *)

Idle == [pc |-> "idle", op |-> "none", dir |-> NoInode, rest |-> <<>>, found |-> NoFile,
         claim |-> NoInode, tracked |-> FALSE, target |-> NoInode, tfile |-> NoFile,
         inval |-> NoInode, old |-> NoInode, to |-> <<NoInode, NoName>>, fallback |-> FALSE]

\* try_lookup_implementation(): open the name, claim its inode if the store
\* has it; if not, do_lookup() reads track_migration_info before it inserts.
OpenName(p) ==
    LET f == At(src, loc[p].dir, Head(loc[p].rest))
        n == Claim(src, f)
    IN  /\ loc[p].pc = "open"
        /\ loc[p].rest # <<>>
        /\ f # NoFile
        /\ src' = IF n = NoInode THEN src ELSE Take(src, n)
        /\ loc' = [loc EXCEPT ![p].pc = "enter", ![p].found = f, ![p].claim = n,
                              ![p].tracked = track]
        /\ UNCHANGED <<hostVars, next_inode, track, guest, walk, control, far, budget>>

\* The rest of do_lookup() finds or inserts the inode: the store afterwards
\* and the inode, or NoInode after an error.
Entered(p) ==
    LET l == loc[p]
        n == Claim(src, l.found)
    IN  IF l.claim # NoInode THEN <<src, l.claim>>
        ELSE IF l.tracked /\ InfoFails(l.found) THEN <<src, NoInode>>
        ELSE IF n # NoInode THEN <<Take(src, n), n>>
        ELSE <<Insert(src, next_inode, l.found,
                      IF l.tracked THEN NewInfo(l.dir, Head(l.rest)) ELSE NoInfo), next_inode>>
Draws(p) == loc[p].claim = NoInode /\ ~(loc[p].tracked /\ InfoFails(loc[p].found))

\* LOOKUP's reply hands the reference to the guest.
EnterLookup ==
    LET e == Entered("guest")
    IN  /\ loc["guest"].pc = "enter" /\ loc["guest"].op = "lookup"
        /\ src' = e[1]
        /\ next_inode' = IF Draws("guest") THEN next_inode + 1 ELSE next_inode
        /\ guest' = IF e[2] = NoInode THEN guest ELSE [guest EXCEPT ![e[2]] = @ + 1]
        /\ loc' = [loc EXCEPT !["guest"] = Idle]
        /\ UNCHANGED <<hostVars, track, walk, control, far, budget>>

\* set_path_migration_info_from_proc_self_fd(), one component: give the inode
\* found an info if it has none (the info takes over the reference to the
\* directory), and go on from it.
EnterStep(p) ==
    LET e == Entered(p)
        s == e[1]
        n == e[2]
        l == loc[p]
    IN  /\ l.pc = "enter" /\ l.op # "lookup"
        /\ next_inode' = IF Draws(p) THEN next_inode + 1 ELSE next_inode
        /\ IF n # NoInode /\ (s.info[n].at # "none" \/ ~InfoFails(l.found))
           THEN /\ src' = Drop(IF s.info[n].at # "none" THEN s
                               ELSE SetInfo(s, n, NewInfo(l.dir, Head(l.rest))), l.dir)
                /\ loc' = [loc EXCEPT ![p].pc = "open", ![p].dir = n, ![p].rest = Tail(@),
                                      ![p].claim = NoInode, ![p].found = NoFile]
           ELSE /\ src' = Drop(IF n = NoInode THEN s ELSE Drop(s, n), l.dir)
                /\ loc' = [loc EXCEPT ![p].pc = "walked", ![p].dir = NoInode,
                                      ![p].claim = NoInode, ![p].found = NoFile,
                                      ![p].rest = <<>>, ![p].fallback = FALSE]
        /\ UNCHANGED <<hostVars, track, guest, walk, control, far, budget>>

\* get_path(): the kernel reports one of the file's paths; or that it was
\* deleted, which for a hard link need not be so; or a path outside of the
\* shared directory, which need not be a hard link's only one.  The handle of a
\* deleted file may be stale (NoFd), and nothing is looked for then either.
ProcPath(p) ==
    LET l == loc[p]
    IN  /\ l.pc = "proc"
        /\ \/ \E path \in PathsOf(l.tfile) :
                /\ src' = Take(src, ROOT_ID)
                /\ loc' = [loc EXCEPT ![p].pc = "open", ![p].dir = ROOT_ID, ![p].rest = path]
           \/ /\ PathsOf(l.tfile) # {} => l.tfile \in HardLinked
              /\ loc' = [loc EXCEPT ![p].pc = "walked", ![p].fallback = Links(l.tfile) # {}]
              /\ UNCHANGED src
        /\ UNCHANGED <<hostVars, next_inode, track, guest, walk, control, far, budget>>

\* A name on the way is gone (unrecoverable), or the walk is at its end: was
\* it the inode it was after?
WalkEnd(p) ==
    LET l == loc[p]
    IN  /\ l.pc = "open" /\ l.op # "lookup"
        /\ l.rest # <<>> => At(src, l.dir, Head(l.rest)) = NoFile
        /\ src' = Drop(src, l.dir)
        /\ loc' = [loc EXCEPT ![p].pc = "walked", ![p].dir = NoInode, ![p].rest = <<>>,
                              ![p].fallback = l.rest = <<>> /\ l.dir # l.target]
        /\ UNCHANGED <<hostVars, next_inode, track, guest, walk, control, far, budget>>

-----------------------------------------------------------------------------
(* The guest's requests.                                                   *)

\* Bound: the inode IDs that a walk over the store may draw.
Reserve == Cardinality(Dirs)

Held(n) == guest[n] > 0 /\ src.file[n] \in Dirs
Running == fe \in {"run", "join"}

\* A request arrives: LOOKUP of a name, or a request that changes the tree.
Request(op, d, nm, to) ==
    /\ Running /\ budget.ops > 0 /\ next_inode + Reserve < MaxInode
    /\ loc["guest"].pc = "idle"
    /\ Held(d)
    /\ budget' = [budget EXCEPT !.ops = @ - 1]
    /\ loc' = [loc EXCEPT !["guest"] = [Idle EXCEPT !.op = op, !.dir = d, !.rest = <<nm>>,
                 !.to = to, !.pc = IF op = "lookup" THEN "open" ELSE "before"]]
    /\ UNCHANGED <<hostVars, storeVars, walk, control, far>>

Lookup(d, nm) == Request("lookup", d, nm, <<NoInode, NoName>>)
Unlink(d, nm) == At(src, d, nm) # NoFile /\ Request("unlink", d, nm, <<d, nm>>)
Rename(op, d, nm, e, nm2) ==
    /\ At(src, d, nm) # NoFile /\ (op = "exchange" => At(src, e, nm2) # NoFile)
    /\ Held(e) /\ <<d, nm>> # <<e, nm2>>
    /\ Request(op, d, nm, <<e, nm2>>)
Create(d, nm, f) ==
    /\ At(src, d, nm) = NoFile /\ Links(f) = {} /\ Claim(src, f) = NoInode
    /\ Running /\ budget.ops > 0 /\ next_inode + Reserve < MaxInode
    /\ loc["guest"].pc = "idle" /\ Held(d)
    /\ tree' = [tree EXCEPT ![src.file[d], nm] = f]
    /\ budget' = [budget EXCEPT !.ops = @ - 1]
    /\ loc' = [loc EXCEPT !["guest"] = [Idle EXCEPT !.op = "lookup", !.dir = d, !.rest = <<nm>>,
                                                    !.pc = "open"]]
    /\ UNCHANGED <<setup, storeVars, walk, control, far>>

\* do_lookup() of a name that is not there: ENOENT.
LookupFails ==
    /\ loc["guest"].pc = "open" /\ loc["guest"].op = "lookup"
    /\ At(src, loc["guest"].dir, Head(loc["guest"].rest)) = NoFile
    /\ loc' = [loc EXCEPT !["guest"] = Idle]
    /\ UNCHANGED <<hostVars, storeVars, walk, control, far, budget>>

\* before_invalidating_path(): the inode at the path that is about to vanish.
BeforeInvalidating ==
    LET l == loc["guest"]
        f == At(src, l.to[1], l.to[2])
        n == IF f = NoFile THEN NoInode ELSE Claim(src, f)
    IN  /\ l.pc = "before"
        /\ src' = IF n = NoInode THEN src ELSE Take(src, n)
        /\ loc' = [loc EXCEPT !["guest"].pc = "change", !["guest"].inval = n]
        /\ UNCHANGED <<hostVars, next_inode, track, guest, walk, control, far, budget>>

\* unlinkat() or renameat2(), perhaps with RENAME_EXCHANGE; a directory that is
\* not empty stays, and so does the tree when one would move into itself.
Change ==
    LET l == loc["guest"]
        old == <<src.file[l.dir], Head(l.rest)>>
        new == <<src.file[l.to[1]], l.to[2]>>
        full(f) == f \in Dirs /\ \E nm \in Names : tree[f, nm] # NoFile
        ok == /\ l.op # "exchange" => ~full(tree[new])
              /\ l.op # "unlink" => /\ tree[old] # NoFile /\ tree[old] # tree[new]
                                    /\ ~Inside(new[1], tree[old])
              /\ l.op = "exchange" => tree[new] # NoFile /\ ~Inside(old[1], tree[new])
    IN  /\ l.pc = "change"
        /\ tree' = IF ~ok THEN tree
                   ELSE IF l.op = "unlink" THEN [tree EXCEPT ![new] = NoFile]
                   ELSE [tree EXCEPT ![new] = tree[old],
                                         ![old] = IF l.op = "rename" THEN NoFile ELSE tree[new]]
        /\ loc' = [loc EXCEPT !["guest"].pc = "after",
                              !["guest"].op = IF ok THEN @ ELSE "failed"]
        /\ UNCHANGED <<setup, storeVars, walk, control, far, budget>>

\* after_invalidating_path(): take the info; if it held a path, look for
\* another one.  The old location lives on until the function returns.
AfterInvalidating ==
    LET l == loc["guest"]
        n == l.inval
    IN  /\ l.pc = "after"
        /\ IF n # NoInode /\ src.info[n].at = "path"
           THEN /\ src' = [src EXCEPT !.info[n] = NoInfo]
                /\ loc' = [loc EXCEPT !["guest"].pc = "proc", !["guest"].target = n,
                                      !["guest"].tfile = src.file[n],
                                      !["guest"].old = src.info[n].parent,
                                      !["guest"].dir = NoInode]
           ELSE /\ loc' = [loc EXCEPT !["guest"].pc = "walked"]
                /\ UNCHANGED src
        /\ UNCHANGED <<hostVars, next_inode, track, guest, walk, control, far, budget>>

\* Back from after_invalidating_path(), which drops its references; after a
\* rename, update_inode_migration_info() gives the moved inode its new path.
Update ==
    LET l == loc["guest"]
        s == Drop(Drop(src, l.old), l.inval)
        n == IF At(src, l.to[1], l.to[2]) = NoFile THEN NoInode
             ELSE Claim(s, At(src, l.to[1], l.to[2]))
    IN  /\ l.pc = "walked"
        /\ src' = IF l.op \notin {"rename", "exchange"} \/ ~track \/ n = NoInode THEN s
                  ELSE IF s.info[n].at = "handle" THEN s
                  ELSE IF InfoFails(s.file[n]) THEN SetInfo(s, n, NoInfo)
                  ELSE SetInfo(s, n, NewInfo(l.to[1], l.to[2]))
        /\ loc' = [loc EXCEPT !["guest"] = Idle]
        /\ UNCHANGED <<hostVars, next_inode, track, guest, walk, control, far, budget>>

\* FORGET of an inode the guest has no handle on and no request uses.
Forget(n) ==
    /\ Running /\ loc["guest"].pc = "idle"
    /\ n # ROOT_ID /\ guest[n] > 0 /\ n \notin setup.open
    /\ src' = Drop(src, n)
    /\ guest' = [guest EXCEPT ![n] = @ - 1]
    /\ UNCHANGED <<hostVars, next_inode, track, loc, walk, control, far, budget>>

GuestStep ==
    \/ \E d \in Inodes, nm \in Names : Lookup(d, nm) \/ Unlink(d, nm)
    \/ \E d, e \in Inodes, nm, nm2 \in Names, op \in {"rename", "exchange"} :
         Rename(op, d, nm, e, nm2)
    \/ \E d \in Inodes, nm \in Names, f \in Fresh : Create(d, nm, f)
    \/ \E n \in Inodes : Forget(n)
    \/ EnterLookup \/ LookupFails
    \/ OpenName("guest") \/ EnterStep("guest") \/ ProcPath("guest") \/ WalkEnd("guest")
    \/ BeforeInvalidating \/ Change \/ AfterInvalidating \/ Update

-----------------------------------------------------------------------------
(* prepare_serialization() and serialize().                                *)

Mig == loc["mig"]
MigAt(pc) == [loc EXCEPT !["mig"] = [Idle EXCEPT !.op = "walk", !.pc = pc]]
Walk(mode) == [mode |-> mode, last |-> NoInode, stack |-> <<>>, names |-> {}]

Prepare ==
    /\ Mig.pc = "clear"
    /\ src' = ClearInfo(src)
    /\ loc' = MigAt("track")
    /\ UNCHANGED <<hostVars, next_inode, track, guest, walk, control, far, budget>>

\* The constructor that suits the migration mode runs next.
Track ==
    /\ Mig.pc = "track"
    /\ track' = TRUE
    /\ walk' = Walk(setup.mode)
    /\ loc' = MigAt("walk")
    /\ UNCHANGED <<hostVars, src, next_inode, guest, control, far, budget>>

\* What follows a walk: the implicit check after a constructor, then the end of
\* prepare_serialization(); the stream after --migration-confirm-paths.
WalkDone ==
    /\ walk' = Walk(IF walk.mode \in {"paths", "handles"} THEN "implicit" ELSE "none")
    /\ loc' = MigAt(CASE walk.mode \in {"paths", "handles"} -> "walk"
                      [] walk.mode = "implicit" -> "ready"
                      [] walk.mode = "confirm" -> "write")

\* should_update_inode(): does the walker look for n's path?  An info that a
\* check finds wrong is taken away first.
ShouldUpdate(n) ==
    CASE walk.mode = "handles" -> FALSE
      [] walk.mode = "paths" -> src.info[n].at = "none"
      [] walk.mode = "implicit" -> ~Present(src, n)
      [] walk.mode = "confirm" -> src.info[n].at = "none" \/ ~Present(src, n)
Checked(n) == IF walk.mode \in {"implicit", "confirm"} /\ ~Present(src, n)
              THEN SetInfo(src, n, NoInfo) ELSE src

\* file_handles::Constructor: a handle for an inode that has no info yet.
Addressed(n) == IF src.info[n].at = "none" /\ src.file[n] \in HasHandle
                THEN SetInfo(src, n, NewInfo(NoInode, NoName)) ELSE src

\* Walker::run() and file_handles::Constructor::execute(): the next inode, in
\* the order of their IDs, new ones included.
WalkNext ==
    LET ahead == {n \in Stored(src) : n > walk.last}
        n == Min(ahead)
    IN  /\ Mig.pc = "walk"
        /\ IF ahead = {} \/ (cancel /\ walk.mode # "confirm")
           THEN WalkDone /\ UNCHANGED src
           ELSE /\ src' = IF walk.mode = "handles" THEN Addressed(n) ELSE Checked(n)
                /\ walk' = [walk EXCEPT !.last = n]
                /\ loc' = IF ShouldUpdate(n)
                          THEN [loc EXCEPT !["mig"].pc = "proc", !["mig"].target = n,
                                           !["mig"].tfile = src.file[n]]
                          ELSE loc
        /\ UNCHANGED <<hostVars, next_inode, track, guest, control, far, budget>>

\* Back in Walker::run(): the constructor gives up when it is advised to, and
\* find_paths::Constructor takes over, from the root.
Walked ==
    /\ Mig.pc = "walked"
    /\ IF Mig.fallback /\ walk.mode = "paths"
       THEN /\ src' = Take(src, ROOT_ID)
            /\ walk' = [walk EXCEPT !.stack = <<ROOT_ID>>]
            /\ loc' = MigAt("dir")
       ELSE /\ loc' = MigAt("walk")
            /\ UNCHANGED <<src, walk>>
    /\ UNCHANGED <<hostVars, next_inode, track, guest, control, far, budget>>

\* recurse_from(): pop a directory and read its entries.
ScanDir ==
    /\ Mig.pc = "dir"
    /\ IF walk.stack = <<>> THEN WalkDone
       ELSE LET d == Last(walk.stack)
            IN  /\ walk' = [walk EXCEPT !.stack = Front(@),
                              !.names = {nm \in Names : At(src, d, nm) # NoFile}]
                /\ loc' = [loc EXCEPT !["mig"].pc = "entry", !["mig"].dir = d]
    /\ UNCHANGED <<hostVars, storeVars, control, far, budget>>

\* discover(), first half: open the entry, which may be gone by now, and claim
\* its inode.  After the last one the reference to the directory is dropped;
\* after a cancellation all of them are.
ScanEntry ==
    /\ Mig.pc = "entry"
    /\ \/ /\ walk.names = {}
          /\ src' = Drop(src, Mig.dir)
          /\ loc' = MigAt("dir")
          /\ UNCHANGED walk
       \/ /\ walk.names # {} /\ cancel
          /\ src' = FoldSeq(LAMBDA d, s : Drop(s, d), Drop(src, Mig.dir), walk.stack)
          /\ WalkDone
       \/ \E nm \in walk.names :
            LET f == At(src, Mig.dir, nm)
                n == Claim(src, f)
            IN  /\ ~cancel
                /\ walk' = [walk EXCEPT !.names = @ \ {nm}]
                /\ src' = IF f = NoFile \/ n = NoInode THEN src ELSE Take(src, n)
                /\ loc' = IF f = NoFile \/ (n = NoInode /\ f \notin Dirs) THEN loc
                          ELSE [loc EXCEPT !["mig"].pc = "discover", !["mig"].found = f,
                                           !["mig"].claim = n, !["mig"].rest = <<nm>>]
    /\ UNCHANGED <<hostVars, next_inode, track, guest, control, far, budget>>

\* discover(), second half: set the info, whatever it was; a directory that the
\* store does not have is inserted, and directories are visited later.
Discover ==
    LET l == Mig
        i == NewInfo(l.dir, Head(l.rest))
        n == Claim(src, l.found)
        s == IF l.claim # NoInode THEN SetInfo(src, l.claim, i)
             ELSE IF n # NoInode THEN Take(src, n)
             ELSE Insert(src, next_inode, l.found, i)
        m == CASE l.claim # NoInode -> l.claim
               [] l.claim = NoInode /\ n # NoInode -> n
               [] OTHER -> next_inode
        fails == InfoFails(l.found)
        push == ~fails /\ l.found \in Dirs
    IN  /\ l.pc = "discover"
        /\ next_inode' = IF fails \/ l.claim # NoInode THEN next_inode ELSE next_inode + 1
        /\ src' = IF push THEN s ELSE Drop(IF fails THEN src ELSE s, l.claim)
        /\ walk' = IF push THEN [walk EXCEPT !.stack = Append(@, m)] ELSE walk
        /\ loc' = [loc EXCEPT !["mig"] = [MigAt("entry")["mig"] EXCEPT !.dir = l.dir]]
        /\ UNCHANGED <<hostVars, track, guest, control, far, budget>>

\* The migration thread has joined the premigration thread.
Serialize ==
    /\ fe = "save" /\ Mig.pc = "ready"
    /\ track' = FALSE
    /\ walk' = Walk(IF setup.confirm THEN "confirm" ELSE "none")
    /\ loc' = MigAt(IF setup.confirm THEN "walk" ELSE "write")
    /\ UNCHANGED <<hostVars, src, next_inode, guest, control, far, budget>>

\* InodeData::as_serialized(): an inode without info is marked invalid.
Serialized(n) ==
    [id |-> n, refs |-> src.refs[n], file |-> src.file[n], name |-> src.info[n].name,
     at |-> IF src.info[n].at = "none" THEN "invalid" ELSE src.info[n].at,
     parent |-> src.info[n].parent]
NoStream == <<>>

\* Mutant: the infos stay until the next migration.
WriteKeepsInfo ==
    /\ Mig.pc = "write"
    /\ result' = "ok"
    /\ stream' = [i \in 1..Cardinality(Stored(src)) |->
                    Serialized(SetToSortSeq(Stored(src), <)[i])]
    /\ loc' = [loc EXCEPT !["mig"] = Idle]
    /\ UNCHANGED <<hostVars, storeVars, walk, control, dst, budget>>

\* Take the snapshot, clear the infos, write the stream, which may fail.
WriteState ==
    /\ Mig.pc = "write"
    /\ src' = ClearInfo(src)
    /\ \E ok \in {"ok", "err"} :
         /\ result' = ok
         /\ stream' = IF ok = "err" THEN NoStream
                      ELSE [i \in 1..Cardinality(Stored(src)) |->
                              Serialized(SetToSortSeq(Stored(src), <)[i])]
    /\ loc' = [loc EXCEPT !["mig"] = Idle]
    /\ UNCHANGED <<hostVars, next_inode, track, guest, walk, control, dst, budget>>

MigStep ==
    \/ OpenName("mig") \/ EnterStep("mig") \/ ProcPath("mig") \/ WalkEnd("mig")
    \/ Prepare \/ Track \/ WalkNext \/ Walked \/ ScanDir \/ ScanEntry \/ Discover
    \/ Serialize \/ WriteState

-----------------------------------------------------------------------------
(* The destination: apply_with_mount_paths().                              *)

NoDst == [pc |-> "idle", pending |-> <<>>, i |-> 1, any |-> FALSE,
          file |-> [n \in Inodes |-> NoFile], refs |-> [n \in Inodes |-> 0],
          info |-> [n \in Inodes |-> NoInfo], handles |-> {}, dead |-> {},
          fs_options |-> FALSE, server_options |-> FALSE]

LoadError == result' = "err" /\ dst' = [dst EXCEPT !.pc = "idle"]

SwapRemove(q, i) == IF i = Len(q) THEN Front(q) ELSE [Front(q) EXCEPT ![i] = Last(q)]

\* NegotiatedOpts::apply(): the flags that PassthroughFs negotiated with the
\* guest; Server's own options are not part of the stream.
Adopt(d) == [d EXCEPT !.fs_options = TRUE]

\* deserialize_root_node(): the root is the directory given on the command line,
\* only the refcount is the source's.  That it cannot be opened, or has another
\* file handle than the source's, is an error whatever --migration-on-error says.
LoadRoot(d, e) == [d EXCEPT !.file[ROOT_ID] = RootFile, !.refs[ROOT_ID] = e.refs]
RootFound == RootFile \notin setup.absent

\* apply_with_mount_paths(): the options, an empty store, and, if there are
\* mount paths to open, the root ahead of the other inodes.
LoadOptions ==
    LET first == CHOOSE i \in DOMAIN stream : stream[i].id = ROOT_ID
        d == [Adopt(NoDst) EXCEPT !.pc = "inodes", !.pending = stream]
        ahead == setup.mode = "handles" /\ setup.mounts
    IN  /\ dst.pc = "options"
        /\ IF ~setup.compatible \/ (ahead /\ ~RootFound) THEN LoadError
           ELSE /\ dst' = IF ahead
                          THEN LoadRoot([d EXCEPT !.pending = SwapRemove(@, first)], stream[first])
                          ELSE d
                /\ UNCHANGED result
        /\ UNCHANGED <<hostVars, storeVars, loc, walk, control, stream, budget>>

\* What the destination may find for the serialized inode e.
\* deserialize_path(), followed by check_file_handle()
ByPath(e) ==
    LET f == At(dst, e.parent, e.name)
    IN  IF f = NoFile \/ f \in setup.absent \/ (setup.verify /\ f # e.file)
        THEN {InvalidFile} ELSE {f}
\* deserialize_file_handle(): the handle of a deleted file may be stale.
ByHandle(e) ==
    IF ~setup.mounts \/ e.file \in setup.absent THEN {InvalidFile}
    ELSE {e.file} \cup (IF Links(e.file) = {} THEN {InvalidFile} ELSE {})
Located(e) ==
    CASE e.at = "root" -> {IF RootFound THEN RootFile ELSE InvalidFile}
      [] e.at = "path" -> ByPath(e)
      [] e.at = "handle" -> ByHandle(e)
      [] e.at = "invalid" -> {InvalidFile}

\* Mutant: the reference to the parent is not dropped.
LoadKeepsParentRef ==
    LET e == dst.pending[dst.i]
    IN  /\ dst.pc = "inodes" /\ dst.i <= Len(dst.pending)
        /\ IF e.at = "path" /\ e.parent \notin Stored(dst)
           THEN dst' = [dst EXCEPT !.i = @ + 1] /\ UNCHANGED result
           ELSE \E f \in Located(e) :
                  IF f = InvalidFile /\ (setup.on_error = "abort" \/ e.at = "root") THEN LoadError
                  ELSE /\ dst' = [dst EXCEPT !.pending = SwapRemove(@, dst.i), !.any = TRUE,
                                            !.file[e.id] = f, !.refs[e.id] = e.refs]
                       /\ UNCHANGED result
        /\ UNCHANGED <<hostVars, storeVars, loc, walk, control, stream, budget>>

\* deserialize_with_fs(): FALSE, and on to the next, while the parent is not
\* there; the reference that the path stands for is dropped.  (No source writes
\* InodeLocation::FullPath, or an ID twice.)
LoadInode ==
    LET e == dst.pending[dst.i]
        d == [Drop(dst, IF e.at = "path" THEN e.parent ELSE NoInode)
                EXCEPT !.pending = SwapRemove(@, dst.i), !.any = TRUE]
    IN  /\ dst.pc = "inodes" /\ dst.i <= Len(dst.pending)
        /\ IF e.at = "path" /\ e.parent \notin Stored(dst)
           THEN dst' = [dst EXCEPT !.i = @ + 1] /\ UNCHANGED result
           ELSE \E f \in Located(e) :
                  IF f = InvalidFile /\ (setup.on_error = "abort" \/ e.at = "root") THEN LoadError
                  ELSE /\ dst' = [d EXCEPT !.file[e.id] = f, !.refs[e.id] = e.refs]
                       /\ UNCHANGED result
        /\ UNCHANGED <<hostVars, storeVars, loc, walk, control, stream, budget>>

\* The end of a pass over what is left.
LoadPass ==
    /\ dst.pc = "inodes" /\ dst.i > Len(dst.pending)
    /\ IF dst.pending = <<>> THEN dst' = [dst EXCEPT !.pc = "handles"] /\ UNCHANGED result
       ELSE IF ~dst.any THEN LoadError
       ELSE dst' = [dst EXCEPT !.i = 1, !.any = FALSE] /\ UNCHANGED result
    /\ UNCHANGED <<hostVars, storeVars, loc, walk, control, stream, budget>>

\* Handle::deserialize_with_fs() for every handle, in the order of their IDs.
LoadHandles ==
    LET lost == {n \in setup.open : n \notin Stored(dst)}
        dead == {n \in setup.open : dst.file[n] = InvalidFile}
    IN  /\ dst.pc = "handles"
        /\ IF lost # {} \/ (dead # {} /\ setup.on_error = "abort") THEN LoadError
           ELSE /\ dst' = [dst EXCEPT !.pc = "idle", !.handles = setup.open, !.dead = dead]
                /\ result' = "ok"
        /\ UNCHANGED <<hostVars, storeVars, loc, walk, control, stream, budget>>

LoadStep == LoadOptions \/ LoadInode \/ LoadPass \/ LoadHandles

-----------------------------------------------------------------------------
(* The front-end.                                                          *)

\* SET_FEATURES with VHOST_F_LOG_ALL
LogAllOn ==
    /\ fe = "run" /\ ~premig /\ next_inode + Reserve <= MaxInode
    /\ premig' = TRUE /\ cancel' = FALSE
    /\ loc' = MigAt("clear")
    /\ UNCHANGED <<hostVars, storeVars, walk, fe, far, budget>>

\* SET_FEATURES without it: cancel the thread and wait for its end.
LogAllOff ==
    /\ fe = "run" /\ premig /\ budget.logoff > 0
    /\ premig' = FALSE /\ cancel' = TRUE /\ fe' = "join"
    /\ budget' = [budget EXCEPT !.logoff = @ - 1]
    /\ UNCHANGED <<hostVars, storeVars, loc, walk, far>>
Joined ==
    /\ fe = "join" /\ Mig.pc = "ready"
    /\ fe' = "run"
    /\ loc' = [loc EXCEPT !["mig"] = Idle]
    /\ UNCHANGED <<hostVars, storeVars, walk, premig, cancel, far, budget>>

\* SET_DEVICE_STATE_FD(SAVE), the guest having been stopped; without a
\* premigration thread the migration thread does its work first.
Save ==
    /\ fe = "run" /\ loc["guest"].pc = "idle"
    /\ ~premig => next_inode + Reserve <= MaxInode
    /\ fe' = "save" /\ premig' = FALSE
    /\ IF premig THEN UNCHANGED <<cancel, loc>> ELSE cancel' = FALSE /\ loc' = MigAt("clear")
    /\ UNCHANGED <<hostVars, storeVars, walk, far, budget>>

\* CHECK_DEVICE_STATE joins the migration thread.  After an error the guest
\* goes on at the source.
Check ==
    /\ fe \in {"save", "load"} /\ result # "none"
    /\ fe' = CASE result = "err" -> "run"
               [] result = "ok" /\ fe = "save" -> "moved"
               [] result = "ok" /\ fe = "load" -> "dst"
    /\ result' = "none"
    /\ stream' = IF fe = "load" \/ result = "err" THEN NoStream ELSE stream
    /\ dst' = IF fe' = "dst" THEN dst ELSE NoDst
    /\ UNCHANGED <<hostVars, storeVars, loc, walk, premig, cancel, budget>>

\* SET_DEVICE_STATE_FD(LOAD) at the destination
Load ==
    /\ fe = "moved"
    /\ fe' = "load"
    /\ dst' = [NoDst EXCEPT !.pc = "options"]
    /\ UNCHANGED <<hostVars, storeVars, loc, walk, premig, cancel, result, stream, budget>>

\* FORGET at the destination
ForgetAtDst(n) ==
    /\ fe = "dst" /\ n # ROOT_ID /\ guest[n] > 0 /\ n \notin dst.handles
    /\ dst' = Drop(dst, n)
    /\ guest' = [guest EXCEPT ![n] = @ - 1]
    /\ UNCHANGED <<hostVars, src, next_inode, track, loc, walk, control, result, stream,
                   budget>>

-----------------------------------------------------------------------------
Init ==
    /\ setup \in Setups
    /\ tree = setup.tree
    /\ guest = [n \in Inodes |-> IF setup.known[n] = NoFile THEN 0
                                 ELSE IF n = ROOT_ID THEN 2 ELSE 1]
    /\ src = [file |-> setup.known, refs |-> guest,
              info |-> [n \in Inodes |-> IF n = ROOT_ID THEN RootInfo ELSE NoInfo]]
    /\ next_inode = 1 + Cardinality({n \in Inodes : setup.known[n] # NoFile})
    /\ track = FALSE
    /\ loc = [p \in Procs |-> Idle]
    /\ walk = Walk("none")
    /\ fe = "run" /\ premig = FALSE /\ cancel = FALSE
    /\ result = "none" /\ stream = NoStream /\ dst = NoDst
    /\ budget = setup.bounds

\* The guest asks for nothing and the front-end does not migrate.
Quiet ==
    /\ fe \in {"run", "dst"} /\ loc["guest"].pc = "idle" /\ Mig.pc \in {"idle", "ready"}
    /\ UNCHANGED vars

Next ==
    \/ GuestStep \/ MigStep \/ LoadStep
    \/ LogAllOn \/ LogAllOff \/ Joined \/ Save \/ Check \/ Load
    \/ \E n \in Inodes : ForgetAtDst(n)
    \/ Quiet

\* The migration threads run, and the front-end goes on with a migration for
\* which it has stopped the guest: weak fairness of their steps, with what
\* enables them written out.
MigCan == Mig.pc \notin {"idle", "ready"} \/ (Mig.pc = "ready" /\ fe = "save")
FrontEndCan == \/ fe \in {"save", "load"} /\ result # "none"
               \/ fe = "join" /\ Mig.pc = "ready"
               \/ fe = "moved"
Fairness ==
    /\ []<>~MigCan \/ []<><<MigStep>>_vars
    /\ []<>(dst.pc = "idle") \/ []<><<LoadStep>>_vars
    /\ []<>~FrontEndCan \/ []<><<Check \/ Load \/ Joined>>_vars
Spec == Init /\ [][Next]_vars /\ Fairness

-----------------------------------------------------------------------------
(* Properties.                                                             *)

Count(S) == Cardinality(S)
Holds(p, n) ==
    Count({x \in {"dir", "claim", "inval", "old"} :
             loc[p][x] = n /\ (x = "dir" => p = "mig" \/ loc[p].target # NoInode)})
OnStack(n) == Count({i \in DOMAIN walk.stack : walk.stack[i] = n})
Children(n) == Count({m \in Inodes : src.info[m].at = "path" /\ src.info[m].parent = n})

\* The source's refcounts stay exact while the premigration thread, its
\* cancellation and the guest's requests move infos and their references to
\* parents around: every reference is the guest's, an info's or a local one.
RefsExact ==
    fe # "dst" => \A n \in Inodes :
      src.refs[n] = guest[n] + Children(n) + OnStack(n) + Holds("guest", n) + Holds("mig", n)

\* The module Handover: what the guest sees of a migration.  The guest's
\* references are those it was given while the source has it, and the refcounts
\* of the destination's store once it has moved, so the two must agree.
H == INSTANCE Handover WITH
       owner <- CASE fe \in {"run", "join"} -> "src" [] fe = "dst" -> "dst"
                  [] OTHER -> "transit",
       table <- [n \in Inodes |-> IF guest[n] = 0 THEN NoFile
                                  ELSE IF fe = "dst" THEN dst.file[n] ELSE src.file[n]],
       refs <- IF fe = "dst" THEN dst.refs ELSE guest,
       checked <- setup.confirm \/ setup.verify \/ setup.mode = "handles"

\* Whatever the guest, the premigration thread and the front-end do, and
\* wherever the walks fail, the handover is the one Handover describes: with
\* --migration-confirm-paths, --migration-verify-handles or file handles no
\* inode arrives as a different file, in no mode is one lost or a reference too
\* many or too few, and every migration ends.
Handover == H!Spec

\* serialize() leaves nothing behind: once the stream is written the source has
\* dropped every reference that a path held, and with it the directories that
\* only the walks had added.
SourceCleared ==
    result # "none" /\ fe = "save" =>
      /\ \A n \in Inodes : src.refs[n] = guest[n]
      /\ \A n \in Stored(src) : guest[n] > 0

\* What a stream says can be used: the parent of every path is part of it (so
\* the destination never finds unresolved references).  With
\* --migration-confirm-paths each path leads to its inode, and an inode is sent
\* as invalid only if it has no name any more, or the kernel does not know it.
StreamUsable ==
    \A i \in DOMAIN stream :
      LET e == stream[i]
          leads(p) == p.file \in Dirs /\ tree[p.file, e.name] = e.file
      IN  /\ e.at = "path" => \E p \in ToSet(stream) :
                                p.id = e.parent /\ (setup.confirm => leads(p))
          /\ setup.confirm /\ e.at = "invalid" /\ ~InfoFails(e.file) =>
               PathsOf(e.file) = {} \/ e.file \in HardLinked

\* "Check reconstructed paths once.  This is to rule out TOCTTOU problems":
\* without any further option, no path in the stream leads elsewhere.
PathsRechecked ==
    \A i \in DOMAIN stream : stream[i].at = "path" =>
      \E p \in ToSet(stream) :
        /\ p.id = stream[i].parent
        /\ p.file \in Dirs /\ tree[p.file, stream[i].name] = stream[i].file

\* "On migration, all options negotiated here with the guest must be sent to the
\* destination": after the handover both hold there, PassthroughFs's flags and
\* the options by which Server decodes requests.
OptionsArrive == fe = "dst" => dst.fs_options /\ dst.server_options
=============================================================================
