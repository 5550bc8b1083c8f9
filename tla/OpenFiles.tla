----------------------------- MODULE OpenFiles ------------------------------
(***************************************************************************)
(* Open files of the passthrough file system: the table of file handles,   *)
(* the limit on descriptors opened for the guest (guest_fd_limit.rs), and  *)
(* the requests that use both: LOOKUP, OPEN, CREATE, READ/WRITE, RELEASE,  *)
(* FORGET and DESTROY (passthrough/mod.rs).                                *)
(*                                                                         *)
(* A descriptor is opened first and counted afterwards, by wrapping it in  *)
(* a GuestFile; the GuestFile gives its slot back when it is dropped.  It  *)
(* lives in the InodeData of an inode without a file handle, or in the     *)
(* HandleData of an open file.  Both are behind an Arc that a request may  *)
(* hold while another one removes the entry from its map.                  *)
(*                                                                         *)
(* What InodeStore.tla shows of LOOKUP is used here: claiming an inode and *)
(* inserting one are single steps, and a file has one inode at a time.     *)
(***************************************************************************)
EXTENDS Integers, FiniteSets

CONSTANTS
    Files,          \* host files, generation included
    NoFile,
    Names,          \* names in the shared directory
    HasHandle,      \* files addressed by file handle: no descriptor is kept
    Threads,        \* threads that handle requests
    Limit,          \* PassthroughFs::cfg.guest_fd_limit
    MaxInode,       \* bound: inode IDs
    MaxHandle,      \* bound: file handles
    MaxRefs         \* bound: references to an inode when a lookup starts

ASSUME OpenFilesAssumption ==
    /\ NoFile \notin Files
    /\ HasHandle \subseteq Files
    /\ IsFiniteSet(Threads)
    /\ Limit \in Nat
    /\ MaxInode \in Nat /\ MaxHandle \in Nat /\ MaxRefs \in Nat

VARIABLES
    dir,            \* the host's directory: what each name refers to
    born,           \* files that exist or existed
    data,           \* inodes in the store
    file,           \* the host file of each InodeData
    refcount,       \* InodeData::refcount
    handles,        \* PassthroughFs::handles: the keys
    hinode,         \* HandleData::inode
    hfile,          \* HandleData::file
    available,      \* GuestFdSemaphore::available
    lost,           \* descriptors nobody owns any more
    next_inode,
    next_handle,
    guest,          \* lookups the guest owns of an inode, to FORGET
    opened,         \* handles the guest owns, to RELEASE
    pc, op,         \* where each thread is, and in which request
    name,           \* the name it was given
    fd,             \* a File it has open that no GuestFile counts
    path,           \* the O_PATH File of its lookup, not counted either
    slot,           \* it owns a GuestFile that is not in a map yet
    node,           \* the inode it works on; the Arc while it has it
    harc            \* the Arc<HandleData> it cloned

storeVars == <<data, file, refcount, next_inode>>
handleVars == <<handles, hinode, hfile, next_handle>>
hostVars == <<dir, born>>
guestVars == <<guest, opened>>
threadVars == <<pc, op, name, fd, path, slot, node, harc>>
vars == <<storeVars, handleVars, hostVars, guestVars, threadVars, available, lost>>

Inodes == 1..MaxInode
HandleIds == 1..MaxHandle
None == 0

-----------------------------------------------------------------------------
(* The semaphore.                                                          *)

\* Mutant: the limit is not enforced (plain fetch_sub).
AllocateUnchecked(t, f) == available' = available - 1

\* GuestFdSemaphore::allocate(): checked_sub(1), or ENFILE.
Allocate(t, f) ==
    /\ available > 0
    /\ available' = available - 1

\* Thread t holds the Arc<InodeData> of n; before inodes.get() it has the ID only.
HasArc(t, n) == node[t] = n /\ pc[t] # "open"

\* An InodeData is dropped when neither the store nor another thread has it ...
InodeGone(n, t) == n \notin data /\ \A u \in Threads \ {t} : ~HasArc(u, n)

\* ... and gives a slot back if it owned a descriptor.
InodeSlot(t) ==
    IF /\ node[t] # None /\ pc[t] # "open"
       /\ InodeGone(node[t], t) /\ file[node[t]] \notin HasHandle
      THEN 1 ELSE 0

\* The same for the HandleData a thread has cloned the Arc of.
HandleSlot(t) ==
    IF /\ harc[t] # None /\ harc[t] \notin handles
       /\ \A u \in Threads \ {t} : harc[u] # harc[t]
      THEN 1 ELSE 0

\* Mutant: only the map's reference to a handle gives the slot back.
ReleasedForgetsHandle(t) == InodeSlot(t)

\* Slots given back when thread t drops its Arcs.
Released(t) == InodeSlot(t) + HandleSlot(t)

\* The thread returns: its Files are closed and its Arcs and GuestFile dropped.
Finish(t) ==
    /\ pc' = [pc EXCEPT ![t] = "idle"]
    /\ fd' = [fd EXCEPT ![t] = NoFile]
    /\ path' = [path EXCEPT ![t] = NoFile]
    /\ slot' = [slot EXCEPT ![t] = FALSE]
    /\ node' = [node EXCEPT ![t] = None]
    /\ harc' = [harc EXCEPT ![t] = None]
    /\ op' = [op EXCEPT ![t] = "none"]
    /\ UNCHANGED name

\* ... with an error, before anything was published.
Fail(t) ==
    /\ Finish(t)
    /\ available' = available + Released(t)
    /\ UNCHANGED <<storeVars, handleVars, hostVars, guestVars, lost>>

-----------------------------------------------------------------------------
(* LOOKUP, also as a part of CREATE.                                       *)

\* try_lookup_implementation(): open the name with O_PATH, which may
\* fail.
OpenPath(t) ==
    /\ pc[t] = "lookup"
    /\ \/ /\ dir[name[t]] # NoFile
          /\ path' = [path EXCEPT ![t] = dir[name[t]]]
          /\ pc' = [pc EXCEPT ![t] = "claim"]
          /\ UNCHANGED <<storeVars, handleVars, hostVars, guestVars, op, name, fd,
                         slot, node, harc, available, lost>>
       \/ Fail(t)

\* claim_inode(): the inode of the file, if the store has one.
Claim(t) ==
    LET known == {n \in data : file[n] = path[t]}
    IN  /\ pc[t] = "claim"
        /\ \/ \E n \in known :
                /\ refcount' = [refcount EXCEPT ![n] = @ + 1]
                /\ node' = [node EXCEPT ![t] = n]
                /\ path' = [path EXCEPT ![t] = NoFile]
                /\ pc' = [pc EXCEPT ![t] = "entry"]
           \/ /\ known = {}
              /\ pc' = [pc EXCEPT ![t] = "new"]
              /\ UNCHANGED <<refcount, node, path>>
        /\ UNCHANGED <<data, file, next_inode, handleVars, hostVars, guestVars,
                       op, name, fd, slot, harc, available, lost>>

\* do_lookup(): a file with a handle is closed, once the handle is known to be
\* openable; otherwise the descriptor is kept, and counted, which fails with
\* ENFILE at the limit.
NewInode(t) ==
    /\ pc[t] = "new"
    /\ \/ /\ path[t] \in HasHandle
          /\ pc' = [pc EXCEPT ![t] = "insert"]
          /\ UNCHANGED <<storeVars, handleVars, hostVars, guestVars, op, name, fd,
                         path, slot, node, harc, available, lost>>
       \/ /\ path[t] \notin HasHandle
          /\ Allocate(t, path[t])
          /\ slot' = [slot EXCEPT ![t] = TRUE]
          /\ pc' = [pc EXCEPT ![t] = "insert"]
          /\ UNCHANGED <<storeVars, handleVars, hostVars, guestVars, op, name, fd,
                         path, node, harc, lost>>
       \/ /\ path[t] \in HasHandle \/ available = 0
          /\ Fail(t)

\* GuestFiles dropped with an InodeData that get_or_insert() does not need.
Discard(t) == IF slot[t] THEN 1 ELSE 0

\* The migration info of the new inode cannot be made: the InodeData is dropped.
InfoError(t) ==
    /\ pc[t] = "insert"
    /\ available' = available + Discard(t)
    /\ Finish(t)
    /\ UNCHANGED <<storeVars, handleVars, hostVars, guestVars, lost>>

\* get_or_insert(): somebody else's inode, or the new one.
GetOrInsert(t) ==
    LET known == {n \in data : file[n] = path[t]}
    IN  /\ pc[t] = "insert"
        /\ \/ \E n \in known :
                /\ refcount' = [refcount EXCEPT ![n] = @ + 1]
                /\ node' = [node EXCEPT ![t] = n]
                /\ available' = available + Discard(t)
                /\ UNCHANGED <<data, file, next_inode>>
           \/ /\ known = {}
              /\ data' = data \cup {next_inode}
              /\ file' = [file EXCEPT ![next_inode] = path[t]]
              /\ refcount' = [refcount EXCEPT ![next_inode] = 1]
              /\ node' = [node EXCEPT ![t] = next_inode]
              /\ next_inode' = next_inode + 1
              /\ UNCHANGED available
        /\ slot' = [slot EXCEPT ![t] = FALSE]
        /\ path' = [path EXCEPT ![t] = NoFile]
        /\ pc' = [pc EXCEPT ![t] = "entry"]
        /\ UNCHANGED <<handleVars, hostVars, guestVars, op, name, fd, harc, lost>>

\* do_lookup(): leak() the reference and return the Entry.  LOOKUP replies with
\* it; CREATE goes on to open the file, or to use the one it created.
LookupDone(t) ==
    /\ pc[t] = "entry"
    /\ \/ /\ op[t] = "LOOKUP"
          /\ Finish(t)
          /\ guest' = [guest EXCEPT ![node[t]] = @ + 1]
          /\ UNCHANGED opened
       \/ /\ op[t] = "CREATE"
          /\ pc' = [pc EXCEPT ![t] = IF fd[t] = NoFile THEN "open" ELSE "alloc"]
          /\ UNCHANGED <<guestVars, op, name, fd, path, slot, node, harc>>
    /\ UNCHANGED <<storeVars, handleVars, hostVars, available, lost>>

\* do_lookup(): the attributes cannot be represented; the reference is dropped.
EntryError(t) ==
    LET n == node[t]
    IN  /\ pc[t] = "entry"
        /\ refcount' = [refcount EXCEPT ![n] = @ - 1]
        /\ data' = IF refcount[n] = 1 THEN data \ {n} ELSE data
        /\ available' = available
             + (IF /\ refcount[n] = 1 /\ file[n] \notin HasHandle
                   /\ \A u \in Threads \ {t} : ~HasArc(u, n)
                  THEN 1 ELSE 0)
        /\ Finish(t)
        /\ UNCHANGED <<file, next_inode, handleVars, hostVars, guestVars, lost>>

-----------------------------------------------------------------------------
(* OPEN, and CREATE of a file that exists.                                 *)

\* do_open(): inodes.get(), open_inode() and what may fail after it.
OpenInode(t) ==
    /\ pc[t] = "open"
    /\ \/ /\ node[t] \in data
          /\ fd' = [fd EXCEPT ![t] = file[node[t]]]
          /\ pc' = [pc EXCEPT ![t] = "alloc"]
          /\ UNCHANGED <<storeVars, handleVars, hostVars, guestVars, op, name,
                         path, slot, node, harc, available, lost>>
       \/ Fail(t)

\* Mutant: the number is not taken, as in a load without the add.
DrawHandleTwice(t) == UNCHANGED next_handle

\* next_handle.fetch_add(1).
DrawHandle(t) == next_handle' = next_handle + 1

\* Draw a handle, then count the descriptor: ENFILE at the limit closes it.
AllocHandle(t) ==
    /\ pc[t] = "alloc"
    /\ DrawHandle(t)
    /\ \/ /\ Allocate(t, fd[t])
          /\ hinode' = [hinode EXCEPT ![next_handle] = node[t]]
          /\ hfile' = [hfile EXCEPT ![next_handle] = fd[t]]
          /\ harc' = [harc EXCEPT ![t] = next_handle]
          /\ fd' = [fd EXCEPT ![t] = NoFile]
          /\ pc' = [pc EXCEPT ![t] = "publish"]
          /\ UNCHANGED <<op, name, path, slot, node>>
       \/ /\ available = 0
          /\ Finish(t)
          /\ available' = available + Released(t)
          /\ UNCHANGED <<hinode, hfile>>
    /\ UNCHANGED <<storeVars, handles, hostVars, guestVars, lost>>

\* handles.insert() and the reply; CREATE's also hands over the lookup.
InsertHandle(t) ==
    /\ pc[t] = "publish"
    /\ handles' = handles \cup {harc[t]}
    /\ opened' = opened \cup {harc[t]}
    /\ guest' = IF op[t] = "CREATE" THEN [guest EXCEPT ![node[t]] = @ + 1]
                                    ELSE guest
    /\ available' = available + InodeSlot(t)
    /\ Finish(t)
    /\ UNCHANGED <<storeVars, hinode, hfile, next_handle, hostVars, lost>>

-----------------------------------------------------------------------------
(* CREATE.                                                                 *)

\* do_create(): O_CREAT | O_EXCL.  A new file is open when it returns, and gets
\* a security context if the guest sent one.  Or the name exists: look it up
\* instead, unless the guest said O_EXCL.  Any other error ends the request.
DoCreate(t, f) ==
    LET nm == name[t]
    IN  /\ pc[t] = "create"
        /\ \/ /\ dir[nm] = NoFile /\ f \notin born
              /\ dir' = [dir EXCEPT ![nm] = f]
              /\ born' = born \cup {f}
              /\ fd' = [fd EXCEPT ![t] = f]
              /\ \E step \in {"secctx", "lookup"} : pc' = [pc EXCEPT ![t] = step]
              /\ UNCHANGED <<storeVars, handleVars, guestVars, op, name, path,
                             slot, node, harc, available, lost>>
           \/ /\ dir[nm] # NoFile
              /\ pc' = [pc EXCEPT ![t] = "lookup"]
              /\ UNCHANGED <<storeVars, handleVars, hostVars, guestVars, op, name,
                             fd, path, slot, node, harc, available, lost>>
           \/ Fail(t)

\* do_create(): the security context is set, or an error removes the name again,
\* whatever it refers to by then and as far as the host lets it.  The raw
\* descriptor is not closed on that path: it is nobody's.
SetSecctx(t) ==
    /\ pc[t] = "secctx"
    /\ \/ /\ pc' = [pc EXCEPT ![t] = "lookup"]
          /\ UNCHANGED <<dir, op, name, fd, path, slot, node, harc, lost>>
       \/ /\ \/ dir' = [dir EXCEPT ![name[t]] = NoFile]
             \/ UNCHANGED dir
          /\ lost' = lost + 1
          /\ Finish(t)
    /\ UNCHANGED <<born, storeVars, handleVars, guestVars, available>>

-----------------------------------------------------------------------------
(* READ, WRITE, RELEASE, FORGET, DESTROY.                                  *)

\* find_handle(): clone the Arc, or EBADF.
FindHandle(t, h) ==
    /\ pc[t] = "idle"
    /\ h \in opened
    /\ h \in handles
    /\ harc' = [harc EXCEPT ![t] = h]
    /\ pc' = [pc EXCEPT ![t] = "io"]
    /\ UNCHANGED <<storeVars, handleVars, hostVars, guestVars, op, name, fd, path,
                   slot, node, available, lost>>

\* The read or write is done.
IoDone(t) ==
    /\ pc[t] = "io"
    /\ Fail(t)

\* do_release(): the entry goes; the file is closed with the last Arc.
Release(h) ==
    /\ h \in opened
    /\ opened' = opened \ {h}
    /\ handles' = handles \ {h}
    /\ available' = available
         + (IF h \in handles /\ \A t \in Threads : harc[t] # h THEN 1 ELSE 0)
    /\ UNCHANGED <<storeVars, hinode, hfile, next_handle, hostVars, guest,
                   threadVars, lost>>

\* forget(): at zero the inode leaves the store.
Forget(n, c) ==
    /\ c \in 1..guest[n]
    /\ guest' = [guest EXCEPT ![n] = @ - c]
    /\ refcount' = [refcount EXCEPT ![n] = @ - c]
    /\ data' = IF refcount[n] = c THEN data \ {n} ELSE data
    /\ available' = available
         + (IF /\ refcount[n] = c /\ file[n] \notin HasHandle
               /\ \A t \in Threads : ~HasArc(t, n)
              THEN 1 ELSE 0)
    /\ UNCHANGED <<file, next_inode, handleVars, hostVars, opened, threadVars, lost>>

\* destroy(): both maps are cleared; no request is outstanding.
Destroy ==
    /\ \A t \in Threads : pc[t] = "idle"
    /\ available' = available + Cardinality(handles)
                      + Cardinality({n \in data : file[n] \notin HasHandle})
    /\ handles' = {}
    /\ data' = {}
    /\ refcount' = [n \in Inodes |-> 0]
    /\ guest' = [n \in Inodes |-> 0]
    /\ opened' = {}
    /\ UNCHANGED <<file, next_inode, hinode, hfile, next_handle, hostVars,
                   threadVars, lost>>

-----------------------------------------------------------------------------
(* Requests and the host.                                                  *)

Request(t, o, nm, n, step) ==
    /\ pc[t] = "idle"
    /\ op' = [op EXCEPT ![t] = o]
    /\ name' = [name EXCEPT ![t] = nm]
    /\ node' = [node EXCEPT ![t] = n]
    /\ pc' = [pc EXCEPT ![t] = step]
    /\ UNCHANGED <<storeVars, handleVars, hostVars, guestVars, fd, path, slot,
                   harc, available, lost>>

\* Bounds: a request that may draw an ID starts only if there is one for it.
MayLookup ==
    /\ \A n \in Inodes : refcount[n] < MaxRefs
    /\ next_inode + Cardinality({t \in Threads : pc[t] # "idle"}) <= MaxInode
MayOpen == next_handle + Cardinality({t \in Threads : pc[t] # "idle"}) <= MaxHandle

Lookup(t, nm) ==
    /\ MayLookup
    /\ Request(t, "LOOKUP", nm, None, "lookup")

Create(t, nm) ==
    /\ MayLookup /\ MayOpen
    /\ Request(t, "CREATE", nm, None, "create")

Open(t, n) ==
    /\ guest[n] > 0 /\ MayOpen
    /\ Request(t, "OPEN", name[t], n, "open")

\* Another process replaces what a name refers to, or removes the name.
HostReplace(nm, f) ==
    /\ f \notin born
    /\ dir' = [dir EXCEPT ![nm] = f]
    /\ born' = born \cup {f}
    /\ UNCHANGED <<storeVars, handleVars, guestVars, threadVars, available, lost>>

HostRemove(nm) ==
    /\ dir[nm] # NoFile
    /\ dir' = [dir EXCEPT ![nm] = NoFile]
    /\ UNCHANGED <<born, storeVars, handleVars, guestVars, threadVars, available,
                   lost>>

-----------------------------------------------------------------------------
Init ==
    /\ dir = [nm \in Names |-> NoFile]
    /\ born = {}
    /\ data = {}
    /\ file = [n \in Inodes |-> NoFile]
    /\ refcount = [n \in Inodes |-> 0]
    /\ handles = {}
    /\ hinode = [h \in HandleIds |-> None]
    /\ hfile = [h \in HandleIds |-> NoFile]
    /\ available = Limit
    /\ lost = 0
    /\ next_inode = 1
    /\ next_handle = 1
    /\ guest = [n \in Inodes |-> 0]
    /\ opened = {}
    /\ pc = [t \in Threads |-> "idle"]
    /\ op = [t \in Threads |-> "none"]
    /\ name \in [Threads -> Names]
    /\ fd = [t \in Threads |-> NoFile]
    /\ path = [t \in Threads |-> NoFile]
    /\ slot = [t \in Threads |-> FALSE]
    /\ node = [t \in Threads |-> None]
    /\ harc = [t \in Threads |-> None]

ThreadStep(t) ==
    \/ \E nm \in Names : Lookup(t, nm) \/ Create(t, nm)
    \/ \E n \in Inodes : Open(t, n)
    \/ \E h \in HandleIds : FindHandle(t, h)
    \/ \E f \in Files : DoCreate(t, f)
    \/ SetSecctx(t)
    \/ OpenPath(t)
    \/ Claim(t)
    \/ NewInode(t)
    \/ InfoError(t)
    \/ GetOrInsert(t)
    \/ LookupDone(t)
    \/ EntryError(t)
    \/ OpenInode(t)
    \/ AllocHandle(t)
    \/ InsertHandle(t)
    \/ IoDone(t)

Next ==
    \/ \E t \in Threads : ThreadStep(t)
    \/ \E h \in HandleIds : Release(h)
    \/ \E n \in Inodes : \E c \in 1..guest[n] : Forget(n, c)
    \/ Destroy
    \/ \E nm \in Names : HostRemove(nm) \/ \E f \in Files : HostReplace(nm, f)

Spec == Init /\ [][Next]_vars

-----------------------------------------------------------------------------
(* Properties.                                                             *)

Steps == {"idle", "lookup", "claim", "new", "insert", "entry", "open", "alloc",
          "publish", "create", "secctx", "io"}

\* The type invariant; available within the limit is the debug_assert of
\* GuestFdSemaphore::release(), and that allocate() never goes below zero.
TypeOK ==
    /\ dir \in [Names -> Files \cup {NoFile}]
    /\ born \subseteq Files
    /\ data \subseteq Inodes
    /\ file \in [Inodes -> Files \cup {NoFile}]
    /\ refcount \in [Inodes -> Nat]
    /\ handles \subseteq HandleIds
    /\ hinode \in [HandleIds -> Inodes \cup {None}]
    /\ hfile \in [HandleIds -> Files \cup {NoFile}]
    /\ available \in 0..Limit
    /\ lost \in Nat
    /\ next_inode \in 1..(MaxInode + 1)
    /\ next_handle \in 1..(MaxHandle + 1)
    /\ guest \in [Inodes -> Nat]
    /\ opened \subseteq HandleIds
    /\ pc \in [Threads -> Steps]
    /\ op \in [Threads -> {"none", "LOOKUP", "OPEN", "CREATE"}]
    /\ name \in [Threads -> Names]
    /\ fd \in [Threads -> Files \cup {NoFile}]
    /\ path \in [Threads -> Files \cup {NoFile}]
    /\ slot \in [Threads -> BOOLEAN]
    /\ node \in [Threads -> Inodes \cup {None}]
    /\ harc \in [Threads -> HandleIds \cup {None}]

\* InodeData and HandleData that still exist and own a GuestFile.
OpenInodes == {n \in Inodes : /\ file[n] \notin HasHandle
                             /\ (n \in data \/ \E t \in Threads : HasArc(t, n))}
OpenHandles == handles \cup ({harc[t] : t \in Threads} \ {None})

\* Every slot is either available or owned by exactly one open descriptor, on
\* every error path and however dropping the last Arc races with FORGET,
\* RELEASE and get_or_insert(): no slot is lost or given back twice.
SlotAccounting ==
    available + Cardinality(OpenInodes) + Cardinality(OpenHandles)
      + Cardinality({t \in Threads : slot[t]}) = Limit

\* A handle the guest has not RELEASEd keeps resolving to the file it was
\* opened for: no other open ever overwrites its entry in the table.
HandleStable ==
    [][\A h \in opened \cap opened' :
          h \in handles' /\ hinode'[h] = hinode[h] /\ hfile'[h] = hfile[h]]_vars

Idle == \A t \in Threads : pc[t] = "idle"

\* The comment where do_lookup() leaks its reference: the guest "is expected to
\* explicitly release its reference" by FORGET, so between requests the count
\* of an inode is what the guest was told about.
LeaksBelongToGuest ==
    Idle => \A n \in data : refcount[n] = guest[n]

\* The comment on INTERNAL_FD_RESERVE: a descriptor is uncounted only between
\* its creation and its allocate(), so none is left between requests.
UncountedInFlightOnly == Idle => lost = 0
=============================================================================
