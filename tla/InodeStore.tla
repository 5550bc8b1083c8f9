----------------------------- MODULE InodeStore -----------------------------
(***************************************************************************)
(* The inode store of the passthrough file system (inode_store.rs) and the *)
(* request handlers of passthrough/mod.rs that read and change it.         *)
(*                                                                         *)
(* Many worker threads serve FUSE requests at once.  The store's maps are  *)
(* behind one RwLock; the reference count of an inode is an atomic inside  *)
(* its Arc<InodeData>, and a thread that already owns the Arc increments   *)
(* it without any lock.  A LOOKUP takes the lock twice, first to claim an  *)
(* existing inode and then, if there is none, to insert a new one; between *)
(* the two anything can happen.  A step below is one critical section, or  *)
(* one atomic operation outside of the lock.                               *)
(*                                                                         *)
(* The host is part of the model: files appear and disappear at any time,  *)
(* and the inode number of a deleted file is given to a new one unless a   *)
(* file descriptor still pins it.                                          *)
(***************************************************************************)
EXTENDS Integers, FiniteSets

CONSTANTS
    Files,          \* physical host files, generation included
    RootFile,       \* the shared directory
    NoFile,         \* no open file
    Ids,            \* InodeIds: (st_ino, st_dev, mnt_id)
    IdsOf,          \* the InodeIds of a file
    HasHandle,      \* whether the file's file system yields file handles
    Deletable,      \* bound: files the host deletes
    Gone,           \* choices of the files that were gone before the start
    Threads,        \* threads that handle requests
    MaxInode,       \* bound: largest FUSE inode ID
    MaxGuestRefs    \* bound: lookups the guest may hold of an inode

ASSUME FilesAssumption ==
    /\ RootFile \in Files
    /\ NoFile \notin Files
    /\ IdsOf \in [Files -> Ids]
    /\ HasHandle \in [Files -> BOOLEAN]
    /\ Deletable \subseteq Files \ {RootFile}
    /\ Gone \subseteq SUBSET Files

\* get_file_handle_opt(): whether there is a handle is decided by the file
\* system (EOPNOTSUPP) and the configuration, so equal (ino, dev, mnt_id)
\* implies an equal answer.
ASSUME HandleAssumption ==
    \A f, g \in Files : IdsOf[f] = IdsOf[g] => HasHandle[f] = HasHandle[g]

ASSUME BoundAssumption ==
    /\ MaxInode \in Nat \ {0}
    /\ MaxGuestRefs \in Nat \ {0}
    /\ IsFiniteSet(Threads)

VARIABLES
    data,       \* keys of InodeStoreInner::data
    by_ids,     \* InodeStoreInner::by_ids
    by_handle,  \* InodeStoreInner::by_handle
    file,       \* the host file an InodeData was made for
    refcount,   \* InodeData::refcount
    parentRef,  \* strong reference inside InodeData::migration_info
    todo,       \* forget_one() calls left in the current write-locked section
    next_inode, \* PassthroughFs::next_inode
    track,      \* PassthroughFs::track_migration_info
    guest,      \* references the guest owns, and must FORGET
    linked,     \* host files with a name
    born,       \* host files that exist or existed
    pc,         \* where each thread is
    path,       \* the O_PATH file a thread has open
    arc,        \* the Arc<InodeData> a thread got from InodeStore::get()
    strong,     \* the StrongInodeReference a thread owns
    parent,     \* the parent's StrongInodeReference a thread owns
    newid       \* FUSE inode ID drawn for the InodeData being built

storeVars == <<data, by_ids, by_handle, file, refcount, parentRef, todo>>
hostVars == <<linked, born>>
threadVars == <<pc, path, arc, strong, parent, newid>>
vars == <<storeVars, hostVars, threadVars, next_inode, track, guest>>

ROOT_ID == 1
Inodes == 1..MaxInode

\* Mutant: the root's own ID is handed out.
FirstInodeIsRoot == ROOT_ID

\* The initial value of PassthroughFs::next_inode.
FirstInode == ROOT_ID + 1

\* Absence of an inode (Option::None); FUSE never uses inode ID 0.
NoInode == 0
InodeOpt == 0..MaxInode

\* Number of keys of f that hold the value n.
Count(f, n) == Cardinality({x \in DOMAIN f : f[x] = n})

-----------------------------------------------------------------------------
(* The store itself.                                                       *)

\* Nobody is inside a write-locked section.
Unlocked == \A n \in Inodes : todo[n] = 0

\* FileOrHandle::File: the inode owns an open file descriptor.
IsFile(n) == ~HasHandle[file[n]]

\* Mutant: an inode without a descriptor is matched by its IDs.
ClaimedUnfiltered(f) ==
    IF HasHandle[f] /\ by_handle[f] # NoInode
      THEN by_handle[f] ELSE by_ids[IdsOf[f]]

\* do_claim_inode(): the inode that matches a file, by handle if it has one,
\* otherwise by its IDs, and then only if the inode holds a descriptor.
Claimed(f) ==
    IF HasHandle[f] /\ by_handle[f] # NoInode
      THEN by_handle[f]
      ELSE IF by_ids[IdsOf[f]] # NoInode /\ IsFile(by_ids[IdsOf[f]])
             THEN by_ids[IdsOf[f]]
             ELSE NoInode

\* There is an inode whose count increment_refcount_for() accepts.
Alive(n) == n # NoInode /\ refcount[n] > 0

\* Mutant: an inode that is being removed is revived.
IncrementAny(n) ==
    /\ n # NoInode
    /\ refcount' = [refcount EXCEPT ![n] = @ + 1]

\* increment_refcount_for(): never from zero.
Increment(n) ==
    /\ Alive(n)
    /\ refcount' = [refcount EXCEPT ![n] = @ + 1]

\* insert_new(): the indices are overwritten, whatever they held.
InsertNew(n, f, rc, p) ==
    /\ data' = data \cup {n}
    /\ by_ids' = [by_ids EXCEPT ![IdsOf[f]] = n]
    /\ by_handle' = IF HasHandle[f] THEN [by_handle EXCEPT ![f] = n]
                                    ELSE by_handle
    /\ file' = [file EXCEPT ![n] = f]
    /\ refcount' = [refcount EXCEPT ![n] = rc]
    /\ parentRef' = [parentRef EXCEPT ![n] = p]
    /\ UNCHANGED todo

\* Mutant: the entry in by_handle is left behind.
RemoveKeepsHandle(n) ==
    /\ data' = data \ {n}
    /\ by_handle' = by_handle
    /\ by_ids' = [by_ids EXCEPT ![IdsOf[file[n]]] = NoInode]
    /\ parentRef' = [parentRef EXCEPT ![n] = NoInode]
    /\ todo' = [m \in Inodes |->
                  (IF m = n THEN 0 ELSE todo[m])
                    + (IF m = parentRef[n] THEN 1 ELSE 0)]

\* Mutant: the reference to the parent is not given back.
RemoveLeaksParent(n) ==
    /\ data' = data \ {n}
    /\ by_handle' = IF IsFile(n) THEN by_handle
                    ELSE [by_handle EXCEPT ![file[n]] = NoInode]
    /\ by_ids' = [by_ids EXCEPT ![IdsOf[file[n]]] = NoInode]
    /\ parentRef' = [parentRef EXCEPT ![n] = NoInode]
    /\ todo' = [todo EXCEPT ![n] = 0]

\* remove(): both index entries go, and the strong reference to the parent in
\* the migration info is dropped under the same lock: one more forget_one().
Remove(n) ==
    /\ data' = data \ {n}
    /\ by_handle' = IF IsFile(n) THEN by_handle
                    ELSE [by_handle EXCEPT ![file[n]] = NoInode]
    /\ by_ids' = [by_ids EXCEPT ![IdsOf[file[n]]] = NoInode]
    /\ parentRef' = [parentRef EXCEPT ![n] = NoInode]
    /\ todo' = [m \in Inodes |->
                  (IF m = n THEN 0 ELSE todo[m])
                    + (IF m = parentRef[n] THEN 1 ELSE 0)]

\* forget_one(n, todo[n]), inside a write-locked section.
ForgetOne(n) ==
    LET left == IF refcount[n] > todo[n] THEN refcount[n] - todo[n] ELSE 0
    IN  /\ todo[n] > 0
        /\ IF n \notin data
             THEN /\ todo' = [todo EXCEPT ![n] = 0]
                  /\ UNCHANGED <<data, by_ids, by_handle, parentRef, refcount>>
             ELSE /\ refcount' = [refcount EXCEPT ![n] = left]
                  /\ IF left = 0
                       THEN Remove(n)
                       ELSE /\ todo' = [todo EXCEPT ![n] = 0]
                            /\ UNCHANGED <<data, by_ids, by_handle, parentRef>>
        /\ UNCHANGED <<file, hostVars, threadVars, next_inode, track, guest>>

-----------------------------------------------------------------------------
(* Threads.                                                                *)

\* A thread returns to the pool: its local files and Arcs are closed.
Finish(t) ==
    /\ pc' = [pc EXCEPT ![t] = "idle"]
    /\ path' = [path EXCEPT ![t] = NoFile]
    /\ arc' = [arc EXCEPT ![t] = NoInode]
    /\ newid' = [newid EXCEPT ![t] = NoInode]

\* InodeStore::get(parent), then open a name in it: whatever file is there now.
\* The guest names a directory it holds a reference to; no directory contains
\* itself or the shared directory.
OpenName(t, p, f, step) ==
    /\ pc[t] = "idle"
    /\ Unlocked
    /\ p \in data /\ guest[p] > 0
    /\ f \in linked \ {RootFile, file[p]}
    /\ pc' = [pc EXCEPT ![t] = step]
    /\ arc' = [arc EXCEPT ![t] = p]
    /\ path' = [path EXCEPT ![t] = f]
    /\ UNCHANGED <<storeVars, hostVars, strong, parent, newid, next_inode,
                   track, guest>>

\* do_lookup() up to try_lookup_implementation()'s statx().
Lookup(t, p, f) ==
    /\ \A n \in Inodes \ {ROOT_ID} : guest[n] < MaxGuestRefs
    /\ OpenName(t, p, f, "lookup")

\* before_invalidating_path() and update_inode_migration_info() look the name
\* up as well, but never insert.
TryLookup(t, p, f) == OpenName(t, p, f, "try_lookup")

\* claim_inode(), under the read lock.
ClaimInode(t) ==
    LET n == Claimed(path[t])
    IN  /\ pc[t] \in {"lookup", "try_lookup"}
        /\ Unlocked
        /\ \/ /\ Increment(n)
              /\ strong' = [strong EXCEPT ![t] = n]
              /\ pc' = [pc EXCEPT ![t] = IF @ = "lookup" THEN "attr" ELSE "hold"]
              /\ UNCHANGED <<path, arc, newid>>
           \/ /\ ~Alive(n)
              /\ IF pc[t] = "lookup"
                   THEN /\ pc' = [pc EXCEPT ![t] = "build"]
                        /\ UNCHANGED <<path, arc, newid>>
                   ELSE Finish(t)
              /\ UNCHANGED <<refcount, strong>>
        /\ UNCHANGED <<data, by_ids, by_handle, file, parentRef, todo, hostVars,
                       parent, next_inode, track, guest>>

\* do_lookup(): make the file handle openable or keep the descriptor, either of
\* which may fail, and while preparing for migration take a reference to the
\* parent, without the lock.
BuildInode(t) ==
    /\ pc[t] = "build"
    /\ \/ Finish(t) /\ UNCHANGED <<refcount, parent>>
       \/ /\ ~track
          /\ pc' = [pc EXCEPT ![t] = "info"]
          /\ UNCHANGED <<refcount, parent, path, arc, newid>>
       \/ /\ track
          /\ Increment(arc[t])
          /\ parent' = [parent EXCEPT ![t] = arc[t]]
          /\ pc' = [pc EXCEPT ![t] = "info"]
          /\ UNCHANGED <<path, arc, newid>>
    /\ UNCHANGED <<data, by_ids, by_handle, file, parentRef, todo, hostVars,
                   strong, next_inode, track, guest>>

\* InodeMigrationInfo::new() may fail, which drops the parent's reference;
\* otherwise the new InodeData draws its ID.
DrawId(t) ==
    /\ pc[t] = "info"
    /\ \/ /\ parent[t] # NoInode
          /\ pc' = [pc EXCEPT ![t] = "drop"]
          /\ UNCHANGED <<newid, next_inode>>
       \/ /\ next_inode <= MaxInode
          /\ newid' = [newid EXCEPT ![t] = next_inode]
          /\ next_inode' = next_inode + 1
          /\ pc' = [pc EXCEPT ![t] = "insert"]
    /\ UNCHANGED <<storeVars, hostVars, path, arc, strong, parent, track, guest>>

\* Mutant: insert without looking again.
InsertBlindly(t) ==
    /\ pc[t] = "insert"
    /\ Unlocked
    /\ InsertNew(newid[t], path[t], 1, parent[t])
    /\ strong' = [strong EXCEPT ![t] = newid[t]]
    /\ parent' = [parent EXCEPT ![t] = NoInode]
    /\ pc' = [pc EXCEPT ![t] = "attr"]
    /\ UNCHANGED <<hostVars, path, arc, newid, next_inode, track, guest>>

\* get_or_insert(), under the write lock: somebody may have inserted the same
\* file since claim_inode(); then the InodeData just built is dropped, and the
\* reference to the parent with it.
GetOrInsert(t) ==
    LET n == Claimed(path[t])
    IN  /\ pc[t] = "insert"
        /\ Unlocked
        /\ \/ /\ Increment(n)
              /\ strong' = [strong EXCEPT ![t] = n]
              /\ pc' = [pc EXCEPT ![t] = "attr"]
              /\ UNCHANGED <<data, by_ids, by_handle, file, parentRef, todo,
                             parent>>
           \/ /\ ~Alive(n)
              /\ newid[t] \in data
              /\ pc' = [pc EXCEPT ![t] = "drop"]
              /\ UNCHANGED <<storeVars, strong, parent>>
           \/ /\ ~Alive(n)
              /\ newid[t] \notin data
              /\ InsertNew(newid[t], path[t], 1, parent[t])
              /\ strong' = [strong EXCEPT ![t] = newid[t]]
              /\ parent' = [parent EXCEPT ![t] = NoInode]
              /\ pc' = [pc EXCEPT ![t] = "attr"]
        /\ UNCHANGED <<hostVars, path, arc, newid, next_inode, track, guest>>

\* do_lookup(): the attributes cannot be represented (ID mapping); the strong
\* reference is dropped.
AttrError(t) ==
    /\ pc[t] = "attr"
    /\ pc' = [pc EXCEPT ![t] = "drop"]
    /\ UNCHANGED <<storeVars, hostVars, path, arc, strong, parent, newid,
                   next_inode, track, guest>>

\* do_lookup(): leak() the reference, which the guest owns from now on.
ReplyEntry(t) ==
    /\ pc[t] = "attr"
    /\ parent[t] = NoInode
    /\ guest' = [guest EXCEPT ![strong[t]] = @ + 1]
    /\ strong' = [strong EXCEPT ![t] = NoInode]
    /\ Finish(t)
    /\ UNCHANGED <<storeVars, hostVars, parent, next_inode, track>>

\* The caller is done with the inode it looked up.
ReleaseRef(t) ==
    /\ pc[t] = "hold"
    /\ pc' = [pc EXCEPT ![t] = "drop"]
    /\ UNCHANGED <<storeVars, hostVars, path, arc, strong, parent, newid,
                   next_inode, track, guest>>

\* after_invalidating_path(): take the migration info, whose reference to the
\* parent the thread owns until it returns.
TakeInfo(t) ==
    /\ pc[t] = "hold"
    /\ parent' = [parent EXCEPT ![t] = parentRef[strong[t]]]
    /\ parentRef' = [parentRef EXCEPT ![strong[t]] = NoInode]
    /\ pc' = [pc EXCEPT ![t] = "drop"]
    /\ UNCHANGED <<data, by_ids, by_handle, file, refcount, todo, hostVars, path,
                   arc, strong, newid, next_inode, track, guest>>

\* update_inode_migration_info(), and the constructors that set the path of an
\* inode: take a reference to the directory the thread has at hand ...
TakeParent(t) ==
    /\ pc[t] = "hold"
    /\ track
    /\ \/ /\ Increment(arc[t])
          /\ parent' = [parent EXCEPT ![t] = arc[t]]
          /\ pc' = [pc EXCEPT ![t] = "set_info"]
       \/ /\ ~Alive(arc[t])
          /\ pc' = [pc EXCEPT ![t] = "drop"]
          /\ UNCHANGED <<refcount, parent>>
    /\ UNCHANGED <<data, by_ids, by_handle, file, parentRef, todo, hostVars,
                   path, arc, strong, newid, next_inode, track, guest>>

\* ... and move it into the inode's migration info, dropping what was there.
SetInfo(t) ==
    /\ pc[t] = "set_info"
    /\ Unlocked
    /\ todo' = [m \in Inodes |-> IF m = parentRef[strong[t]] THEN 1 ELSE 0]
    /\ parentRef' = [parentRef EXCEPT ![strong[t]] = parent[t]]
    /\ parent' = [parent EXCEPT ![t] = NoInode]
    /\ pc' = [pc EXCEPT ![t] = "drop"]
    /\ UNCHANGED <<data, by_ids, by_handle, file, refcount, hostVars, path, arc,
                   strong, newid, next_inode, track, guest>>

\* Drop for StrongInodeReference: lock the store and forget_one(n, 1).
DropRef(n) ==
    /\ Unlocked
    /\ todo' = [todo EXCEPT ![n] = 1]
    /\ UNCHANGED <<data, by_ids, by_handle, file, refcount, parentRef, hostVars,
                   next_inode, track, guest>>

DropParent(t) ==
    /\ pc[t] \in {"attr", "drop"}
    /\ parent[t] # NoInode
    /\ DropRef(parent[t])
    /\ parent' = [parent EXCEPT ![t] = NoInode]
    /\ UNCHANGED <<pc, path, arc, strong, newid>>

DropStrong(t) ==
    /\ pc[t] = "drop"
    /\ parent[t] = NoInode
    /\ strong[t] # NoInode
    /\ DropRef(strong[t])
    /\ strong' = [strong EXCEPT ![t] = NoInode]
    /\ UNCHANGED <<pc, path, arc, parent, newid>>

Return(t) ==
    /\ pc[t] = "drop"
    /\ parent[t] = NoInode /\ strong[t] = NoInode
    /\ Finish(t)
    /\ UNCHANGED <<storeVars, hostVars, strong, parent, next_inode, track, guest>>

-----------------------------------------------------------------------------
(* The guest's FORGETs, the migration, INIT and DESTROY.                   *)

\* forget(): the guest gives back c of its references.
Forget(n, c) ==
    /\ Unlocked
    /\ n # ROOT_ID
    /\ c <= guest[n]
    /\ guest' = [guest EXCEPT ![n] = @ - c]
    /\ todo' = [todo EXCEPT ![n] = c]
    /\ UNCHANGED <<data, by_ids, by_handle, file, refcount, parentRef, hostVars,
                   threadVars, next_inode, track>>

\* batch_forget(): forget_many() keeps the store locked throughout.
BatchForget(S) ==
    /\ Unlocked
    /\ ROOT_ID \notin S
    /\ guest' = [n \in Inodes |-> IF n \in S THEN 0 ELSE guest[n]]
    /\ todo' = [n \in Inodes |-> IF n \in S THEN guest[n] ELSE 0]
    /\ UNCHANGED <<data, by_ids, by_handle, file, refcount, parentRef, hostVars,
                   threadVars, next_inode, track>>

\* clear_migration_info(): take every inode's info except the root's, then drop
\* the references.
ClearMigrationInfo ==
    /\ Unlocked
    /\ todo' = [n \in Inodes |->
                  Cardinality({m \in Inodes \ {ROOT_ID} : parentRef[m] = n})]
    /\ parentRef' = [n \in Inodes |-> IF n = ROOT_ID THEN parentRef[n] ELSE NoInode]
    /\ UNCHANGED <<data, by_ids, by_handle, file, refcount, hostVars, threadVars,
                   next_inode, guest>>

\* prepare_serialization(), before the constructors run.
PrepareSerialization ==
    /\ ClearMigrationInfo
    /\ track' = TRUE

\* serialize() stops the tracking and clears the info again.
Serialize ==
    /\ track
    /\ ClearMigrationInfo
    /\ track' = FALSE

\* destroy(): the guest has no request outstanding.
Destroy ==
    /\ Unlocked
    /\ \A t \in Threads : pc[t] = "idle"
    /\ ROOT_ID \in data
    /\ data' = {}
    /\ by_ids' = [i \in Ids |-> NoInode]
    /\ by_handle' = [f \in Files |-> NoInode]
    /\ refcount' = [n \in Inodes |-> 0]
    /\ parentRef' = [n \in Inodes |-> NoInode]
    /\ guest' = [n \in Inodes |-> 0]
    /\ UNCHANGED <<file, todo, hostVars, threadVars, next_inode, track>>

\* init(): wipe the store if there was no DESTROY, then open_root_node(), whose
\* two references belong to the guest.
InitFs ==
    /\ Unlocked
    /\ \A t \in Threads : pc[t] = "idle"
    /\ data' = {ROOT_ID}
    /\ by_ids' = [i \in Ids |-> IF i = IdsOf[RootFile] THEN ROOT_ID ELSE NoInode]
    /\ by_handle' = [f \in Files |->
                       IF f = RootFile /\ HasHandle[f] THEN ROOT_ID ELSE NoInode]
    /\ file' = [file EXCEPT ![ROOT_ID] = RootFile]
    /\ refcount' = [n \in Inodes |-> IF n = ROOT_ID THEN 2 ELSE 0]
    /\ parentRef' = [n \in Inodes |-> NoInode]
    /\ guest' = [n \in Inodes |-> IF n = ROOT_ID THEN 2 ELSE 0]
    /\ UNCHANGED <<todo, hostVars, threadVars, next_inode, track>>

-----------------------------------------------------------------------------
(* The host.                                                               *)

\* Mutant: an inode does not keep its descriptor open.
PinnedByThreads(f) == \E t \in Threads : path[t] = f

\* A file descriptor of the daemon keeps the file's inode number in use.
Pinned(f) ==
    \/ \E t \in Threads : path[t] = f
    \/ /\ ~HasHandle[f]
       /\ \E n \in Inodes : /\ file[n] = f
                           /\ (n \in data \/ \E t \in Threads : arc[t] = n)

\* A new file takes an inode number nobody uses.
HostCreate(f) ==
    /\ f \notin born
    /\ \A g \in Files \ {f} :
          IdsOf[g] = IdsOf[f] => g \notin linked /\ ~Pinned(g)
    /\ born' = born \cup {f}
    /\ linked' = linked \cup {f}
    /\ UNCHANGED <<storeVars, threadVars, next_inode, track, guest>>

HostUnlink(f) ==
    /\ f \in linked \cap Deletable
    /\ linked' = linked \ {f}
    /\ UNCHANGED <<born, storeVars, threadVars, next_inode, track, guest>>

-----------------------------------------------------------------------------
Init ==
    /\ data = {}
    /\ by_ids = [i \in Ids |-> NoInode]
    /\ by_handle = [f \in Files |-> NoInode]
    /\ file = [n \in Inodes |-> RootFile]
    /\ refcount = [n \in Inodes |-> 0]
    /\ parentRef = [n \in Inodes |-> NoInode]
    /\ todo = [n \in Inodes |-> 0]
    /\ next_inode = FirstInode
    /\ track = FALSE
    /\ guest = [n \in Inodes |-> 0]
    /\ linked = {RootFile}
    /\ \E gone \in Gone : born = {RootFile} \cup gone
    /\ pc = [t \in Threads |-> "idle"]
    /\ path = [t \in Threads |-> NoFile]
    /\ arc = [t \in Threads |-> NoInode]
    /\ strong = [t \in Threads |-> NoInode]
    /\ parent = [t \in Threads |-> NoInode]
    /\ newid = [t \in Threads |-> NoInode]

ThreadStep(t) ==
    \/ \E p \in Inodes, f \in Files : Lookup(t, p, f) \/ TryLookup(t, p, f)
    \/ ClaimInode(t)
    \/ BuildInode(t)
    \/ DrawId(t)
    \/ GetOrInsert(t)
    \/ AttrError(t)
    \/ ReplyEntry(t)
    \/ ReleaseRef(t)
    \/ TakeInfo(t)
    \/ TakeParent(t)
    \/ SetInfo(t)
    \/ DropParent(t)
    \/ DropStrong(t)
    \/ Return(t)

Next ==
    \/ \E t \in Threads : ThreadStep(t)
    \/ \E n \in Inodes : ForgetOne(n)
    \/ \E n \in Inodes : \E c \in 1..guest[n] : Forget(n, c)
    \/ \E S \in SUBSET Inodes : BatchForget(S)
    \/ PrepareSerialization
    \/ Serialize
    \/ Destroy
    \/ InitFs
    \/ \E f \in Files : HostCreate(f) \/ HostUnlink(f)

Spec == Init /\ [][Next]_vars

-----------------------------------------------------------------------------
(* Properties.                                                             *)

Steps == {"idle", "lookup", "try_lookup", "build", "info", "insert", "attr",
          "hold", "set_info", "drop"}

DataTypes ==
    /\ data \subseteq Inodes
    /\ by_ids \in [Ids -> InodeOpt]
    /\ by_handle \in [Files -> InodeOpt]
    /\ file \in [Inodes -> Files]
    /\ refcount \in [Inodes -> Nat]
    /\ parentRef \in [Inodes -> InodeOpt]
    /\ todo \in [Inodes -> Nat]
    /\ next_inode \in 2..(MaxInode + 1)
    /\ guest \in [Inodes -> Nat]
    /\ linked \subseteq Files
    /\ born \subseteq Files
    /\ pc \in [Threads -> Steps]
    /\ path \in [Threads -> Files \cup {NoFile}]
    /\ arc \in [Threads -> InodeOpt]
    /\ strong \in [Threads -> InodeOpt]
    /\ parent \in [Threads -> InodeOpt]
    /\ newid \in [Threads -> InodeOpt]

\* The type invariant: in particular no count becomes negative and no ID beyond
\* the ones drawn appears.
TypeOK ==
    /\ DataTypes
    /\ track \in BOOLEAN

\* by_ids and by_handle never name an inode that is gone, or one filed under
\* another key: get_by_ids() and get_by_handle() unwrap() what they find, so a
\* dangling entry would take the daemon down.
IndexSound ==
    /\ \A i \in Ids : by_ids[i] # NoInode =>
          by_ids[i] \in data /\ IdsOf[file[by_ids[i]]] = i
    /\ \A f \in Files : by_handle[f] # NoInode =>
          by_handle[f] \in data /\ file[by_handle[f]] = f /\ HasHandle[f]

\* A reference count is exactly the references that exist: those the guest
\* has to FORGET, those threads own, those in the migration info of children,
\* and those whose forget_one() is under way.
RefAccounting ==
    \A n \in Inodes :
        refcount[n] = guest[n] + Count(strong, n) + Count(parent, n)
                        + Count(parentRef, n) + todo[n]

\* An inode is in the store as long as, and only as long as, somebody refers to
\* it: the guest's IDs stay valid, Clone for StrongInodeReference may unwrap(),
\* and nothing is kept for ever.
LiveWhileReferenced ==
    \A n \in Inodes : n \in data <=> refcount[n] > 0

\* However two LOOKUPs of one file interleave, and whatever is forgotten in
\* between, a file has one FUSE inode ID at a time.
OneIdPerFile ==
    \A m, n \in data : file[m] = file[n] => m = n

\* The inode a LOOKUP returns is for the file that was looked up, even when the
\* host has given the inode number of a deleted file to a new one.
LookupIdentity ==
    \A t \in Threads : pc[t] = "attr" => file[strong[t]] = path[t]

\* The comment on InodeIterator::last_inode: "new IDs added to the store are
\* always greater than all previous IDs".
NewIdsAreGreater ==
    [][\A n \in data' \ data : \A m \in data : n > m]_vars
=============================================================================
