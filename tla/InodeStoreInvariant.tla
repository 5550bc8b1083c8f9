------------------------- MODULE InodeStoreInvariant ------------------------
(***************************************************************************)
(* The inductive invariant of the inode store.  It holds initially, and    *)
(* every step keeps the types and the indices as they should be.           *)
(***************************************************************************)
EXTENDS InodeStore, FiniteSetTheorems, TLAPS

-----------------------------------------------------------------------------
(* Counting.                                                               *)

\* Counting a value in a function with a finite domain gives a natural number.
LEMMA CountType ==
    ASSUME NEW S, IsFiniteSet(S), NEW f, DOMAIN f = S, NEW n
    PROVE  /\ IsFiniteSet({x \in S : f[x] = n})
           /\ Count(f, n) \in Nat
<1>1. IsFiniteSet({x \in S : f[x] = n})
  BY FS_Subset
<1> QED
  BY <1>1, FS_CardinalityType DEF Count

\* A value is counted zero times exactly when it does not occur.
LEMMA CountZero ==
    ASSUME NEW S, IsFiniteSet(S), NEW f, DOMAIN f = S, NEW n
    PROVE  Count(f, n) = 0 <=> \A x \in S : f[x] # n
<1>1. IsFiniteSet({x \in S : f[x] = n})
  BY CountType
<1>2. Count(f, n) = 0 <=> {x \in S : f[x] = n} = {}
  BY <1>1, FS_EmptySet DEF Count
<1> QED
  BY <1>2

\* Changing one entry of a function from u to v moves one occurrence from u to
\* v: what taking, handing over and dropping one reference does to a count.
LEMMA CountUpdate ==
    ASSUME NEW S, IsFiniteSet(S), NEW f, NEW g, DOMAIN f = S, DOMAIN g = S,
           NEW x \in S, \A y \in S \ {x} : g[y] = f[y], NEW n
    PROVE  Count(g, n)
             = Count(f, n) - (IF f[x] = n THEN 1 ELSE 0) + (IF g[x] = n THEN 1 ELSE 0)
<1> DEFINE A == {y \in S : f[y] = n}
           B == {y \in S : g[y] = n}
           C == A \ {x}
<1>1. IsFiniteSet(A) /\ IsFiniteSet(B) /\ IsFiniteSet(C)
  BY FS_Subset
<1>2. Count(f, n) = Cardinality(A) /\ Count(g, n) = Cardinality(B)
  BY DEF Count
<1>3. Cardinality(A) \in Nat /\ Cardinality(B) \in Nat /\ Cardinality(C) \in Nat
  BY <1>1, FS_CardinalityType
<1>4. Cardinality(A) = Cardinality(C) + (IF f[x] = n THEN 1 ELSE 0)
  <2>1. CASE f[x] = n
    <3>1. A = C \cup {x} /\ x \notin C
      BY <2>1
    <3> QED
      BY <1>1, <1>3, <2>1, <3>1, FS_AddElement
  <2>2. CASE f[x] # n
    <3>1. A = C
      BY <2>2
    <3> QED
      BY <1>3, <2>2, <3>1
  <2> QED
    BY <2>1, <2>2
<1>5. Cardinality(B) = Cardinality(C) + (IF g[x] = n THEN 1 ELSE 0)
  <2>1. CASE g[x] = n
    <3>1. B = C \cup {x} /\ x \notin C
      BY <2>1
    <3> QED
      BY <1>1, <1>3, <2>1, <3>1, FS_AddElement
  <2>2. CASE g[x] # n
    <3>1. B = C
      BY <2>2
    <3> QED
      BY <1>3, <2>2, <3>1
  <2> QED
    BY <2>1, <2>2
<1> QED
  BY <1>2, <1>3, <1>4, <1>5

\* The inode IDs, and hence everything counted over them, are finitely many.
LEMMA InodesFinite == IsFiniteSet(Inodes)
BY BoundAssumption, FS_Interval DEF Inodes

\* An optional inode is an inode or none.
LEMMA InodeSets ==
    /\ InodeOpt = Inodes \cup {NoInode}
    /\ NoInode \notin Inodes
    /\ ROOT_ID \in Inodes
    /\ Inodes \subseteq Nat
BY BoundAssumption DEF Inodes, InodeOpt, NoInode, ROOT_ID

-----------------------------------------------------------------------------
(* The inductive invariant.                                                *)

\* An inode is found in the index that do_claim_inode() would use for it.  It is
\* why a second look under the write lock is enough for OneIdPerFile.
IndexComplete ==
    \A n \in data : IF IsFile(n) THEN by_ids[IdsOf[file[n]]] = n
                                 ELSE by_handle[file[n]] = n

\* What a thread owns at each of its steps.
ThreadRefs ==
    \A t \in Threads :
        /\ pc[t] # "idle" => path[t] \in Files /\ arc[t] \in Inodes
        /\ strong[t] # NoInode => pc[t] \in {"attr", "hold", "set_info", "drop"}
        /\ pc[t] \in {"attr", "hold", "set_info"} => strong[t] # NoInode
        /\ parent[t] # NoInode => pc[t] \in {"info", "insert", "attr", "set_info", "drop"}
        /\ pc[t] = "set_info" => parent[t] # NoInode

\* An ID that was drawn is used by nobody else, so get_or_insert() never reports
\* a "Double-use of FUSE inode ID".
FreshIds ==
    /\ \A n \in data : n < next_inode
    /\ \A t \in Threads : pc[t] = "insert" =>
          newid[t] \in 2..(next_inode - 1) /\ newid[t] \notin data
    /\ \A t, u \in Threads : t # u /\ pc[t] = "insert" /\ pc[u] = "insert" =>
          newid[t] # newid[u]

\* remove() leaves no reference behind in the inode it removes.
NoInfoLeft ==
    \A n \in Inodes \ data : parentRef[n] = NoInode

\* Two files whose inode numbers are in use have different ones.
Held(f) == f \in linked \/ Pinned(f)

HostUnique ==
    /\ RootFile \in linked
    /\ \A f, g \in Files : f # g /\ IdsOf[f] = IdsOf[g] => ~(Held(f) /\ Held(g))

IInv ==
    /\ TypeOK
    /\ IndexSound
    /\ IndexComplete
    /\ RefAccounting
    /\ LiveWhileReferenced
    /\ ThreadRefs
    /\ FreshIds
    /\ NoInfoLeft
    /\ HostUnique
    /\ LookupIdentity

\* The initial state satisfies the invariant.
LEMMA InitIInv == Init => IInv
<1> SUFFICES ASSUME Init PROVE IInv
  OBVIOUS
<1> USE InodeSets
<1>1. TypeOK
  <2>1. born \subseteq Files
    BY FilesAssumption DEF Init
  <2>2. DataTypes
    BY <2>1, FilesAssumption, BoundAssumption
    DEF Init, DataTypes, ROOT_ID, FirstInode, Steps
  <2>3. track \in BOOLEAN
    BY Zenon DEF Init
  <2> QED
    BY <2>2, <2>3 DEF TypeOK
<1>2. IndexSound /\ IndexComplete /\ LiveWhileReferenced /\ NoInfoLeft
  BY DEF Init, IndexSound, IndexComplete, LiveWhileReferenced, NoInfoLeft
<1>3. RefAccounting
  <2> SUFFICES ASSUME NEW n \in Inodes
               PROVE  refcount[n] = guest[n] + Count(strong, n) + Count(parent, n)
                                      + Count(parentRef, n) + todo[n]
    BY DEF RefAccounting
  <2>1. Count(strong, n) = 0 /\ Count(parent, n) = 0
    BY CountZero, BoundAssumption, InodesFinite DEF Init
  <2>2. Count(parentRef, n) = 0
    BY CountZero, BoundAssumption, InodesFinite, Zenon DEF Init
  <2> QED
    BY <2>1, <2>2 DEF Init
<1>4. ThreadRefs /\ FreshIds /\ LookupIdentity
  BY DEF Init, ThreadRefs, FreshIds, LookupIdentity
<1>5. HostUnique
  <2>1. \A f \in Files : ~Pinned(f)
    BY FilesAssumption DEF Init, Pinned
  <2> QED
    BY <2>1 DEF Init, HostUnique, Held
<1> QED
  BY <1>1, <1>2, <1>3, <1>4, <1>5 DEF IInv

\* do_claim_inode() finds an inode or none.
LEMMA ClaimedType ==
    ASSUME DataTypes, NEW f \in Files
    PROVE  Claimed(f) \in InodeOpt
<1>1. IdsOf[f] \in Ids
  BY FilesAssumption
<1> QED
  BY <1>1, InodeSets DEF Claimed, DataTypes

\* An ID that was drawn is an inode ID.
LEMMA FreshType ==
    ASSUME DataTypes, FreshIds, NEW t \in Threads, pc[t] = "insert"
    PROVE  newid[t] \in Inodes /\ newid[t] # ROOT_ID
<1>1. MaxInode \in Nat
  BY BoundAssumption
<1>2. next_inode \in 2..(MaxInode + 1) /\ newid[t] \in 2..(next_inode - 1)
  BY DEF DataTypes, FreshIds
<1> QED
  BY <1>1, <1>2 DEF Inodes, ROOT_ID

\* clear_migration_info() drops finitely many references.
LEMMA ClearedCount ==
    ASSUME NEW n
    PROVE  Cardinality({m \in Inodes \ {ROOT_ID} : parentRef[m] = n}) \in Nat
BY InodesFinite, FS_Subset, FS_CardinalityType

\* clear_migration_info() keeps the types of what it changes.
LEMMA ClearedTypes ==
    ASSUME ClearMigrationInfo, parentRef \in [Inodes -> InodeOpt]
    PROVE  todo' \in [Inodes -> Nat] /\ parentRef' \in [Inodes -> InodeOpt]
<1>1. \A n \in Inodes : Cardinality({m \in Inodes \ {ROOT_ID} : parentRef[m] = n}) \in Nat
  BY ClearedCount
<1>2. todo' \in [Inodes -> Nat]
  BY <1>1, Zenon DEF ClearMigrationInfo
<1>3. parentRef' \in [Inodes -> InodeOpt]
  <2>1. ASSUME NEW n \in Inodes
        PROVE  (IF n = ROOT_ID THEN parentRef[n] ELSE NoInode) \in InodeOpt
    <3>1. parentRef[n] \in InodeOpt
      BY Zenon
    <3>2. NoInode \in InodeOpt
      BY InodeSets
    <3> QED
      BY <3>1, <3>2, Zenon
  <2> QED
    BY <2>1, Zenon DEF ClearMigrationInfo
<1> QED
  BY <1>2, <1>3

\* One more reference keeps the counts numbers.
LEMMA BumpType ==
    ASSUME NEW S, NEW f \in [S -> Nat], NEW x \in S
    PROVE  [f EXCEPT ![x] = f[x] + 1] \in [S -> Nat]
OBVIOUS

\* The tracking flag stays a flag.
LEMMA TrackStep == track \in BOOLEAN /\ [Next]_vars => track' \in BOOLEAN
<1> SUFFICES ASSUME track \in BOOLEAN, [Next]_vars PROVE track' \in BOOLEAN
  OBVIOUS
<1>1. ASSUME NEW t \in Threads, NEW p \in Inodes, NEW f \in Files, Lookup(t, p, f)
      PROVE  track' \in BOOLEAN
  BY <1>1 DEF Lookup, OpenName, storeVars, hostVars, threadVars
<1>2. ASSUME NEW t \in Threads, NEW p \in Inodes, NEW f \in Files, TryLookup(t, p, f)
      PROVE  track' \in BOOLEAN
  BY <1>2 DEF TryLookup, OpenName, storeVars, hostVars, threadVars
<1>3. ASSUME NEW t \in Threads, ClaimInode(t)
      PROVE  track' \in BOOLEAN
  BY <1>3 DEF ClaimInode, Increment, Alive, Finish, storeVars, hostVars, threadVars
<1>4. ASSUME NEW t \in Threads, BuildInode(t)
      PROVE  track' \in BOOLEAN
  BY <1>4 DEF BuildInode, Increment, Alive, Finish, storeVars, hostVars, threadVars
<1>5. ASSUME NEW t \in Threads, DrawId(t)
      PROVE  track' \in BOOLEAN
  BY <1>5 DEF DrawId, storeVars, hostVars, threadVars
<1>6. ASSUME NEW t \in Threads, GetOrInsert(t)
      PROVE  track' \in BOOLEAN
  BY <1>6 DEF GetOrInsert, Increment, Alive, InsertNew, storeVars, hostVars, threadVars
<1>7. ASSUME NEW t \in Threads, AttrError(t)
      PROVE  track' \in BOOLEAN
  BY <1>7 DEF AttrError, storeVars, hostVars, threadVars
<1>8. ASSUME NEW t \in Threads, ReplyEntry(t)
      PROVE  track' \in BOOLEAN
  BY <1>8 DEF ReplyEntry, Finish, storeVars, hostVars, threadVars
<1>9. ASSUME NEW t \in Threads, ReleaseRef(t)
      PROVE  track' \in BOOLEAN
  BY <1>9 DEF ReleaseRef, storeVars, hostVars, threadVars
<1>10. ASSUME NEW t \in Threads, TakeInfo(t)
      PROVE  track' \in BOOLEAN
  BY <1>10 DEF TakeInfo, storeVars, hostVars, threadVars
<1>11. ASSUME NEW t \in Threads, TakeParent(t)
      PROVE  track' \in BOOLEAN
  BY <1>11 DEF TakeParent, Increment, Alive, storeVars, hostVars, threadVars
<1>12. ASSUME NEW t \in Threads, SetInfo(t)
      PROVE  track' \in BOOLEAN
  BY <1>12 DEF SetInfo, storeVars, hostVars, threadVars
<1>13. ASSUME NEW t \in Threads, DropParent(t)
      PROVE  track' \in BOOLEAN
  BY <1>13 DEF DropParent, DropRef, storeVars, hostVars, threadVars
<1>14. ASSUME NEW t \in Threads, DropStrong(t)
      PROVE  track' \in BOOLEAN
  BY <1>14 DEF DropStrong, DropRef, storeVars, hostVars, threadVars
<1>15. ASSUME NEW t \in Threads, Return(t)
      PROVE  track' \in BOOLEAN
  BY <1>15 DEF Return, Finish, storeVars, hostVars, threadVars
<1>16. ASSUME NEW n \in Inodes, ForgetOne(n)
      PROVE  track' \in BOOLEAN
  BY <1>16 DEF ForgetOne, Remove, storeVars, hostVars, threadVars
<1>17. ASSUME NEW n \in Inodes, NEW c \in 1..guest[n], Forget(n, c)
      PROVE  track' \in BOOLEAN
  BY <1>17 DEF Forget, storeVars, hostVars, threadVars
<1>18. ASSUME NEW S \in SUBSET Inodes, BatchForget(S)
      PROVE  track' \in BOOLEAN
  BY <1>18 DEF BatchForget, storeVars, hostVars, threadVars
<1>19. ASSUME PrepareSerialization
      PROVE  track' \in BOOLEAN
  BY <1>19 DEF PrepareSerialization, ClearMigrationInfo, storeVars, hostVars, threadVars
<1>20. ASSUME Serialize
      PROVE  track' \in BOOLEAN
  BY <1>20, Zenon DEF Serialize, ClearMigrationInfo, storeVars, hostVars, threadVars
<1>21. ASSUME Destroy
      PROVE  track' \in BOOLEAN
  BY <1>21 DEF Destroy, storeVars, hostVars, threadVars
<1>22. ASSUME InitFs
      PROVE  track' \in BOOLEAN
  BY <1>22 DEF InitFs, storeVars, hostVars, threadVars
<1>23. ASSUME NEW f \in Files, HostCreate(f)
      PROVE  track' \in BOOLEAN
  BY <1>23 DEF HostCreate, storeVars, hostVars, threadVars
<1>24. ASSUME NEW f \in Files, HostUnlink(f)
      PROVE  track' \in BOOLEAN
  BY <1>24 DEF HostUnlink, storeVars, hostVars, threadVars
<1>25. ASSUME UNCHANGED vars
      PROVE  track' \in BOOLEAN
  BY <1>25 DEF vars, storeVars, hostVars, threadVars
<1> QED
  BY <1>1, <1>2, <1>3, <1>4, <1>5, <1>6, <1>7, <1>8, <1>9, <1>10, <1>11, <1>12, <1>13, <1>14, <1>15, <1>16, <1>17, <1>18, <1>19, <1>20, <1>21, <1>22, <1>23, <1>24, <1>25 DEF Next, ThreadStep

\* Every step keeps the types.
LEMMA TypeStep == IInv /\ [Next]_vars => TypeOK'
<1> SUFFICES ASSUME IInv, [Next]_vars PROVE TypeOK'
  OBVIOUS
<1> USE InodeSets DEF Steps
<1>0. DataTypes /\ ThreadRefs /\ FreshIds
  BY DEF IInv, TypeOK
<1>1. ASSUME NEW t \in Threads, NEW p \in Inodes, NEW f \in Files, Lookup(t, p, f)
      PROVE  DataTypes'
  BY <1>1, <1>0 DEF Lookup, OpenName, storeVars, hostVars, threadVars, DataTypes, ThreadRefs
<1>2. ASSUME NEW t \in Threads, NEW p \in Inodes, NEW f \in Files, TryLookup(t, p, f)
      PROVE  DataTypes'
  BY <1>2, <1>0 DEF TryLookup, OpenName, storeVars, hostVars, threadVars, DataTypes, ThreadRefs
<1>3. ASSUME NEW t \in Threads, ClaimInode(t)
      PROVE  DataTypes'
  <2>1. Claimed(path[t]) \in InodeOpt
    BY <1>3, <1>0, ClaimedType DEF ClaimInode, ThreadRefs
  <2> QED
    BY <1>3, <1>0, <2>1 DEF ClaimInode, Increment, Alive, Finish, hostVars, DataTypes
<1>4. ASSUME NEW t \in Threads, BuildInode(t)
      PROVE  DataTypes'
  BY <1>4, <1>0 DEF BuildInode, Increment, Alive, Finish, storeVars, hostVars, threadVars, DataTypes, ThreadRefs
<1>5. ASSUME NEW t \in Threads, DrawId(t)
      PROVE  DataTypes'
  <2>1. next_inode <= MaxInode => next_inode \in InodeOpt /\ next_inode + 1 \in 2..(MaxInode + 1)
    BY <1>0, BoundAssumption DEF DataTypes, InodeOpt
  <2> QED
    BY <1>5, <1>0, <2>1 DEF DrawId, storeVars, hostVars, DataTypes
<1>6. ASSUME NEW t \in Threads, GetOrInsert(t)
      PROVE  DataTypes'
  <2>1. Claimed(path[t]) \in InodeOpt /\ path[t] \in Files /\ newid[t] \in Inodes
    BY <1>6, <1>0, ClaimedType, FreshType DEF GetOrInsert, ThreadRefs
  <2>2. CASE ~InsertNew(newid[t], path[t], 1, parent[t])
    <3>1. refcount' \in [Inodes -> Nat] /\ strong' \in [Threads -> InodeOpt]
      BY <1>6, <1>0, <2>1, <2>2 DEF GetOrInsert, Increment, Alive, storeVars, DataTypes
    <3> QED
      BY <1>6, <1>0, <2>2, <3>1, Zenon DEF GetOrInsert, storeVars, hostVars, DataTypes
  <2>3. CASE InsertNew(newid[t], path[t], 1, parent[t])
    <3>1. data' \subseteq Inodes /\ refcount' \in [Inodes -> Nat]
      BY <1>0, <2>1, <2>3, Zenon DEF InsertNew, DataTypes
    <3>2. by_ids' \in [Ids -> InodeOpt] /\ by_handle' \in [Files -> InodeOpt]
      BY <1>0, <2>1, <2>3, Zenon DEF InsertNew, DataTypes
    <3> QED
      BY <1>6, <1>0, <2>1, <2>3, <3>1, <3>2 DEF GetOrInsert, InsertNew, hostVars, DataTypes
  <2> QED
    BY <2>2, <2>3
<1>7. ASSUME NEW t \in Threads, AttrError(t)
      PROVE  DataTypes'
  BY <1>7, <1>0 DEF AttrError, storeVars, hostVars, threadVars, DataTypes, ThreadRefs
<1>8. ASSUME NEW t \in Threads, ReplyEntry(t)
      PROVE  DataTypes'
  <2>1. strong[t] \in Inodes
    BY <1>8, <1>0 DEF ReplyEntry, DataTypes, ThreadRefs
  <2>2. guest' \in [Inodes -> Nat]
    BY <1>8, <1>0, <2>1, BumpType, Zenon DEF ReplyEntry, DataTypes
  <2> QED
    BY <1>8, <1>0, <2>2 DEF ReplyEntry, Finish, storeVars, hostVars, DataTypes
<1>9. ASSUME NEW t \in Threads, ReleaseRef(t)
      PROVE  DataTypes'
  BY <1>9, <1>0 DEF ReleaseRef, storeVars, hostVars, threadVars, DataTypes, ThreadRefs
<1>10. ASSUME NEW t \in Threads, TakeInfo(t)
      PROVE  DataTypes'
  BY <1>10, <1>0, Zenon DEF TakeInfo, storeVars, hostVars, threadVars, DataTypes, ThreadRefs
<1>11. ASSUME NEW t \in Threads, TakeParent(t)
      PROVE  DataTypes'
  BY <1>11, <1>0 DEF TakeParent, Increment, Alive, storeVars, hostVars, threadVars, DataTypes, ThreadRefs
<1>12. ASSUME NEW t \in Threads, SetInfo(t)
      PROVE  DataTypes'
  BY <1>12, <1>0 DEF SetInfo, storeVars, hostVars, threadVars, DataTypes, ThreadRefs
<1>13. ASSUME NEW t \in Threads, DropParent(t)
      PROVE  DataTypes'
  BY <1>13, <1>0 DEF DropParent, DropRef, storeVars, hostVars, threadVars, DataTypes, ThreadRefs
<1>14. ASSUME NEW t \in Threads, DropStrong(t)
      PROVE  DataTypes'
  BY <1>14, <1>0 DEF DropStrong, DropRef, storeVars, hostVars, threadVars, DataTypes, ThreadRefs
<1>15. ASSUME NEW t \in Threads, Return(t)
      PROVE  DataTypes'
  BY <1>15, <1>0 DEF Return, Finish, storeVars, hostVars, threadVars, DataTypes, ThreadRefs
<1>16. ASSUME NEW n \in Inodes, ForgetOne(n)
      PROVE  DataTypes'
  <2>1. refcount' \in [Inodes -> Nat]
    BY <1>16, <1>0 DEF ForgetOne, DataTypes
  <2>2. todo' \in [Inodes -> Nat]
    BY <1>16, <1>0 DEF ForgetOne, Remove, DataTypes
  <2>3. data' \subseteq Inodes /\ parentRef' \in [Inodes -> InodeOpt]
    BY <1>16, <1>0, Zenon DEF ForgetOne, Remove, DataTypes
  <2>4. by_ids' \in [Ids -> InodeOpt] /\ by_handle' \in [Files -> InodeOpt]
    BY <1>16, <1>0 DEF ForgetOne, Remove, DataTypes
  <2> QED
    BY <1>16, <1>0, <2>1, <2>2, <2>3, <2>4 DEF ForgetOne, hostVars, threadVars, DataTypes
<1>17. ASSUME NEW n \in Inodes, NEW c \in 1..guest[n], Forget(n, c)
      PROVE  DataTypes'
  BY <1>17, <1>0 DEF Forget, storeVars, hostVars, threadVars, DataTypes, ThreadRefs
<1>18. ASSUME NEW S \in SUBSET Inodes, BatchForget(S)
      PROVE  DataTypes'
  BY <1>18, <1>0 DEF BatchForget, storeVars, hostVars, threadVars, DataTypes, ThreadRefs
<1>19. ASSUME PrepareSerialization
      PROVE  DataTypes'
  <2>1. todo' \in [Inodes -> Nat] /\ parentRef' \in [Inodes -> InodeOpt]
    BY <1>19, <1>0, ClearedTypes DEF PrepareSerialization, DataTypes
  <2> QED
    BY <1>19, <1>0, <2>1 DEF PrepareSerialization, ClearMigrationInfo, hostVars, threadVars, DataTypes
<1>20. ASSUME Serialize
      PROVE  DataTypes'
  <2>1. todo' \in [Inodes -> Nat] /\ parentRef' \in [Inodes -> InodeOpt]
    BY <1>20, <1>0, ClearedTypes DEF Serialize, DataTypes
  <2> QED
    BY <1>20, <1>0, <2>1 DEF Serialize, ClearMigrationInfo, hostVars, threadVars, DataTypes
<1>21. ASSUME Destroy
      PROVE  DataTypes'
  BY <1>21, <1>0 DEF Destroy, storeVars, hostVars, threadVars, DataTypes, ThreadRefs
<1>22. ASSUME InitFs
      PROVE  DataTypes'
  <2>1. file' \in [Inodes -> Files] /\ data' \subseteq Inodes
    BY <1>22, <1>0, FilesAssumption DEF InitFs, DataTypes
  <2>2. by_ids' \in [Ids -> InodeOpt] /\ by_handle' \in [Files -> InodeOpt]
    BY <1>22 DEF InitFs
  <2> QED
    BY <1>22, <1>0, <2>1, <2>2 DEF InitFs, hostVars, threadVars, DataTypes
<1>23. ASSUME NEW f \in Files, HostCreate(f)
      PROVE  DataTypes'
  BY <1>23, <1>0 DEF HostCreate, storeVars, hostVars, threadVars, DataTypes, ThreadRefs
<1>24. ASSUME NEW f \in Files, HostUnlink(f)
      PROVE  DataTypes'
  BY <1>24, <1>0 DEF HostUnlink, storeVars, hostVars, threadVars, DataTypes, ThreadRefs
<1>25. ASSUME UNCHANGED vars
      PROVE  DataTypes'
  BY <1>25, <1>0 DEF vars, storeVars, hostVars, threadVars, DataTypes, ThreadRefs
<1>30. DataTypes'
  BY <1>1, <1>2, <1>3, <1>4, <1>5, <1>6, <1>7, <1>8, <1>9, <1>10, <1>11, <1>12, <1>13, <1>14, <1>15, <1>16, <1>17, <1>18, <1>19, <1>20, <1>21, <1>22, <1>23, <1>24, <1>25 DEF Next, ThreadStep
<1>31. track' \in BOOLEAN
  BY TrackStep DEF IInv, TypeOK
<1> QED
  BY <1>30, <1>31 DEF TypeOK

-----------------------------------------------------------------------------
(* The indices.                                                            *)

\* Only get_or_insert(), forget_one(), destroy() and init() change the maps.
LEMMA StoreFrame ==
    [Next]_vars => \/ \E t \in Threads : GetOrInsert(t)
                   \/ \E n \in Inodes : ForgetOne(n)
                   \/ Destroy
                   \/ InitFs
                   \/ UNCHANGED <<data, by_ids, by_handle, file>>
<1>1. ASSUME NEW t \in Threads, NEW p \in Inodes, NEW f \in Files, Lookup(t, p, f)
      PROVE  UNCHANGED <<data, by_ids, by_handle, file>>
  BY <1>1, Zenon DEF Lookup, OpenName, storeVars, hostVars, threadVars
<1>2. ASSUME NEW t \in Threads, NEW p \in Inodes, NEW f \in Files, TryLookup(t, p, f)
      PROVE  UNCHANGED <<data, by_ids, by_handle, file>>
  BY <1>2 DEF TryLookup, OpenName, storeVars, hostVars, threadVars
<1>3. ASSUME NEW t \in Threads, ClaimInode(t)
      PROVE  UNCHANGED <<data, by_ids, by_handle, file>>
  BY <1>3 DEF ClaimInode, Increment, Alive, Finish, storeVars, hostVars, threadVars
<1>4. ASSUME NEW t \in Threads, BuildInode(t)
      PROVE  UNCHANGED <<data, by_ids, by_handle, file>>
  BY <1>4 DEF BuildInode, Increment, Alive, Finish, storeVars, hostVars, threadVars
<1>5. ASSUME NEW t \in Threads, DrawId(t)
      PROVE  UNCHANGED <<data, by_ids, by_handle, file>>
  BY <1>5 DEF DrawId, storeVars, hostVars, threadVars
<1>6. ASSUME NEW t \in Threads, AttrError(t)
      PROVE  UNCHANGED <<data, by_ids, by_handle, file>>
  BY <1>6 DEF AttrError, storeVars, hostVars, threadVars
<1>7. ASSUME NEW t \in Threads, ReplyEntry(t)
      PROVE  UNCHANGED <<data, by_ids, by_handle, file>>
  BY <1>7 DEF ReplyEntry, Finish, storeVars, hostVars, threadVars
<1>8. ASSUME NEW t \in Threads, ReleaseRef(t)
      PROVE  UNCHANGED <<data, by_ids, by_handle, file>>
  BY <1>8 DEF ReleaseRef, storeVars, hostVars, threadVars
<1>9. ASSUME NEW t \in Threads, TakeInfo(t)
      PROVE  UNCHANGED <<data, by_ids, by_handle, file>>
  BY <1>9 DEF TakeInfo, storeVars, hostVars, threadVars
<1>10. ASSUME NEW t \in Threads, TakeParent(t)
      PROVE  UNCHANGED <<data, by_ids, by_handle, file>>
  BY <1>10 DEF TakeParent, Increment, Alive, storeVars, hostVars, threadVars
<1>11. ASSUME NEW t \in Threads, SetInfo(t)
      PROVE  UNCHANGED <<data, by_ids, by_handle, file>>
  BY <1>11 DEF SetInfo, storeVars, hostVars, threadVars
<1>12. ASSUME NEW t \in Threads, DropParent(t)
      PROVE  UNCHANGED <<data, by_ids, by_handle, file>>
  BY <1>12 DEF DropParent, DropRef, storeVars, hostVars, threadVars
<1>13. ASSUME NEW t \in Threads, DropStrong(t)
      PROVE  UNCHANGED <<data, by_ids, by_handle, file>>
  BY <1>13 DEF DropStrong, DropRef, storeVars, hostVars, threadVars
<1>14. ASSUME NEW t \in Threads, Return(t)
      PROVE  UNCHANGED <<data, by_ids, by_handle, file>>
  BY <1>14 DEF Return, Finish, storeVars, hostVars, threadVars
<1>15. ASSUME NEW n \in Inodes, NEW c \in 1..guest[n], Forget(n, c)
      PROVE  UNCHANGED <<data, by_ids, by_handle, file>>
  BY <1>15 DEF Forget, storeVars, hostVars, threadVars
<1>16. ASSUME NEW S \in SUBSET Inodes, BatchForget(S)
      PROVE  UNCHANGED <<data, by_ids, by_handle, file>>
  BY <1>16 DEF BatchForget, storeVars, hostVars, threadVars
<1>17. ASSUME PrepareSerialization
      PROVE  UNCHANGED <<data, by_ids, by_handle, file>>
  BY <1>17 DEF PrepareSerialization, ClearMigrationInfo, storeVars, hostVars, threadVars
<1>18. ASSUME Serialize
      PROVE  UNCHANGED <<data, by_ids, by_handle, file>>
  BY <1>18 DEF Serialize, ClearMigrationInfo, storeVars, hostVars, threadVars
<1>19. ASSUME NEW f \in Files, HostCreate(f)
      PROVE  UNCHANGED <<data, by_ids, by_handle, file>>
  BY <1>19 DEF HostCreate, storeVars, hostVars, threadVars
<1>20. ASSUME NEW f \in Files, HostUnlink(f)
      PROVE  UNCHANGED <<data, by_ids, by_handle, file>>
  BY <1>20 DEF HostUnlink, storeVars, hostVars, threadVars
<1>21. ASSUME UNCHANGED vars
      PROVE  UNCHANGED <<data, by_ids, by_handle, file>>
  BY <1>21 DEF vars, storeVars, hostVars, threadVars
<1> QED
  BY <1>1, <1>2, <1>3, <1>4, <1>5, <1>6, <1>7, <1>8, <1>9, <1>10, <1>11, <1>12, <1>13, <1>14, <1>15, <1>16, <1>17, <1>18, <1>19, <1>20, <1>21 DEF Next, ThreadStep

\* Inserting a file that do_claim_inode() does not find keeps both indices sound
\* and complete: no entry that is still needed is overwritten.
LEMMA InsertIndex ==
    ASSUME DataTypes, IndexSound, IndexComplete, LiveWhileReferenced,
           NEW n \in Inodes \ data, NEW f \in Files, NEW rc, NEW p,
           ~Alive(Claimed(f)), InsertNew(n, f, rc, p)
    PROVE  IndexSound' /\ IndexComplete'
<1> USE InodeSets
<1>1. IdsOf \in [Files -> Ids] /\ file \in [Inodes -> Files] /\ data \subseteq Inodes
  BY FilesAssumption DEF DataTypes
<1>2. IndexSound'
  BY <1>1 DEF IndexSound, InsertNew, DataTypes
<1>3. ASSUME NEW m \in data
      PROVE  IF IsFile(m) THEN IdsOf[file[m]] # IdsOf[f] ELSE file[m] # f
  <2>1. Alive(m)
    BY <1>1 DEF LiveWhileReferenced, Alive
  <2>2. CASE IsFile(m)
    <3>1. SUFFICES ASSUME IdsOf[file[m]] = IdsOf[f] PROVE FALSE
      BY <2>2
    <3>2. ~HasHandle[f]
      BY <1>1, <2>2, <3>1, HandleAssumption DEF IsFile
    <3> QED
      BY <2>1, <2>2, <3>1, <3>2 DEF IndexComplete, Claimed
  <2>3. CASE ~IsFile(m)
    BY <1>1, <2>1, <2>3 DEF IsFile, IndexComplete, Claimed
  <2> QED
    BY <2>2, <2>3, Zenon
<1>4. IndexComplete'
  BY <1>1, <1>3 DEF IndexComplete, IsFile, InsertNew, DataTypes
<1> QED
  BY <1>2, <1>4

\* Removing an inode from both indices leaves those of the other inodes alone.
LEMMA RemoveIndex ==
    ASSUME DataTypes, IndexSound, IndexComplete, NEW n \in data, Remove(n),
           UNCHANGED file
    PROVE  IndexSound' /\ IndexComplete'
<1> USE InodeSets
<1>1. IdsOf \in [Files -> Ids] /\ file \in [Inodes -> Files] /\ data \subseteq Inodes
  BY FilesAssumption DEF DataTypes
<1>2. IndexSound'
  <2>1. ASSUME NEW i \in Ids, by_ids'[i] # NoInode
        PROVE  by_ids'[i] \in data' /\ IdsOf[file[by_ids'[i]]] = i
    BY <1>1, <2>1 DEF IndexSound, Remove, DataTypes
  <2>2. ASSUME NEW f \in Files, by_handle'[f] # NoInode
        PROVE  by_handle'[f] \in data' /\ file[by_handle'[f]] = f /\ HasHandle[f]
    BY <1>1, <2>2 DEF IndexSound, Remove, IsFile, DataTypes
  <2> QED
    BY <2>1, <2>2 DEF IndexSound
<1>3. ASSUME NEW m \in data, m # n
      PROVE  IF IsFile(m) THEN IdsOf[file[m]] # IdsOf[file[n]] ELSE file[m] # file[n]
  <2>1. CASE IsFile(m)
    <3>1. SUFFICES ASSUME IdsOf[file[m]] = IdsOf[file[n]] PROVE FALSE
      BY <2>1
    <3>2. IsFile(n)
      BY <1>1, <2>1, <3>1, HandleAssumption DEF IsFile
    <3> QED
      BY <1>3, <2>1, <3>1, <3>2 DEF IndexComplete
  <2>2. CASE ~IsFile(m)
    BY <1>1, <1>3, <2>2 DEF IndexComplete, IsFile
  <2> QED
    BY <2>1, <2>2
<1>4. IndexComplete'
  <2>1. SUFFICES ASSUME NEW m \in data, m # n
                 PROVE  IF IsFile(m) THEN by_ids'[IdsOf[file[m]]] = m
                                     ELSE by_handle'[file[m]] = m
    BY Zenon DEF IndexComplete, Remove, IsFile
  <2> QED
    BY <1>1, <1>3, <2>1 DEF IndexComplete, IsFile, Remove, DataTypes
<1> QED
  BY <1>2, <1>4

\* Every step keeps the indices sound and complete.
LEMMA IndexStep == IInv /\ [Next]_vars => IndexSound' /\ IndexComplete'
<1> SUFFICES ASSUME IInv, [Next]_vars PROVE IndexSound' /\ IndexComplete'
  OBVIOUS
<1> USE InodeSets
<1>0. DataTypes /\ IndexSound /\ IndexComplete /\ LiveWhileReferenced /\ FreshIds /\ ThreadRefs
  BY DEF IInv, TypeOK
<1>1. ASSUME NEW t \in Threads, GetOrInsert(t) PROVE IndexSound' /\ IndexComplete'
  <2>1. CASE UNCHANGED <<data, by_ids, by_handle, file>>
    BY <1>0, <2>1 DEF IndexSound, IndexComplete, IsFile
  <2>2. CASE /\ ~Alive(Claimed(path[t]))
             /\ InsertNew(newid[t], path[t], 1, parent[t])
    <3>1. newid[t] \in Inodes \ data /\ path[t] \in Files
      BY <1>0, <1>1, FreshType, Zenon DEF GetOrInsert, FreshIds, ThreadRefs
    <3> QED
      BY <1>0, <2>2, <3>1, InsertIndex, Zenon
  <2> QED
    BY <1>1, <2>1, <2>2 DEF GetOrInsert, storeVars
<1>2. ASSUME NEW n \in Inodes, ForgetOne(n) PROVE IndexSound' /\ IndexComplete'
  <2>1. CASE UNCHANGED <<data, by_ids, by_handle, file>>
    BY <1>0, <2>1 DEF IndexSound, IndexComplete, IsFile
  <2>2. CASE n \in data /\ Remove(n) /\ UNCHANGED file
    BY <1>0, <2>2, RemoveIndex
  <2> QED
    BY <1>2, <2>1, <2>2 DEF ForgetOne
<1>3. CASE Destroy
  BY <1>3, Zenon DEF Destroy, IndexSound, IndexComplete
<1>4. CASE InitFs
  <2>1. file'[ROOT_ID] = RootFile
    BY <1>0, <1>4 DEF InitFs, DataTypes
  <2> QED
    BY <1>4, <2>1, FilesAssumption DEF InitFs, IndexSound, IndexComplete, IsFile
<1>5. CASE UNCHANGED <<data, by_ids, by_handle, file>>
  BY <1>0, <1>5 DEF IndexSound, IndexComplete, IsFile
<1> QED
  BY <1>1, <1>2, <1>3, <1>4, <1>5, StoreFrame
=============================================================================
