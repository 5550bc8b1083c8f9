--------------------------- MODULE InodeStoreRefs ---------------------------
(***************************************************************************)
(* Every step of the inode store keeps the part of the invariant about what *)
(* threads own, the IDs they have drawn and the reference counts.          *)
(***************************************************************************)
EXTENDS InodeStoreInvariant

-----------------------------------------------------------------------------
(* Threads and IDs.                                                        *)

\* Every step keeps what the threads own in line with where they are.
LEMMA ThreadStepRefs == IInv /\ [Next]_vars => ThreadRefs'
<1> SUFFICES ASSUME IInv, [Next]_vars PROVE ThreadRefs'
  OBVIOUS
<1> USE InodeSets
<1>0. DataTypes /\ ThreadRefs /\ FreshIds
  BY DEF IInv, TypeOK
<1>1. ASSUME NEW t \in Threads, NEW p \in Inodes, NEW f \in Files, Lookup(t, p, f)
      PROVE  ThreadRefs'
  BY <1>1, <1>0 DEF Lookup, OpenName, storeVars, hostVars, threadVars, ThreadRefs, DataTypes
<1>2. ASSUME NEW t \in Threads, NEW p \in Inodes, NEW f \in Files, TryLookup(t, p, f)
      PROVE  ThreadRefs'
  BY <1>2, <1>0 DEF TryLookup, OpenName, storeVars, hostVars, threadVars, ThreadRefs, DataTypes
<1>3. ASSUME NEW t \in Threads, ClaimInode(t)
      PROVE  ThreadRefs'
  <2>1. Claimed(path[t]) \in InodeOpt
    BY <1>3, <1>0, ClaimedType DEF ClaimInode, ThreadRefs
  <2> QED
    BY <1>3, <1>0, <2>1 DEF ClaimInode, Increment, Alive, Finish, ThreadRefs, DataTypes
<1>4. ASSUME NEW t \in Threads, BuildInode(t)
      PROVE  ThreadRefs'
  BY <1>4, <1>0 DEF BuildInode, Increment, Alive, Finish, storeVars, hostVars, threadVars, ThreadRefs, DataTypes
<1>5. ASSUME NEW t \in Threads, DrawId(t)
      PROVE  ThreadRefs'
  BY <1>5, <1>0 DEF DrawId, storeVars, hostVars, threadVars, ThreadRefs, DataTypes
<1>6. ASSUME NEW t \in Threads, GetOrInsert(t)
      PROVE  ThreadRefs'
  <2>1. Claimed(path[t]) \in InodeOpt /\ newid[t] # NoInode
    BY <1>6, <1>0, ClaimedType, FreshType DEF GetOrInsert, ThreadRefs
  <2> QED
    BY <1>6, <1>0, <2>1 DEF GetOrInsert, Increment, Alive, ThreadRefs, DataTypes
<1>7. ASSUME NEW t \in Threads, AttrError(t)
      PROVE  ThreadRefs'
  BY <1>7, <1>0 DEF AttrError, storeVars, hostVars, threadVars, ThreadRefs, DataTypes
<1>8. ASSUME NEW t \in Threads, ReplyEntry(t)
      PROVE  ThreadRefs'
  BY <1>8, <1>0 DEF ReplyEntry, Finish, storeVars, hostVars, threadVars, ThreadRefs, DataTypes
<1>9. ASSUME NEW t \in Threads, ReleaseRef(t)
      PROVE  ThreadRefs'
  BY <1>9, <1>0 DEF ReleaseRef, storeVars, hostVars, threadVars, ThreadRefs, DataTypes
<1>10. ASSUME NEW t \in Threads, TakeInfo(t)
      PROVE  ThreadRefs'
  BY <1>10, <1>0 DEF TakeInfo, storeVars, hostVars, threadVars, ThreadRefs, DataTypes
<1>11. ASSUME NEW t \in Threads, TakeParent(t)
      PROVE  ThreadRefs'
  BY <1>11, <1>0 DEF TakeParent, Increment, Alive, storeVars, hostVars, threadVars, ThreadRefs, DataTypes
<1>12. ASSUME NEW t \in Threads, SetInfo(t)
      PROVE  ThreadRefs'
  BY <1>12, <1>0 DEF SetInfo, storeVars, hostVars, threadVars, ThreadRefs, DataTypes
<1>13. ASSUME NEW t \in Threads, DropParent(t)
      PROVE  ThreadRefs'
  BY <1>13, <1>0 DEF DropParent, DropRef, storeVars, hostVars, threadVars, ThreadRefs, DataTypes
<1>14. ASSUME NEW t \in Threads, DropStrong(t)
      PROVE  ThreadRefs'
  BY <1>14, <1>0 DEF DropStrong, DropRef, storeVars, hostVars, threadVars, ThreadRefs, DataTypes
<1>15. ASSUME NEW t \in Threads, Return(t)
      PROVE  ThreadRefs'
  BY <1>15, <1>0 DEF Return, Finish, storeVars, hostVars, threadVars, ThreadRefs, DataTypes
<1>16. ASSUME NEW n \in Inodes, ForgetOne(n)
      PROVE  UNCHANGED <<pc, path, arc, strong, parent>>
  BY <1>16 DEF ForgetOne, Remove, storeVars, hostVars, threadVars
<1>17. ASSUME NEW n \in Inodes, NEW c \in 1..guest[n], Forget(n, c)
      PROVE  UNCHANGED <<pc, path, arc, strong, parent>>
  BY <1>17 DEF Forget, storeVars, hostVars, threadVars
<1>18. ASSUME NEW S \in SUBSET Inodes, BatchForget(S)
      PROVE  UNCHANGED <<pc, path, arc, strong, parent>>
  BY <1>18 DEF BatchForget, storeVars, hostVars, threadVars
<1>19. ASSUME PrepareSerialization
      PROVE  UNCHANGED <<pc, path, arc, strong, parent>>
  BY <1>19 DEF PrepareSerialization, ClearMigrationInfo, storeVars, hostVars, threadVars
<1>20. ASSUME Serialize
      PROVE  UNCHANGED <<pc, path, arc, strong, parent>>
  BY <1>20 DEF Serialize, ClearMigrationInfo, storeVars, hostVars, threadVars
<1>21. ASSUME Destroy
      PROVE  UNCHANGED <<pc, path, arc, strong, parent>>
  BY <1>21 DEF Destroy, storeVars, hostVars, threadVars
<1>22. ASSUME InitFs
      PROVE  UNCHANGED <<pc, path, arc, strong, parent>>
  BY <1>22 DEF InitFs, storeVars, hostVars, threadVars
<1>23. ASSUME NEW f \in Files, HostCreate(f)
      PROVE  UNCHANGED <<pc, path, arc, strong, parent>>
  BY <1>23 DEF HostCreate, storeVars, hostVars, threadVars
<1>24. ASSUME NEW f \in Files, HostUnlink(f)
      PROVE  UNCHANGED <<pc, path, arc, strong, parent>>
  BY <1>24 DEF HostUnlink, storeVars, hostVars, threadVars
<1>25. ASSUME UNCHANGED vars
      PROVE  UNCHANGED <<pc, path, arc, strong, parent>>
  BY <1>25 DEF vars, storeVars, hostVars, threadVars
<1>30. CASE UNCHANGED <<pc, path, arc, strong, parent>>
  BY <1>0, <1>30 DEF ThreadRefs
<1> QED
  BY <1>1, <1>2, <1>3, <1>4, <1>5, <1>6, <1>7, <1>8, <1>9, <1>10, <1>11, <1>12, <1>13, <1>14, <1>15, <1>16, <1>17, <1>18, <1>19, <1>20, <1>21, <1>22, <1>23, <1>24, <1>25, <1>30 DEF Next, ThreadStep

-----------------------------------------------------------------------------
(* Reference counts.                                                       *)

\* RefAccounting of one inode.
Accounted(n) ==
    refcount[n] = guest[n] + Count(strong, n) + Count(parent, n)
                    + Count(parentRef, n) + todo[n]

\* The references of each kind are finitely many.
LEMMA CountTypes ==
    ASSUME DataTypes, NEW n
    PROVE  Count(strong, n) \in Nat /\ Count(parent, n) \in Nat /\ Count(parentRef, n) \in Nat
BY CountType, BoundAssumption, InodesFinite, Zenon DEF DataTypes

\* g is f with the value at x changed to v.
Rebound(f, g, x, v) ==
    /\ DOMAIN g = DOMAIN f
    /\ g[x] = v
    /\ \A y \in DOMAIN f \ {x} : g[y] = f[y]

\* A thread takes, hands over or drops its reference.
LEMMA StrongUpdate ==
    ASSUME DataTypes, NEW t \in Threads, NEW v, Rebound(strong, strong', t, v), NEW n
    PROVE  Count(strong', n) = Count(strong, n) - (IF strong[t] = n THEN 1 ELSE 0)
                                 + (IF v = n THEN 1 ELSE 0)
<1>1. IsFiniteSet(Threads) /\ DOMAIN strong = Threads
  BY BoundAssumption DEF DataTypes
<1>2. PICK g : g = strong'
  OBVIOUS
<1>3. DOMAIN g = Threads /\ g[t] = v /\ \A u \in Threads \ {t} : g[u] = strong[u]
  BY <1>1, <1>2 DEF Rebound
<1>4. Count(g, n)
        = Count(strong, n) - (IF strong[t] = n THEN 1 ELSE 0) + (IF g[t] = n THEN 1 ELSE 0)
  BY <1>1, <1>3, CountUpdate
<1> QED
  BY <1>2, <1>3, <1>4

\* The same for its reference to a parent.
LEMMA ParentUpdate ==
    ASSUME DataTypes, NEW t \in Threads, NEW v, Rebound(parent, parent', t, v), NEW n
    PROVE  Count(parent', n) = Count(parent, n) - (IF parent[t] = n THEN 1 ELSE 0)
                                 + (IF v = n THEN 1 ELSE 0)
<1>1. IsFiniteSet(Threads) /\ DOMAIN parent = Threads
  BY BoundAssumption DEF DataTypes
<1>2. PICK g : g = parent'
  OBVIOUS
<1>3. DOMAIN g = Threads /\ g[t] = v /\ \A u \in Threads \ {t} : g[u] = parent[u]
  BY <1>1, <1>2 DEF Rebound
<1>4. Count(g, n)
        = Count(parent, n) - (IF parent[t] = n THEN 1 ELSE 0) + (IF g[t] = n THEN 1 ELSE 0)
  BY <1>1, <1>3, CountUpdate
<1> QED
  BY <1>2, <1>3, <1>4

\* The same for the reference in an inode's migration info.
LEMMA InfoUpdate ==
    ASSUME DataTypes, NEW m \in Inodes, NEW v, Rebound(parentRef, parentRef', m, v), NEW n
    PROVE  Count(parentRef', n) = Count(parentRef, n) - (IF parentRef[m] = n THEN 1 ELSE 0)
                                 + (IF v = n THEN 1 ELSE 0)
<1>1. IsFiniteSet(Inodes) /\ DOMAIN parentRef = Inodes
  BY InodesFinite DEF DataTypes
<1>2. PICK g : g = parentRef'
  OBVIOUS
<1>3. DOMAIN g = Inodes /\ g[m] = v /\ \A k \in Inodes \ {m} : g[k] = parentRef[k]
  BY <1>1, <1>2 DEF Rebound
<1>4. Count(g, n)
        = Count(parentRef, n) - (IF parentRef[m] = n THEN 1 ELSE 0) + (IF g[m] = n THEN 1 ELSE 0)
  BY <1>1, <1>3, CountUpdate
<1> QED
  BY <1>2, <1>3, <1>4

\* In particular, a thread that owns none takes one ...
LEMMA StrongTaken ==
    ASSUME DataTypes, NEW t \in Threads, NEW v, strong[t] = NoInode,
           Rebound(strong, strong', t, v), NEW n \in Inodes
    PROVE  Count(strong', n) = Count(strong, n) + (IF v = n THEN 1 ELSE 0)
<1>1. Count(strong, n) \in Nat /\ NoInode # n
  BY CountTypes, InodeSets
<1>2. Count(strong', n) = Count(strong, n) - (IF strong[t] = n THEN 1 ELSE 0) + (IF v = n THEN 1 ELSE 0)
  BY StrongUpdate
<1> QED
  BY <1>1, <1>2

\* ... or gives up the one it owns.
LEMMA StrongDropped ==
    ASSUME DataTypes, NEW t \in Threads, Rebound(strong, strong', t, NoInode), NEW n \in Inodes
    PROVE  Count(strong', n) = Count(strong, n) - (IF strong[t] = n THEN 1 ELSE 0)
<1>1. Count(strong, n) \in Nat /\ NoInode # n
  BY CountTypes, InodeSets
<1>2. Count(strong', n) = Count(strong, n) - (IF strong[t] = n THEN 1 ELSE 0) + (IF NoInode = n THEN 1 ELSE 0)
  BY StrongUpdate
<1> QED
  BY <1>1, <1>2

\* The same for its reference to a parent: it takes one ...
LEMMA ParentTaken ==
    ASSUME DataTypes, NEW t \in Threads, NEW v, parent[t] = NoInode,
           Rebound(parent, parent', t, v), NEW n \in Inodes
    PROVE  Count(parent', n) = Count(parent, n) + (IF v = n THEN 1 ELSE 0)
<1>1. Count(parent, n) \in Nat /\ NoInode # n
  BY CountTypes, InodeSets
<1>2. Count(parent', n) = Count(parent, n) - (IF parent[t] = n THEN 1 ELSE 0) + (IF v = n THEN 1 ELSE 0)
  BY ParentUpdate
<1> QED
  BY <1>1, <1>2

\* ... or gives it up.
LEMMA ParentDropped ==
    ASSUME DataTypes, NEW t \in Threads, Rebound(parent, parent', t, NoInode), NEW n \in Inodes
    PROVE  Count(parent', n) = Count(parent, n) - (IF parent[t] = n THEN 1 ELSE 0)
<1>1. Count(parent, n) \in Nat /\ NoInode # n
  BY CountTypes, InodeSets
<1>2. Count(parent', n) = Count(parent, n) - (IF parent[t] = n THEN 1 ELSE 0) + (IF NoInode = n THEN 1 ELSE 0)
  BY ParentUpdate
<1> QED
  BY <1>1, <1>2

\* clear_migration_info() turns every reference it takes into one forget_one().
LEMMA ClearedRefs ==
    ASSUME DataTypes, ClearMigrationInfo, NEW n \in Inodes
    PROVE  /\ Count(parentRef', n) + todo'[n] = Count(parentRef, n)
           /\ Count(parentRef', n) \in Nat /\ todo'[n] \in Nat
<1> USE InodeSets
<1> DEFINE A == {m \in Inodes : parentRef[m] = n}
           B == {m \in Inodes \ {ROOT_ID} : parentRef[m] = n}
           C == {m \in Inodes : parentRef'[m] = n}
<1>1. IsFiniteSet(A) /\ IsFiniteSet(B) /\ IsFiniteSet(C)
  BY InodesFinite, FS_Subset
<1>2. Count(parentRef, n) = Cardinality(A) /\ Count(parentRef', n) = Cardinality(C)
  BY DEF Count, ClearMigrationInfo, DataTypes
<1>3. todo'[n] = Cardinality(B)
  BY DEF ClearMigrationInfo
<1>4. A = B \cup C /\ B \cap C = {}
  BY DEF ClearMigrationInfo
<1>5. Cardinality(A) = Cardinality(B) + Cardinality(C) - Cardinality({})
  BY <1>1, <1>4, FS_Union
<1>6. Cardinality({}) = 0 /\ Cardinality(B) \in Nat /\ Cardinality(C) \in Nat
  BY <1>1, FS_EmptySet, FS_CardinalityType
<1> QED
  BY <1>2, <1>3, <1>5, <1>6

\* Every step keeps the reference counts equal to the references that exist.
LEMMA AccountingStep == IInv /\ [Next]_vars => RefAccounting'
<1> SUFFICES ASSUME IInv, [Next]_vars, NEW n \in Inodes PROVE Accounted(n)'
  BY DEF RefAccounting, Accounted
<1> USE InodeSets
<1>0. DataTypes /\ ThreadRefs /\ FreshIds /\ LiveWhileReferenced /\ NoInfoLeft /\ RefAccounting
  BY DEF IInv, TypeOK
<1>a. /\ strong \in [Threads -> InodeOpt] /\ parent \in [Threads -> InodeOpt]
      /\ parentRef \in [Inodes -> InodeOpt]
      /\ refcount \in [Inodes -> Nat] /\ guest \in [Inodes -> Nat] /\ todo \in [Inodes -> Nat]
  BY <1>0 DEF DataTypes
<1>b. /\ Accounted(n)
      /\ Count(strong, n) \in Nat /\ Count(parent, n) \in Nat /\ Count(parentRef, n) \in Nat
  BY <1>0, CountTypes DEF RefAccounting, Accounted
<1>1. ASSUME NEW t \in Threads, NEW p \in Inodes, NEW f \in Files, Lookup(t, p, f)
      PROVE  Accounted(n)'
  BY <1>1, <1>b DEF Lookup, OpenName, storeVars, hostVars, threadVars, Accounted
<1>2. ASSUME NEW t \in Threads, NEW p \in Inodes, NEW f \in Files, TryLookup(t, p, f)
      PROVE  Accounted(n)'
  BY <1>2, <1>b DEF TryLookup, OpenName, storeVars, hostVars, threadVars, Accounted
<1>3. ASSUME NEW t \in Threads, ClaimInode(t)
      PROVE  Accounted(n)'
  <2>1. CASE strong' = strong /\ refcount' = refcount
    BY <1>3, <1>b, <2>1 DEF ClaimInode, hostVars, Accounted
  <2>2. CASE Increment(Claimed(path[t])) /\ strong' = [strong EXCEPT ![t] = Claimed(path[t])]
    <3>1. strong[t] = NoInode
      BY <1>3, <1>0 DEF ClaimInode, ThreadRefs
    <3>2. Count(strong', n) = Count(strong, n) + (IF Claimed(path[t]) = n THEN 1 ELSE 0)
      <4>1. Rebound(strong, strong', t, Claimed(path[t]))
        BY <1>a, <2>2, <3>1 DEF Rebound
      <4> QED
        BY <1>0, <3>1, <4>1, StrongTaken
    <3> QED
      BY <1>3, <1>a, <1>b, <2>2, <3>2 DEF ClaimInode, Increment, Accounted
  <2> QED
    BY <1>3, <2>1, <2>2 DEF ClaimInode
<1>4. ASSUME NEW t \in Threads, BuildInode(t)
      PROVE  Accounted(n)'
  <2>1. CASE parent' = parent /\ refcount' = refcount
    BY <1>4, <1>b, <2>1 DEF BuildInode, hostVars, Accounted
  <2>2. CASE Increment(arc[t]) /\ parent' = [parent EXCEPT ![t] = arc[t]]
    <3>1. parent[t] = NoInode
      BY <1>4, <1>0 DEF BuildInode, ThreadRefs
    <3>2. Count(parent', n) = Count(parent, n) + (IF arc[t] = n THEN 1 ELSE 0)
      <4>1. Rebound(parent, parent', t, arc[t])
        BY <1>a, <2>2, <3>1 DEF Rebound
      <4> QED
        BY <1>0, <3>1, <4>1, ParentTaken
    <3> QED
      BY <1>4, <1>a, <1>b, <2>2, <3>2 DEF BuildInode, Increment, Accounted
  <2> QED
    BY <1>4, <2>1, <2>2 DEF BuildInode
<1>5. ASSUME NEW t \in Threads, DrawId(t)
      PROVE  Accounted(n)'
  BY <1>5, <1>b DEF DrawId, storeVars, hostVars, threadVars, Accounted
<1>6. ASSUME NEW t \in Threads, GetOrInsert(t)
      PROVE  Accounted(n)'
  <2>0. strong[t] = NoInode
    BY <1>6, <1>0 DEF GetOrInsert, ThreadRefs
  <2>1. CASE UNCHANGED <<refcount, parentRef, todo, strong, parent>>
    BY <1>6, <1>b, <2>1 DEF GetOrInsert, Accounted
  <2>2. CASE /\ Increment(Claimed(path[t]))
             /\ strong' = [strong EXCEPT ![t] = Claimed(path[t])]
             /\ UNCHANGED <<parentRef, todo, parent>>
    <3>2. Count(strong', n) = Count(strong, n) + (IF Claimed(path[t]) = n THEN 1 ELSE 0)
      <4>1. Rebound(strong, strong', t, Claimed(path[t]))
        BY <1>a, <2>0, <2>2, SMTT(30) DEF Rebound
      <4> QED
        BY <1>0, <2>0, <4>1, StrongTaken
    <3> QED
      BY <1>6, <1>a, <1>b, <2>2, <3>2 DEF GetOrInsert, Increment, Accounted
  <2>3. CASE /\ InsertNew(newid[t], path[t], 1, parent[t])
             /\ strong' = [strong EXCEPT ![t] = newid[t]]
             /\ parent' = [parent EXCEPT ![t] = NoInode]
    <3>1. newid[t] \in Inodes /\ refcount[newid[t]] = 0 /\ parentRef[newid[t]] = NoInode
      BY <1>6, <1>0, <1>a, FreshType DEF GetOrInsert, FreshIds, LiveWhileReferenced, NoInfoLeft
    <3>2. Count(strong', n) = Count(strong, n) + (IF newid[t] = n THEN 1 ELSE 0)
      <4>1. Rebound(strong, strong', t, newid[t])
        BY <1>a, <2>0, <2>3 DEF Rebound
      <4> QED
        BY <1>0, <2>0, <4>1, StrongTaken
    <3>3. Count(parent', n) = Count(parent, n) - (IF parent[t] = n THEN 1 ELSE 0)
      <4>1. Rebound(parent, parent', t, NoInode)
        BY <1>a, <2>3 DEF Rebound
      <4> QED
        BY <1>0, <4>1, ParentDropped
    <3>4. Count(parentRef', n) = Count(parentRef, n) + (IF parent[t] = n THEN 1 ELSE 0)
      <4>1. PICK m \in Inodes : m = newid[t]
        BY <3>1, Zenon
      <4>2. Rebound(parentRef, parentRef', m, parent[t])
        BY <1>a, <2>3, <3>1, <4>1 DEF InsertNew, Rebound
      <4>3. Count(parentRef', n) = Count(parentRef, n) - (IF parentRef[m] = n THEN 1 ELSE 0)
                                       + (IF parent[t] = n THEN 1 ELSE 0)
        BY <1>0, <4>2, InfoUpdate
      <4> QED
        BY <1>b, <3>1, <4>1, <4>3
    <3>5. refcount'[n] = refcount[n] + (IF newid[t] = n THEN 1 ELSE 0)
      BY <1>a, <2>3, <3>1 DEF InsertNew
    <3>6. UNCHANGED <<guest, todo>>
      BY <1>6, <2>3 DEF GetOrInsert, InsertNew
    <3> QED
      BY <1>a, <1>b, <3>2, <3>3, <3>4, <3>5, <3>6 DEF Accounted
  <2> QED
    BY <1>6, <2>1, <2>2, <2>3 DEF GetOrInsert, storeVars
<1>7. ASSUME NEW t \in Threads, AttrError(t)
      PROVE  Accounted(n)'
  BY <1>7, <1>b DEF AttrError, storeVars, hostVars, threadVars, Accounted
<1>8. ASSUME NEW t \in Threads, ReplyEntry(t)
      PROVE  Accounted(n)'
  <2>1. strong[t] \in Inodes
    BY <1>8, <1>0, <1>a DEF ReplyEntry, ThreadRefs
  <2>2. Count(strong', n) = Count(strong, n) - (IF strong[t] = n THEN 1 ELSE 0)
    <3>1. Rebound(strong, strong', t, NoInode)
      BY <1>8, <1>a DEF ReplyEntry, Rebound
    <3> QED
      BY <1>0, <3>1, StrongDropped
  <2>3. guest'[n] = guest[n] + (IF strong[t] = n THEN 1 ELSE 0)
    BY <1>8, <1>a, <2>1 DEF ReplyEntry
  <2> QED
    BY <1>8, <1>a, <1>b, <2>2, <2>3 DEF ReplyEntry, storeVars, Accounted
<1>9. ASSUME NEW t \in Threads, ReleaseRef(t)
      PROVE  Accounted(n)'
  BY <1>9, <1>b DEF ReleaseRef, storeVars, hostVars, threadVars, Accounted
<1>10. ASSUME NEW t \in Threads, TakeInfo(t)
      PROVE  Accounted(n)'
  <2>1. strong[t] \in Inodes /\ parent[t] = NoInode
    BY <1>10, <1>0, <1>a DEF TakeInfo, ThreadRefs
  <2>2. Count(parent', n) = Count(parent, n) + (IF parentRef[strong[t]] = n THEN 1 ELSE 0)
    <3>1. Rebound(parent, parent', t, parentRef[strong[t]])
      BY <1>10, <1>a, <2>1 DEF TakeInfo, Rebound
    <3> QED
      BY <1>0, <2>1, <3>1, ParentTaken
  <2>3. Count(parentRef', n) = Count(parentRef, n) - (IF parentRef[strong[t]] = n THEN 1 ELSE 0)
    <3>1. PICK m \in Inodes : m = strong[t]
      BY <2>1, Zenon
    <3>2. Rebound(parentRef, parentRef', m, NoInode)
      BY <1>10, <1>a, <2>1, <3>1 DEF TakeInfo, Rebound
    <3>3. Count(parentRef', n) = Count(parentRef, n) - (IF parentRef[m] = n THEN 1 ELSE 0)
                                     + (IF NoInode = n THEN 1 ELSE 0)
      BY <1>0, <3>2, InfoUpdate
    <3> QED
      BY <1>b, <2>1, <3>1, <3>3
  <2> QED
    BY <1>10, <1>a, <1>b, <2>2, <2>3 DEF TakeInfo, Accounted
<1>11. ASSUME NEW t \in Threads, TakeParent(t)
      PROVE  Accounted(n)'
  <2>1. CASE parent' = parent /\ refcount' = refcount
    BY <1>11, <1>b, <2>1 DEF TakeParent, Accounted
  <2>2. CASE Increment(arc[t]) /\ parent' = [parent EXCEPT ![t] = arc[t]]
    <3>1. parent[t] = NoInode
      BY <1>11, <1>0 DEF TakeParent, ThreadRefs
    <3>2. Count(parent', n) = Count(parent, n) + (IF arc[t] = n THEN 1 ELSE 0)
      <4>1. Rebound(parent, parent', t, arc[t])
        BY <1>a, <2>2, <3>1 DEF Rebound
      <4> QED
        BY <1>0, <3>1, <4>1, ParentTaken
    <3> QED
      BY <1>11, <1>a, <1>b, <2>2, <3>2 DEF TakeParent, Increment, Accounted
  <2> QED
    BY <1>11, <2>1, <2>2 DEF TakeParent
<1>12. ASSUME NEW t \in Threads, SetInfo(t)
      PROVE  Accounted(n)'
  <2>1. strong[t] \in Inodes /\ todo[n] = 0
    BY <1>12, <1>0, <1>a DEF SetInfo, ThreadRefs, Unlocked
  <2>2. Count(parent', n) = Count(parent, n) - (IF parent[t] = n THEN 1 ELSE 0)
    <3>1. Rebound(parent, parent', t, NoInode)
      BY <1>12, <1>a, <2>1 DEF SetInfo, Rebound
    <3> QED
      BY <1>0, <2>1, <3>1, ParentDropped
  <2>3. Count(parentRef', n) = Count(parentRef, n) - (IF parentRef[strong[t]] = n THEN 1 ELSE 0)
                                 + (IF parent[t] = n THEN 1 ELSE 0)
    <3>1. PICK m \in Inodes : m = strong[t]
      BY <2>1, Zenon
    <3>2. Rebound(parentRef, parentRef', m, parent[t])
      BY <1>12, <1>a, <2>1, <3>1 DEF SetInfo, Rebound
    <3>3. Count(parentRef', n) = Count(parentRef, n) - (IF parentRef[m] = n THEN 1 ELSE 0)
                                     + (IF parent[t] = n THEN 1 ELSE 0)
      BY <1>0, <3>2, InfoUpdate
    <3> QED
      BY <1>b, <2>1, <3>1, <3>3
  <2>4. todo'[n] = IF parentRef[strong[t]] = n THEN 1 ELSE 0
    BY <1>12 DEF SetInfo
  <2> QED
    BY <1>12, <1>a, <1>b, <2>1, <2>2, <2>3, <2>4 DEF SetInfo, Accounted
<1>13. ASSUME NEW t \in Threads, DropParent(t)
      PROVE  Accounted(n)'
  <2>1. todo[n] = 0 /\ todo'[n] = IF parent[t] = n THEN 1 ELSE 0
    BY <1>13, <1>a DEF DropParent, DropRef, Unlocked
  <2>2. Count(parent', n) = Count(parent, n) - (IF parent[t] = n THEN 1 ELSE 0)
    <3>1. Rebound(parent, parent', t, NoInode)
      BY <1>13, <1>a DEF DropParent, Rebound
    <3> QED
      BY <1>0, <3>1, ParentDropped
  <2> QED
    BY <1>13, <1>a, <1>b, <2>1, <2>2 DEF DropParent, DropRef, Accounted
<1>14. ASSUME NEW t \in Threads, DropStrong(t)
      PROVE  Accounted(n)'
  <2>1. todo[n] = 0 /\ todo'[n] = IF strong[t] = n THEN 1 ELSE 0
    BY <1>14, <1>a DEF DropStrong, DropRef, Unlocked
  <2>2. Count(strong', n) = Count(strong, n) - (IF strong[t] = n THEN 1 ELSE 0)
    <3>1. Rebound(strong, strong', t, NoInode)
      BY <1>14, <1>a DEF DropStrong, Rebound
    <3> QED
      BY <1>0, <3>1, StrongDropped
  <2> QED
    BY <1>14, <1>a, <1>b, <2>1, <2>2 DEF DropStrong, DropRef, Accounted
<1>15. ASSUME NEW t \in Threads, Return(t)
      PROVE  Accounted(n)'
  BY <1>15, <1>b DEF Return, Finish, storeVars, hostVars, threadVars, Accounted
<1>16. ASSUME NEW m \in Inodes, ForgetOne(m)
      PROVE  Accounted(n)'
  <2>1. m \in data /\ refcount[m] >= todo[m]
    BY <1>16, <1>0, <1>a, CountTypes DEF ForgetOne, LiveWhileReferenced, RefAccounting
  <2>2. refcount'[n] = refcount[n] - (IF n = m THEN todo[m] ELSE 0)
    BY <1>16, <1>a, <2>1 DEF ForgetOne
  <2>3. CASE refcount[m] > todo[m]
    <3>1. todo'[n] = todo[n] - (IF n = m THEN todo[m] ELSE 0) /\ parentRef' = parentRef
      BY <1>16, <1>a, <2>1, <2>3 DEF ForgetOne
    <3> QED
      BY <1>16, <1>a, <1>b, <2>2, <3>1 DEF ForgetOne, threadVars, Accounted
  <2>4. CASE refcount[m] = todo[m]
    <3>1. Remove(m)
      BY <1>16, <1>a, <2>1, <2>4 DEF ForgetOne
    <3>2. Count(parentRef, m) = 0
      BY <1>16, <1>0, <1>a, <2>4, CountTypes DEF RefAccounting
    <3>3. parentRef[m] # m
      BY <1>a, <3>2, CountZero, InodesFinite
    <3>4. Count(parentRef', n) = Count(parentRef, n) - (IF parentRef[m] = n THEN 1 ELSE 0)
      <4>1. Rebound(parentRef, parentRef', m, NoInode)
        BY <1>16, <1>a, <3>1 DEF Remove, Rebound
      <4> QED
        BY <1>0, <1>b, <3>1, <4>1, InfoUpdate
    <3>5. todo'[n] = todo[n] - (IF n = m THEN todo[m] ELSE 0)
                       + (IF parentRef[m] = n THEN 1 ELSE 0)
      BY <1>a, <3>1, <3>3 DEF Remove
    <3> QED
      BY <1>16, <1>a, <1>b, <2>2, <3>4, <3>5 DEF ForgetOne, threadVars, Accounted
  <2> QED
    BY <1>a, <2>1, <2>3, <2>4
<1>17. ASSUME NEW m \in Inodes, NEW c \in 1..guest[m], Forget(m, c)
      PROVE  Accounted(n)'
  <2>1. todo[n] = 0 /\ guest[n] = guest'[n] + todo'[n]
    BY <1>17, <1>a DEF Forget, Unlocked
  <2> QED
    BY <1>17, <1>a, <1>b, <2>1 DEF Forget, threadVars, Accounted
<1>18. ASSUME NEW S \in SUBSET Inodes, BatchForget(S)
      PROVE  Accounted(n)'
  <2>1. todo[n] = 0 /\ guest[n] = guest'[n] + todo'[n]
    BY <1>18, <1>a DEF BatchForget, Unlocked
  <2> QED
    BY <1>18, <1>a, <1>b, <2>1 DEF BatchForget, threadVars, Accounted
<1>19. ASSUME PrepareSerialization
      PROVE  Accounted(n)'
  <2>1. /\ todo[n] = 0
        /\ Count(parentRef', n) + todo'[n] = Count(parentRef, n)
        /\ Count(parentRef', n) \in Nat /\ todo'[n] \in Nat
    BY <1>19, <1>0, ClearedRefs DEF PrepareSerialization, ClearMigrationInfo, Unlocked
  <2> QED
    BY <1>19, <1>a, <1>b, <2>1 DEF PrepareSerialization, ClearMigrationInfo, threadVars, Accounted
<1>20. ASSUME Serialize
      PROVE  Accounted(n)'
  <2>1. /\ todo[n] = 0
        /\ Count(parentRef', n) + todo'[n] = Count(parentRef, n)
        /\ Count(parentRef', n) \in Nat /\ todo'[n] \in Nat
    BY <1>20, <1>0, ClearedRefs DEF Serialize, ClearMigrationInfo, Unlocked
  <2> QED
    BY <1>20, <1>a, <1>b, <2>1 DEF Serialize, ClearMigrationInfo, threadVars, Accounted
<1>21. ASSUME Destroy
      PROVE  Accounted(n)'
  <2>1. todo'[n] = 0 /\ refcount'[n] = guest'[n] /\ guest'[n] \in Nat
    BY <1>21, <1>a DEF Destroy, Unlocked
  <2>2. Count(strong', n) = 0 /\ Count(parent', n) = 0
    <3>1. \A t \in Threads : strong'[t] # n /\ parent'[t] # n
      BY <1>21, <1>0, <1>a, Zenon DEF Destroy, threadVars, ThreadRefs
    <3> QED
      BY <1>21, <1>a, <3>1, CountZero, BoundAssumption DEF Destroy, threadVars
  <2>3. Count(parentRef', n) = 0
    BY <1>21, CountZero, InodesFinite, ZenonT(40) DEF Destroy
  <2> QED
    BY <2>1, <2>2, <2>3 DEF Accounted
<1>22. ASSUME InitFs
      PROVE  Accounted(n)'
  <2>1. todo'[n] = 0 /\ refcount'[n] = guest'[n] /\ guest'[n] \in Nat
    BY <1>22, <1>a, Zenon DEF InitFs, Unlocked
  <2>2. Count(strong', n) = 0 /\ Count(parent', n) = 0
    <3>1. \A t \in Threads : strong'[t] # n /\ parent'[t] # n
      BY <1>22, <1>0, <1>a DEF InitFs, threadVars, ThreadRefs
    <3> QED
      BY <1>22, <1>a, <3>1, CountZero, BoundAssumption DEF InitFs, threadVars
  <2>3. Count(parentRef', n) = 0
    BY <1>22, CountZero, InodesFinite, Zenon DEF InitFs
  <2> QED
    BY <2>1, <2>2, <2>3 DEF Accounted
<1>23. ASSUME NEW f \in Files, HostCreate(f)
      PROVE  Accounted(n)'
  BY <1>23, <1>b, Zenon DEF HostCreate, storeVars, hostVars, threadVars, Accounted
<1>24. ASSUME NEW f \in Files, HostUnlink(f)
      PROVE  Accounted(n)'
  BY <1>24, <1>b DEF HostUnlink, storeVars, hostVars, threadVars, Accounted
<1>25. ASSUME UNCHANGED vars
      PROVE  Accounted(n)'
  BY <1>25, <1>b DEF vars, storeVars, hostVars, threadVars, Accounted
<1> QED
  BY <1>1, <1>2, <1>3, <1>4, <1>5, <1>6, <1>7, <1>8, <1>9, <1>10, <1>11, <1>12, <1>13, <1>14, <1>15, <1>16, <1>17, <1>18, <1>19, <1>20, <1>21, <1>22, <1>23, <1>24, <1>25 DEF Next, ThreadStep
=============================================================================
