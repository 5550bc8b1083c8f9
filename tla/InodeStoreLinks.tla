-------------------------- MODULE InodeStoreLinks ---------------------------
(***************************************************************************)
(* What is in the inode store, and what of the host's state a step keeps.  *)
(***************************************************************************)
EXTENDS InodeStoreRefs

-----------------------------------------------------------------------------
(* What is in the store.                                                   *)

\* Every step keeps exactly the referenced inodes in the store.
LEMMA LiveStep == IInv /\ [Next]_vars => LiveWhileReferenced'
<1> SUFFICES ASSUME IInv, [Next]_vars PROVE LiveWhileReferenced'
  OBVIOUS
<1> USE InodeSets
<1>0. DataTypes /\ LiveWhileReferenced /\ FreshIds
  BY DEF IInv, TypeOK
<1>a. /\ data \subseteq Inodes
      /\ refcount \in [Inodes -> Nat]
      /\ todo \in [Inodes -> Nat]
  BY <1>0 DEF DataTypes
<1>1. ASSUME NEW t \in Threads, ClaimInode(t)
      PROVE  LiveWhileReferenced'
  <2>1. CASE UNCHANGED refcount
    BY <1>1, <1>0, <2>1 DEF ClaimInode, LiveWhileReferenced
  <2>2. CASE Increment(Claimed(path[t]))
    BY <1>1, <1>0, <1>a, <2>2 DEF ClaimInode, Increment, Alive, LiveWhileReferenced
  <2> QED
    BY <1>1, <2>1, <2>2 DEF ClaimInode
<1>2. ASSUME NEW t \in Threads, BuildInode(t)
      PROVE  LiveWhileReferenced'
  <2>1. CASE UNCHANGED refcount
    BY <1>2, <1>0, <2>1 DEF BuildInode, LiveWhileReferenced
  <2>2. CASE Increment(arc[t])
    BY <1>2, <1>0, <1>a, <2>2 DEF BuildInode, Increment, Alive, LiveWhileReferenced
  <2> QED
    BY <1>2, <2>1, <2>2 DEF BuildInode
<1>3. ASSUME NEW t \in Threads, GetOrInsert(t)
      PROVE  LiveWhileReferenced'
  <2>1. CASE UNCHANGED <<data, refcount>>
    BY <1>0, <2>1 DEF LiveWhileReferenced
  <2>2. CASE UNCHANGED data /\ Increment(Claimed(path[t]))
    BY <1>0, <1>a, <2>2 DEF Increment, Alive, LiveWhileReferenced
  <2>3. CASE InsertNew(newid[t], path[t], 1, parent[t])
    <3>1. newid[t] \in Inodes
      BY <1>3, <1>0, FreshType DEF GetOrInsert
    <3> QED
      BY <1>0, <1>a, <2>3, <3>1 DEF InsertNew, LiveWhileReferenced
  <2> QED
    BY <1>3, <2>1, <2>2, <2>3 DEF GetOrInsert, storeVars
<1>4. ASSUME NEW t \in Threads, TakeParent(t)
      PROVE  LiveWhileReferenced'
  <2>1. CASE UNCHANGED refcount
    BY <1>4, <1>0, <2>1 DEF TakeParent, LiveWhileReferenced
  <2>2. CASE Increment(arc[t])
    BY <1>4, <1>0, <1>a, <2>2 DEF TakeParent, Increment, Alive, LiveWhileReferenced
  <2> QED
    BY <1>4, <2>1, <2>2 DEF TakeParent
<1>5. ASSUME NEW n \in Inodes, ForgetOne(n)
      PROVE  LiveWhileReferenced'
  <2>1. CASE n \notin data
    BY <1>5, <1>0, <2>1 DEF ForgetOne, LiveWhileReferenced
  <2>2. CASE n \in data /\ refcount[n] > todo[n]
    BY <1>5, <1>0, <1>a, <2>2 DEF ForgetOne, LiveWhileReferenced
  <2>3. CASE n \in data /\ ~(refcount[n] > todo[n])
    BY <1>5, <1>0, <1>a, <2>3 DEF ForgetOne, Remove, LiveWhileReferenced
  <2> QED
    BY <2>1, <2>2, <2>3
<1>6. ASSUME Destroy
      PROVE  LiveWhileReferenced'
  BY <1>6, <1>0, <1>a DEF Destroy, storeVars, hostVars, threadVars, LiveWhileReferenced
<1>7. ASSUME InitFs
      PROVE  LiveWhileReferenced'
  BY <1>7, <1>0, <1>a DEF InitFs, storeVars, hostVars, threadVars, LiveWhileReferenced
<1>8. ASSUME NEW t \in Threads, NEW p \in Inodes, NEW f \in Files, Lookup(t, p, f)
      PROVE  UNCHANGED <<data, refcount>>
  BY <1>8 DEF Lookup, OpenName, storeVars, hostVars, threadVars
<1>9. ASSUME NEW t \in Threads, NEW p \in Inodes, NEW f \in Files, TryLookup(t, p, f)
      PROVE  UNCHANGED <<data, refcount>>
  BY <1>9 DEF TryLookup, OpenName, storeVars, hostVars, threadVars
<1>10. ASSUME NEW t \in Threads, DrawId(t)
      PROVE  UNCHANGED <<data, refcount>>
  BY <1>10 DEF DrawId, storeVars, hostVars, threadVars
<1>11. ASSUME NEW t \in Threads, AttrError(t)
      PROVE  UNCHANGED <<data, refcount>>
  BY <1>11 DEF AttrError, storeVars, hostVars, threadVars
<1>12. ASSUME NEW t \in Threads, ReplyEntry(t)
      PROVE  UNCHANGED <<data, refcount>>
  BY <1>12 DEF ReplyEntry, Finish, storeVars, hostVars, threadVars
<1>13. ASSUME NEW t \in Threads, ReleaseRef(t)
      PROVE  UNCHANGED <<data, refcount>>
  BY <1>13 DEF ReleaseRef, storeVars, hostVars, threadVars
<1>14. ASSUME NEW t \in Threads, TakeInfo(t)
      PROVE  UNCHANGED <<data, refcount>>
  BY <1>14 DEF TakeInfo, storeVars, hostVars, threadVars
<1>15. ASSUME NEW t \in Threads, SetInfo(t)
      PROVE  UNCHANGED <<data, refcount>>
  BY <1>15 DEF SetInfo, storeVars, hostVars, threadVars
<1>16. ASSUME NEW t \in Threads, DropParent(t)
      PROVE  UNCHANGED <<data, refcount>>
  BY <1>16 DEF DropParent, DropRef, storeVars, hostVars, threadVars
<1>17. ASSUME NEW t \in Threads, DropStrong(t)
      PROVE  UNCHANGED <<data, refcount>>
  BY <1>17 DEF DropStrong, DropRef, storeVars, hostVars, threadVars
<1>18. ASSUME NEW t \in Threads, Return(t)
      PROVE  UNCHANGED <<data, refcount>>
  BY <1>18 DEF Return, Finish, storeVars, hostVars, threadVars
<1>19. ASSUME NEW n \in Inodes, NEW c \in 1..guest[n], Forget(n, c)
      PROVE  UNCHANGED <<data, refcount>>
  BY <1>19 DEF Forget, storeVars, hostVars, threadVars
<1>20. ASSUME NEW S \in SUBSET Inodes, BatchForget(S)
      PROVE  UNCHANGED <<data, refcount>>
  BY <1>20 DEF BatchForget, storeVars, hostVars, threadVars
<1>21. ASSUME PrepareSerialization
      PROVE  UNCHANGED <<data, refcount>>
  BY <1>21 DEF PrepareSerialization, ClearMigrationInfo, storeVars, hostVars, threadVars
<1>22. ASSUME Serialize
      PROVE  UNCHANGED <<data, refcount>>
  BY <1>22 DEF Serialize, ClearMigrationInfo, storeVars, hostVars, threadVars
<1>23. ASSUME NEW f \in Files, HostCreate(f)
      PROVE  UNCHANGED <<data, refcount>>
  BY <1>23 DEF HostCreate, storeVars, hostVars, threadVars
<1>24. ASSUME NEW f \in Files, HostUnlink(f)
      PROVE  UNCHANGED <<data, refcount>>
  BY <1>24 DEF HostUnlink, storeVars, hostVars, threadVars
<1>25. ASSUME UNCHANGED vars
      PROVE  UNCHANGED <<data, refcount>>
  BY <1>25 DEF vars, storeVars, hostVars, threadVars
<1>30. CASE UNCHANGED <<data, refcount>>
  BY <1>0, <1>30 DEF LiveWhileReferenced
<1> QED
  BY <1>1, <1>2, <1>3, <1>4, <1>5, <1>6, <1>7, <1>8, <1>9, <1>10, <1>11, <1>12, <1>13, <1>14, <1>15, <1>16, <1>17, <1>18, <1>19, <1>20, <1>21, <1>22, <1>23, <1>24, <1>25, <1>30 DEF Next, ThreadStep

\* An inode a thread owns a reference to is in the store.
LEMMA StrongInData ==
    ASSUME IInv, NEW t \in Threads, strong[t] # NoInode
    PROVE  strong[t] \in data
<1> USE InodeSets
<1>1. DataTypes /\ RefAccounting /\ LiveWhileReferenced
  BY DEF IInv, TypeOK
<1>2. PICK n \in Inodes : n = strong[t]
  BY <1>1, Zenon DEF DataTypes
<1>3. Count(strong, n) # 0
  BY <1>1, <1>2, CountZero, BoundAssumption DEF DataTypes
<1>4. refcount[n] > 0
  <2>1. Count(strong, n) \in Nat /\ Count(parent, n) \in Nat /\ Count(parentRef, n) \in Nat
    BY <1>1, CountTypes
  <2>2. guest[n] \in Nat /\ todo[n] \in Nat
    BY <1>1 DEF DataTypes
  <2>3. refcount[n] = guest[n] + Count(strong, n) + Count(parent, n)
                        + Count(parentRef, n) + todo[n]
    BY <1>1 DEF RefAccounting
  <2>4. Count(strong, n) > 0
    BY <1>3, <2>1
  <2> QED
    BY <2>1, <2>2, <2>3, <2>4
<1> QED
  BY <1>1, <1>2, <1>4 DEF LiveWhileReferenced

\* Every step leaves no reference in an inode that is not in the store.
LEMMA NoInfoStep == IInv /\ [Next]_vars => NoInfoLeft'
<1> SUFFICES ASSUME IInv, [Next]_vars PROVE NoInfoLeft'
  OBVIOUS
<1> USE InodeSets
<1>0. DataTypes /\ NoInfoLeft /\ FreshIds /\ ThreadRefs
  BY DEF IInv, TypeOK
<1>a. /\ data \subseteq Inodes
      /\ parentRef \in [Inodes -> InodeOpt]
      /\ strong \in [Threads -> InodeOpt]
  BY <1>0 DEF DataTypes
<1>1. ASSUME NEW t \in Threads, GetOrInsert(t)
      PROVE  NoInfoLeft'
  <2>1. newid[t] \in Inodes
    BY <1>1, <1>0, FreshType DEF GetOrInsert
  <2> QED
    BY <1>1, <1>0, <1>a, <2>1 DEF GetOrInsert, InsertNew, storeVars, NoInfoLeft
<1>2. ASSUME NEW t \in Threads, TakeInfo(t)
      PROVE  NoInfoLeft'
  BY <1>2, <1>0, <1>a DEF TakeInfo, storeVars, hostVars, threadVars, NoInfoLeft
<1>3. ASSUME NEW t \in Threads, SetInfo(t)
      PROVE  NoInfoLeft'
  <2>1. strong[t] \in data
    BY <1>3, <1>0, StrongInData DEF SetInfo, ThreadRefs
  <2> QED
    BY <1>3, <1>0, <1>a, <2>1 DEF SetInfo, NoInfoLeft
<1>4. ASSUME NEW n \in Inodes, ForgetOne(n)
      PROVE  NoInfoLeft'
  BY <1>4, <1>0, <1>a DEF ForgetOne, Remove, storeVars, hostVars, threadVars, NoInfoLeft
<1>5. ASSUME PrepareSerialization
      PROVE  NoInfoLeft'
  BY <1>5, <1>0, <1>a DEF PrepareSerialization, ClearMigrationInfo, storeVars, hostVars, threadVars, NoInfoLeft
<1>6. ASSUME Serialize
      PROVE  NoInfoLeft'
  BY <1>6, <1>0, <1>a DEF Serialize, ClearMigrationInfo, storeVars, hostVars, threadVars, NoInfoLeft
<1>7. ASSUME Destroy
      PROVE  NoInfoLeft'
  BY <1>7, <1>0, <1>a DEF Destroy, storeVars, hostVars, threadVars, NoInfoLeft
<1>8. ASSUME InitFs
      PROVE  NoInfoLeft'
  BY <1>8, <1>0, <1>a DEF InitFs, storeVars, hostVars, threadVars, NoInfoLeft
<1>9. ASSUME NEW t \in Threads, NEW p \in Inodes, NEW f \in Files, Lookup(t, p, f)
      PROVE  UNCHANGED <<data, parentRef>>
  BY <1>9 DEF Lookup, OpenName, storeVars, hostVars, threadVars
<1>10. ASSUME NEW t \in Threads, NEW p \in Inodes, NEW f \in Files, TryLookup(t, p, f)
      PROVE  UNCHANGED <<data, parentRef>>
  BY <1>10 DEF TryLookup, OpenName, storeVars, hostVars, threadVars
<1>11. ASSUME NEW t \in Threads, ClaimInode(t)
      PROVE  UNCHANGED <<data, parentRef>>
  BY <1>11 DEF ClaimInode, Increment, Alive, Finish, storeVars, hostVars, threadVars
<1>12. ASSUME NEW t \in Threads, BuildInode(t)
      PROVE  UNCHANGED <<data, parentRef>>
  BY <1>12 DEF BuildInode, Increment, Alive, Finish, storeVars, hostVars, threadVars
<1>13. ASSUME NEW t \in Threads, DrawId(t)
      PROVE  UNCHANGED <<data, parentRef>>
  BY <1>13 DEF DrawId, storeVars, hostVars, threadVars
<1>14. ASSUME NEW t \in Threads, AttrError(t)
      PROVE  UNCHANGED <<data, parentRef>>
  BY <1>14 DEF AttrError, storeVars, hostVars, threadVars
<1>15. ASSUME NEW t \in Threads, ReplyEntry(t)
      PROVE  UNCHANGED <<data, parentRef>>
  BY <1>15 DEF ReplyEntry, Finish, storeVars, hostVars, threadVars
<1>16. ASSUME NEW t \in Threads, ReleaseRef(t)
      PROVE  UNCHANGED <<data, parentRef>>
  BY <1>16 DEF ReleaseRef, storeVars, hostVars, threadVars
<1>17. ASSUME NEW t \in Threads, TakeParent(t)
      PROVE  UNCHANGED <<data, parentRef>>
  BY <1>17 DEF TakeParent, Increment, Alive, storeVars, hostVars, threadVars
<1>18. ASSUME NEW t \in Threads, DropParent(t)
      PROVE  UNCHANGED <<data, parentRef>>
  BY <1>18 DEF DropParent, DropRef, storeVars, hostVars, threadVars
<1>19. ASSUME NEW t \in Threads, DropStrong(t)
      PROVE  UNCHANGED <<data, parentRef>>
  BY <1>19 DEF DropStrong, DropRef, storeVars, hostVars, threadVars
<1>20. ASSUME NEW t \in Threads, Return(t)
      PROVE  UNCHANGED <<data, parentRef>>
  BY <1>20 DEF Return, Finish, storeVars, hostVars, threadVars
<1>21. ASSUME NEW n \in Inodes, NEW c \in 1..guest[n], Forget(n, c)
      PROVE  UNCHANGED <<data, parentRef>>
  BY <1>21 DEF Forget, storeVars, hostVars, threadVars
<1>22. ASSUME NEW S \in SUBSET Inodes, BatchForget(S)
      PROVE  UNCHANGED <<data, parentRef>>
  BY <1>22 DEF BatchForget, storeVars, hostVars, threadVars
<1>23. ASSUME NEW f \in Files, HostCreate(f)
      PROVE  UNCHANGED <<data, parentRef>>
  BY <1>23 DEF HostCreate, storeVars, hostVars, threadVars
<1>24. ASSUME NEW f \in Files, HostUnlink(f)
      PROVE  UNCHANGED <<data, parentRef>>
  BY <1>24 DEF HostUnlink, storeVars, hostVars, threadVars
<1>25. ASSUME UNCHANGED vars
      PROVE  UNCHANGED <<data, parentRef>>
  BY <1>25 DEF vars, storeVars, hostVars, threadVars
<1>30. CASE UNCHANGED <<data, parentRef>>
  BY <1>0, <1>30 DEF NoInfoLeft
<1> QED
  BY <1>1, <1>2, <1>3, <1>4, <1>5, <1>6, <1>7, <1>8, <1>9, <1>10, <1>11, <1>12, <1>13, <1>14, <1>15, <1>16, <1>17, <1>18, <1>19, <1>20, <1>21, <1>22, <1>23, <1>24, <1>25, <1>30 DEF Next, ThreadStep

-----------------------------------------------------------------------------
(* Inode numbers.                                                          *)

\* Only the host creates and deletes files.
LEMMA LinkedStep ==
    [Next]_vars => \/ UNCHANGED linked
                   \/ \E f \in Files : HostCreate(f)
                   \/ \E f \in Files : HostUnlink(f)
<1>1. ASSUME NEW t \in Threads, NEW p \in Inodes, NEW f \in Files, Lookup(t, p, f)
      PROVE  UNCHANGED linked
  BY <1>1 DEF Lookup, OpenName, storeVars, hostVars, threadVars
<1>2. ASSUME NEW t \in Threads, NEW p \in Inodes, NEW f \in Files, TryLookup(t, p, f)
      PROVE  UNCHANGED linked
  BY <1>2 DEF TryLookup, OpenName, storeVars, hostVars, threadVars
<1>3. ASSUME NEW t \in Threads, ClaimInode(t)
      PROVE  UNCHANGED linked
  BY <1>3 DEF ClaimInode, Increment, Alive, Finish, storeVars, hostVars, threadVars
<1>4. ASSUME NEW t \in Threads, BuildInode(t)
      PROVE  UNCHANGED linked
  BY <1>4 DEF BuildInode, Increment, Alive, Finish, storeVars, hostVars, threadVars
<1>5. ASSUME NEW t \in Threads, DrawId(t)
      PROVE  UNCHANGED linked
  BY <1>5 DEF DrawId, storeVars, hostVars, threadVars
<1>6. ASSUME NEW t \in Threads, GetOrInsert(t)
      PROVE  UNCHANGED linked
  BY <1>6 DEF GetOrInsert, Increment, Alive, InsertNew, storeVars, hostVars, threadVars
<1>7. ASSUME NEW t \in Threads, AttrError(t)
      PROVE  UNCHANGED linked
  BY <1>7 DEF AttrError, storeVars, hostVars, threadVars
<1>8. ASSUME NEW t \in Threads, ReplyEntry(t)
      PROVE  UNCHANGED linked
  BY <1>8 DEF ReplyEntry, Finish, storeVars, hostVars, threadVars
<1>9. ASSUME NEW t \in Threads, ReleaseRef(t)
      PROVE  UNCHANGED linked
  BY <1>9 DEF ReleaseRef, storeVars, hostVars, threadVars
<1>10. ASSUME NEW t \in Threads, TakeInfo(t)
      PROVE  UNCHANGED linked
  BY <1>10 DEF TakeInfo, storeVars, hostVars, threadVars
<1>11. ASSUME NEW t \in Threads, TakeParent(t)
      PROVE  UNCHANGED linked
  BY <1>11 DEF TakeParent, Increment, Alive, storeVars, hostVars, threadVars
<1>12. ASSUME NEW t \in Threads, SetInfo(t)
      PROVE  UNCHANGED linked
  BY <1>12 DEF SetInfo, storeVars, hostVars, threadVars
<1>13. ASSUME NEW t \in Threads, DropParent(t)
      PROVE  UNCHANGED linked
  BY <1>13 DEF DropParent, DropRef, storeVars, hostVars, threadVars
<1>14. ASSUME NEW t \in Threads, DropStrong(t)
      PROVE  UNCHANGED linked
  BY <1>14 DEF DropStrong, DropRef, storeVars, hostVars, threadVars
<1>15. ASSUME NEW t \in Threads, Return(t)
      PROVE  UNCHANGED linked
  BY <1>15 DEF Return, Finish, storeVars, hostVars, threadVars
<1>16. ASSUME NEW n \in Inodes, ForgetOne(n)
      PROVE  UNCHANGED linked
  BY <1>16 DEF ForgetOne, Remove, storeVars, hostVars, threadVars
<1>17. ASSUME NEW n \in Inodes, NEW c \in 1..guest[n], Forget(n, c)
      PROVE  UNCHANGED linked
  BY <1>17 DEF Forget, storeVars, hostVars, threadVars
<1>18. ASSUME NEW S \in SUBSET Inodes, BatchForget(S)
      PROVE  UNCHANGED linked
  BY <1>18 DEF BatchForget, storeVars, hostVars, threadVars
<1>19. ASSUME PrepareSerialization
      PROVE  UNCHANGED linked
  BY <1>19 DEF PrepareSerialization, ClearMigrationInfo, storeVars, hostVars, threadVars
<1>20. ASSUME Serialize
      PROVE  UNCHANGED linked
  BY <1>20 DEF Serialize, ClearMigrationInfo, storeVars, hostVars, threadVars
<1>21. ASSUME Destroy
      PROVE  UNCHANGED linked
  BY <1>21 DEF Destroy, storeVars, hostVars, threadVars
<1>22. ASSUME InitFs
      PROVE  UNCHANGED linked
  BY <1>22 DEF InitFs, storeVars, hostVars, threadVars
<1>23. ASSUME UNCHANGED vars
      PROVE  UNCHANGED linked
  BY <1>23 DEF vars, storeVars, hostVars, threadVars
<1> QED
  BY <1>1, <1>2, <1>3, <1>4, <1>5, <1>6, <1>7, <1>8, <1>9, <1>10, <1>11, <1>12, <1>13, <1>14, <1>15, <1>16, <1>17, <1>18, <1>19, <1>20, <1>21, <1>22, <1>23, SMTT(30) DEF Next, ThreadStep
=============================================================================
