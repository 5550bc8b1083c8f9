--------------------------- MODULE InodeStoreHost ---------------------------
(***************************************************************************)
(* The files the inode store knows stay apart, and so do its IDs.          *)
(***************************************************************************)
EXTENDS InodeStoreLinks

-----------------------------------------------------------------------------
(* The host's inode numbers.                                               *)

\* Only the host makes an inode number used that was not: whatever the daemon
\* opens had a name, or was pinned before.
LEMMA HeldStep ==
    ASSUME IInv, [Next]_vars, NEW f \in Files, Held(f)'
    PROVE  Held(f) \/ (\E g \in Files : HostCreate(g))
<1> USE InodeSets
<1>0. DataTypes /\ FreshIds /\ HostUnique /\ Held(f)' /\ f \in Files
  BY DEF IInv, TypeOK
<1>a. /\ data \subseteq Inodes
      /\ file \in [Inodes -> Files]
      /\ path \in [Threads -> Files \cup {NoFile}]
      /\ arc \in [Threads -> InodeOpt]
  BY <1>0 DEF DataTypes
<1>1. ASSUME NEW t \in Threads, NEW p \in Inodes, NEW g \in Files, Lookup(t, p, g)
      PROVE  Held(f)
  <2>1. \A u \in Threads : path'[u] = path[u] \/ path'[u] \in linked
    BY <1>1, <1>a DEF Lookup, OpenName
  <2>2. \A u \in Threads : arc'[u] = arc[u] \/ arc'[u] \in data
    BY <1>1, <1>a DEF Lookup, OpenName
  <2> QED
    BY <1>1, <1>0, <2>1, <2>2 DEF Lookup, OpenName, storeVars, hostVars, Held, Pinned
<1>2. ASSUME NEW t \in Threads, NEW p \in Inodes, NEW g \in Files, TryLookup(t, p, g)
      PROVE  Held(f)
  <2>1. \A u \in Threads : path'[u] = path[u] \/ path'[u] \in linked
    BY <1>2, <1>a DEF TryLookup, OpenName
  <2>2. \A u \in Threads : arc'[u] = arc[u] \/ arc'[u] \in data
    BY <1>2, <1>a DEF TryLookup, OpenName
  <2> QED
    BY <1>2, <1>0, <2>1, <2>2 DEF TryLookup, OpenName, storeVars, hostVars, Held, Pinned
<1>3. ASSUME NEW t \in Threads, ClaimInode(t)
      PROVE  Held(f)
  <2>1. \A u \in Threads : path'[u] = path[u] \/ path'[u] = NoFile
    BY <1>3, <1>a DEF ClaimInode, Finish
  <2>2. \A u \in Threads : arc'[u] = arc[u] \/ arc'[u] = NoInode
    BY <1>3, <1>a DEF ClaimInode, Finish
  <2> QED
    BY <1>3, <1>0, <2>1, <2>2, FilesAssumption DEF ClaimInode, storeVars, hostVars, Held, Pinned
<1>4. ASSUME NEW t \in Threads, BuildInode(t)
      PROVE  Held(f)
  <2>1. \A u \in Threads : path'[u] = path[u] \/ path'[u] = NoFile
    BY <1>4, <1>a DEF BuildInode, Finish
  <2>2. \A u \in Threads : arc'[u] = arc[u] \/ arc'[u] = NoInode
    BY <1>4, <1>a DEF BuildInode, Finish
  <2> QED
    BY <1>4, <1>0, <2>1, <2>2, FilesAssumption DEF BuildInode, storeVars, hostVars, Held, Pinned
<1>5. ASSUME NEW t \in Threads, DrawId(t)
      PROVE  Held(f)
  BY <1>5, <1>0 DEF DrawId, storeVars, hostVars, threadVars, Held, Pinned
<1>6. ASSUME NEW t \in Threads, GetOrInsert(t)
      PROVE  Held(f)
  <2>1. UNCHANGED <<linked, path, arc>>
    BY <1>6 DEF GetOrInsert, hostVars
  <2>2. CASE UNCHANGED <<data, file>>
    BY <1>0, <2>1, <2>2 DEF Held, Pinned
  <2>3. CASE newid[t] \notin data /\ InsertNew(newid[t], path[t], 1, parent[t])
    <3>1. /\ data' = data \cup {newid[t]}
          /\ file' = [file EXCEPT ![newid[t]] = path[t]]
      BY <2>3 DEF InsertNew
    <3>2. newid[t] \in Inodes
      BY <1>6, <1>0, FreshType DEF GetOrInsert
    <3>3. file'[newid[t]] = path[t]
      BY <1>a, <3>1, <3>2
    <3>4. \A n \in Inodes : n = newid[t] \/ file'[n] = file[n]
      BY <1>a, <3>1
    <3>5. \A n \in data' : n = newid[t] \/ n \in data
      BY <3>1
    <3> QED
      BY <1>0, <2>1, <3>3, <3>4, <3>5 DEF Held, Pinned
  <2> QED
    BY <1>6, <2>2, <2>3 DEF GetOrInsert, storeVars
<1>7. ASSUME NEW t \in Threads, AttrError(t)
      PROVE  Held(f)
  BY <1>7, <1>0 DEF AttrError, storeVars, hostVars, threadVars, Held, Pinned
<1>8. ASSUME NEW t \in Threads, ReplyEntry(t)
      PROVE  Held(f)
  <2>1. \A u \in Threads : path'[u] = path[u] \/ path'[u] = NoFile
    BY <1>8, <1>a DEF ReplyEntry, Finish
  <2>2. \A u \in Threads : arc'[u] = arc[u] \/ arc'[u] = NoInode
    BY <1>8, <1>a DEF ReplyEntry, Finish
  <2> QED
    BY <1>8, <1>0, <2>1, <2>2, FilesAssumption DEF ReplyEntry, storeVars, hostVars, Held, Pinned
<1>9. ASSUME NEW t \in Threads, ReleaseRef(t)
      PROVE  Held(f)
  BY <1>9, <1>0 DEF ReleaseRef, storeVars, hostVars, threadVars, Held, Pinned
<1>10. ASSUME NEW t \in Threads, TakeInfo(t)
      PROVE  Held(f)
  BY <1>10, <1>0 DEF TakeInfo, storeVars, hostVars, threadVars, Held, Pinned
<1>11. ASSUME NEW t \in Threads, TakeParent(t)
      PROVE  Held(f)
  BY <1>11, <1>0 DEF TakeParent, Increment, Alive, storeVars, hostVars, threadVars, Held, Pinned
<1>12. ASSUME NEW t \in Threads, SetInfo(t)
      PROVE  Held(f)
  BY <1>12, <1>0 DEF SetInfo, storeVars, hostVars, threadVars, Held, Pinned
<1>13. ASSUME NEW t \in Threads, DropParent(t)
      PROVE  Held(f)
  BY <1>13, <1>0 DEF DropParent, DropRef, storeVars, hostVars, threadVars, Held, Pinned
<1>14. ASSUME NEW t \in Threads, DropStrong(t)
      PROVE  Held(f)
  BY <1>14, <1>0 DEF DropStrong, DropRef, storeVars, hostVars, threadVars, Held, Pinned
<1>15. ASSUME NEW t \in Threads, Return(t)
      PROVE  Held(f)
  <2>1. \A u \in Threads : path'[u] = path[u] \/ path'[u] = NoFile
    BY <1>15, <1>a DEF Return, Finish
  <2>2. \A u \in Threads : arc'[u] = arc[u] \/ arc'[u] = NoInode
    BY <1>15, <1>a DEF Return, Finish
  <2> QED
    BY <1>15, <1>0, <2>1, <2>2, FilesAssumption DEF Return, storeVars, hostVars, Held, Pinned
<1>16. ASSUME NEW n \in Inodes, ForgetOne(n)
      PROVE  Held(f)
  <2>1. data' \subseteq data
    BY <1>16 DEF ForgetOne, Remove
  <2> QED
    BY <1>16, <1>0, <2>1 DEF ForgetOne, hostVars, threadVars, Held, Pinned
<1>17. ASSUME NEW n \in Inodes, NEW c \in 1..guest[n], Forget(n, c)
      PROVE  Held(f)
  BY <1>17, <1>0 DEF Forget, storeVars, hostVars, threadVars, Held, Pinned
<1>18. ASSUME NEW S \in SUBSET Inodes, BatchForget(S)
      PROVE  Held(f)
  BY <1>18, <1>0 DEF BatchForget, storeVars, hostVars, threadVars, Held, Pinned
<1>19. ASSUME PrepareSerialization
      PROVE  Held(f)
  BY <1>19, <1>0 DEF PrepareSerialization, ClearMigrationInfo, storeVars, hostVars, threadVars, Held, Pinned
<1>20. ASSUME Serialize
      PROVE  Held(f)
  BY <1>20, <1>0 DEF Serialize, ClearMigrationInfo, storeVars, hostVars, threadVars, Held, Pinned
<1>21. ASSUME Destroy
      PROVE  Held(f)
  BY <1>21, <1>0 DEF Destroy, storeVars, hostVars, threadVars, Held, Pinned
<1>22. ASSUME InitFs
      PROVE  Held(f)
  <2>1. \A n \in Inodes : file'[n] = file[n] \/ file'[n] = RootFile
    BY <1>22, <1>a DEF InitFs
  <2>2. file'[ROOT_ID] = RootFile
    BY <1>22, <1>a DEF InitFs
  <2> QED
    BY <1>22, <1>0, <2>1, <2>2 DEF InitFs, hostVars, threadVars, Held, Pinned, HostUnique
<1>23. ASSUME NEW g \in Files, HostUnlink(g)
      PROVE  Held(f)
  BY <1>23, <1>0 DEF HostUnlink, storeVars, hostVars, threadVars, Held, Pinned
<1>24. ASSUME UNCHANGED vars
      PROVE  Held(f)
  BY <1>24, <1>0 DEF vars, storeVars, hostVars, threadVars, Held, Pinned
<1> QED
  BY <1>1, <1>2, <1>3, <1>4, <1>5, <1>6, <1>7, <1>8, <1>9, <1>10, <1>11, <1>12, <1>13, <1>14, <1>15, <1>16, <1>17, <1>18, <1>19, <1>20, <1>21, <1>22, <1>23, <1>24 DEF Next, ThreadStep

\* Every step keeps the inode numbers in use apart.
LEMMA HostStep == IInv /\ [Next]_vars => HostUnique'
<1> SUFFICES ASSUME IInv, [Next]_vars PROVE HostUnique'
  OBVIOUS
<1>0. HostUnique /\ DataTypes
  BY DEF IInv, TypeOK
<1>1. ASSUME NEW h \in Files, HostCreate(h) PROVE HostUnique'
  <2>1. RootFile \in linked'
    BY <1>0, <1>1 DEF HostCreate, HostUnique
  <2>2. \A f \in Files : Pinned(f)' <=> Pinned(f)
    BY <1>1 DEF HostCreate, storeVars, threadVars, Pinned
  <2>3. \A f \in Files : Held(f)' <=> Held(f) \/ f = h
    BY <1>1, <2>2 DEF HostCreate, Held
  <2>4. \A g \in Files \ {h} : IdsOf[g] = IdsOf[h] => ~Held(g)
    BY <1>1 DEF HostCreate, Held
  <2>5. ASSUME NEW f \in Files, NEW g \in Files, f # g, IdsOf[f] = IdsOf[g]
        PROVE  ~(Held(f)' /\ Held(g)')
    BY <1>0, <2>3, <2>4, <2>5 DEF HostUnique
  <2> QED
    BY <2>1, <2>5 DEF HostUnique
<1>2. CASE ~\E h \in Files : HostCreate(h)
  <2>1. RootFile \in linked'
    <3>1. linked' = linked \/ \E f \in Files : HostUnlink(f)
      BY <1>2, LinkedStep
    <3> QED
      BY <1>0, <3>1, FilesAssumption DEF HostUnlink, HostUnique
  <2>2. \A f \in Files : Held(f)' => Held(f)
    BY <1>2, HeldStep
  <2>3. ASSUME NEW f \in Files, NEW g \in Files, f # g, IdsOf[f] = IdsOf[g]
        PROVE  ~(Held(f)' /\ Held(g)')
    BY <1>0, <2>2, <2>3 DEF HostUnique
  <2> QED
    BY <2>1, <2>3 DEF HostUnique
<1> QED
  BY <1>1, <1>2

-----------------------------------------------------------------------------
(* The inode IDs.                                                          *)

\* Every step keeps the IDs that were drawn and not yet inserted apart.
LEMMA FreshStep == IInv /\ [Next]_vars => FreshIds'
<1> SUFFICES ASSUME IInv, [Next]_vars PROVE FreshIds'
  OBVIOUS
<1> USE InodeSets
<1>0. DataTypes /\ FreshIds
  BY DEF IInv, TypeOK
<1>1. ASSUME NEW t \in Threads, NEW p \in Inodes, NEW f \in Files, Lookup(t, p, f)
      PROVE  FreshIds'
  BY <1>1, <1>0 DEF Lookup, OpenName, storeVars, hostVars, threadVars, FreshIds, DataTypes
<1>2. ASSUME NEW t \in Threads, NEW p \in Inodes, NEW f \in Files, TryLookup(t, p, f)
      PROVE  FreshIds'
  BY <1>2, <1>0 DEF TryLookup, OpenName, storeVars, hostVars, threadVars, FreshIds, DataTypes
<1>3. ASSUME NEW t \in Threads, ClaimInode(t)
      PROVE  FreshIds'
  BY <1>3, <1>0 DEF ClaimInode, Increment, Alive, Finish, storeVars, hostVars, threadVars, FreshIds, DataTypes
<1>4. ASSUME NEW t \in Threads, BuildInode(t)
      PROVE  FreshIds'
  BY <1>4, <1>0 DEF BuildInode, Increment, Alive, Finish, storeVars, hostVars, threadVars, FreshIds, DataTypes
<1>5. ASSUME NEW t \in Threads, DrawId(t)
      PROVE  FreshIds'
  <2>1. next_inode \in Nat /\ next_inode >= 2
    BY <1>0 DEF DataTypes
  <2>2. \A n \in data : n \in Nat
    BY <1>0 DEF DataTypes
  <2>3. CASE newid' = [newid EXCEPT ![t] = next_inode] /\ next_inode' = next_inode + 1
    <3>1. \A n \in data' : n < next_inode'
      BY <1>5, <1>0, <2>1, <2>2, <2>3 DEF DrawId, storeVars, FreshIds
    <3>2. ASSUME NEW u \in Threads, pc'[u] = "insert"
          PROVE  newid'[u] \in 2..(next_inode' - 1) /\ newid'[u] \notin data'
      BY <1>5, <1>0, <2>1, <2>3, <3>2 DEF DrawId, storeVars, FreshIds, DataTypes
    <3>3. ASSUME NEW u \in Threads, NEW v \in Threads, u # v,
                 pc'[u] = "insert", pc'[v] = "insert"
          PROVE  newid'[u] # newid'[v]
      BY <1>5, <1>0, <2>1, <2>3, <3>3 DEF DrawId, FreshIds, DataTypes
    <3> QED
      BY <3>1, <3>2, <3>3 DEF FreshIds
  <2>4. CASE pc' = [pc EXCEPT ![t] = "drop"] /\ UNCHANGED <<newid, next_inode>>
    BY <1>5, <1>0, <2>4 DEF DrawId, storeVars, FreshIds, DataTypes
  <2> QED
    BY <1>5, <2>3, <2>4 DEF DrawId
<1>6. ASSUME NEW t \in Threads, GetOrInsert(t)
      PROVE  FreshIds'
  <2>1. newid[t] \in Inodes /\ newid[t] < next_inode
    BY <1>6, <1>0, FreshType DEF GetOrInsert, FreshIds, DataTypes
  <2>2. data' \subseteq data \cup {newid[t]}
    BY <1>6 DEF GetOrInsert, storeVars, InsertNew
  <2> QED
    BY <1>6, <1>0, <2>1, <2>2 DEF GetOrInsert, FreshIds, DataTypes
<1>7. ASSUME NEW t \in Threads, AttrError(t)
      PROVE  FreshIds'
  BY <1>7, <1>0 DEF AttrError, storeVars, hostVars, threadVars, FreshIds, DataTypes
<1>8. ASSUME NEW t \in Threads, ReplyEntry(t)
      PROVE  FreshIds'
  BY <1>8, <1>0 DEF ReplyEntry, Finish, storeVars, hostVars, threadVars, FreshIds, DataTypes
<1>9. ASSUME NEW t \in Threads, ReleaseRef(t)
      PROVE  FreshIds'
  BY <1>9, <1>0 DEF ReleaseRef, storeVars, hostVars, threadVars, FreshIds, DataTypes
<1>10. ASSUME NEW t \in Threads, TakeInfo(t)
      PROVE  FreshIds'
  BY <1>10, <1>0 DEF TakeInfo, storeVars, hostVars, threadVars, FreshIds, DataTypes
<1>11. ASSUME NEW t \in Threads, TakeParent(t)
      PROVE  FreshIds'
  BY <1>11, <1>0 DEF TakeParent, Increment, Alive, storeVars, hostVars, threadVars, FreshIds, DataTypes
<1>12. ASSUME NEW t \in Threads, SetInfo(t)
      PROVE  FreshIds'
  BY <1>12, <1>0 DEF SetInfo, storeVars, hostVars, threadVars, FreshIds, DataTypes
<1>13. ASSUME NEW t \in Threads, DropParent(t)
      PROVE  FreshIds'
  BY <1>13, <1>0 DEF DropParent, DropRef, storeVars, hostVars, threadVars, FreshIds, DataTypes
<1>14. ASSUME NEW t \in Threads, DropStrong(t)
      PROVE  FreshIds'
  BY <1>14, <1>0 DEF DropStrong, DropRef, storeVars, hostVars, threadVars, FreshIds, DataTypes
<1>15. ASSUME NEW t \in Threads, Return(t)
      PROVE  FreshIds'
  BY <1>15, <1>0 DEF Return, Finish, storeVars, hostVars, threadVars, FreshIds, DataTypes
<1>16. ASSUME NEW n \in Inodes, ForgetOne(n)
      PROVE  FreshIds'
  <2>1. data' \subseteq data
    BY <1>16 DEF ForgetOne, Remove
  <2> QED
    BY <1>16, <1>0, <2>1 DEF ForgetOne, threadVars, FreshIds
<1>17. ASSUME Destroy
      PROVE  FreshIds'
  BY <1>17, <1>0 DEF Destroy, storeVars, hostVars, threadVars, FreshIds, DataTypes
<1>18. ASSUME InitFs
      PROVE  FreshIds'
  <2>1. ROOT_ID < next_inode
    BY <1>0 DEF DataTypes, ROOT_ID
  <2> QED
    BY <1>18, <1>0, <2>1 DEF InitFs, threadVars, FreshIds
<1>19. ASSUME NEW n \in Inodes, NEW c \in 1..guest[n], Forget(n, c)
      PROVE  UNCHANGED <<data, pc, newid, next_inode>>
  BY <1>19 DEF Forget, storeVars, hostVars, threadVars
<1>20. ASSUME NEW S \in SUBSET Inodes, BatchForget(S)
      PROVE  UNCHANGED <<data, pc, newid, next_inode>>
  BY <1>20 DEF BatchForget, storeVars, hostVars, threadVars
<1>21. ASSUME PrepareSerialization
      PROVE  UNCHANGED <<data, pc, newid, next_inode>>
  BY <1>21 DEF PrepareSerialization, ClearMigrationInfo, storeVars, hostVars, threadVars
<1>22. ASSUME Serialize
      PROVE  UNCHANGED <<data, pc, newid, next_inode>>
  BY <1>22 DEF Serialize, ClearMigrationInfo, storeVars, hostVars, threadVars
<1>23. ASSUME NEW f \in Files, HostCreate(f)
      PROVE  UNCHANGED <<data, pc, newid, next_inode>>
  BY <1>23 DEF HostCreate, storeVars, hostVars, threadVars
<1>24. ASSUME NEW f \in Files, HostUnlink(f)
      PROVE  UNCHANGED <<data, pc, newid, next_inode>>
  BY <1>24 DEF HostUnlink, storeVars, hostVars, threadVars
<1>25. ASSUME UNCHANGED vars
      PROVE  UNCHANGED <<data, pc, newid, next_inode>>
  BY <1>25 DEF vars, storeVars, hostVars, threadVars
<1>30. CASE UNCHANGED <<data, pc, newid, next_inode>>
  BY <1>0, <1>30 DEF FreshIds
<1> QED
  BY <1>1, <1>2, <1>3, <1>4, <1>5, <1>6, <1>7, <1>8, <1>9, <1>10, <1>11, <1>12, <1>13, <1>14, <1>15, <1>16, <1>17, <1>18, <1>19, <1>20, <1>21, <1>22, <1>23, <1>24, <1>25, <1>30 DEF Next, ThreadStep
=============================================================================
