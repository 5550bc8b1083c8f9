-------------------------- MODULE InodeStoreProofs --------------------------
(***************************************************************************)
(* The inode store's invariants hold for any files, threads and bounds.    *)
(***************************************************************************)
EXTENDS InodeStoreHost

-----------------------------------------------------------------------------
(* The answers of the LOOKUPs.                                             *)

\* What do_claim_inode() finds for an open file is that very file: by handle
\* because a handle names one file, by IDs because both files are pinned.
LEMMA ClaimedFile ==
    ASSUME IInv, NEW t \in Threads, path[t] \in Files, Alive(Claimed(path[t]))
    PROVE  file[Claimed(path[t])] = path[t]
<1> USE InodeSets
<1>0. DataTypes /\ IndexSound /\ HostUnique
  BY DEF IInv, TypeOK
<1>1. IdsOf \in [Files -> Ids] /\ file \in [Inodes -> Files] /\ data \subseteq Inodes
  BY <1>0, FilesAssumption, SMTT(30) DEF DataTypes
<1>2. CASE HasHandle[path[t]] /\ by_handle[path[t]] # NoInode
  BY <1>0, <1>2, Zenon DEF Claimed, IndexSound
<1>3. CASE ~(HasHandle[path[t]] /\ by_handle[path[t]] # NoInode)
  <2>1. PICK n \in Inodes : n = Claimed(path[t]) /\ n = by_ids[IdsOf[path[t]]] /\ IsFile(n)
    BY <1>0, <1>1, <1>3, Zenon DEF Claimed, Alive, IndexSound
  <2>2. n \in data /\ IdsOf[file[n]] = IdsOf[path[t]]
    BY <1>0, <1>1, <2>1 DEF IndexSound
  <2>3. Pinned(path[t])
    BY DEF Pinned
  <2>4. file[n] \in Files /\ ~HasHandle[file[n]]
    BY <1>1, <2>1 DEF IsFile
  <2>5. Pinned(file[n])
    BY <2>2, <2>4 DEF Pinned
  <2> QED
    BY <1>0, <2>1, <2>2, <2>3, <2>4, <2>5 DEF HostUnique, Held
<1> QED
  BY <1>2, <1>3

\* Every step keeps the answers of the LOOKUPs under way right.
LEMMA IdentityStep == IInv /\ [Next]_vars => LookupIdentity'
<1> SUFFICES ASSUME IInv, [Next]_vars PROVE LookupIdentity'
  OBVIOUS
<1>0. DataTypes /\ ThreadRefs /\ FreshIds /\ LookupIdentity
  BY DEF IInv, TypeOK
<1>a. /\ data \subseteq Inodes
      /\ file \in [Inodes -> Files]
      /\ pc \in [Threads -> Steps]
      /\ path \in [Threads -> Files \cup {NoFile}]
      /\ strong \in [Threads -> InodeOpt]
  BY <1>0 DEF DataTypes
<1>1. ASSUME NEW t \in Threads, NEW p \in Inodes, NEW f \in Files, Lookup(t, p, f)
      PROVE  LookupIdentity'
  BY <1>1, <1>0, <1>a DEF Lookup, OpenName, storeVars, hostVars, threadVars, LookupIdentity
<1>2. ASSUME NEW t \in Threads, NEW p \in Inodes, NEW f \in Files, TryLookup(t, p, f)
      PROVE  LookupIdentity'
  BY <1>2, <1>0, <1>a DEF TryLookup, OpenName, storeVars, hostVars, threadVars, LookupIdentity
<1>3. ASSUME NEW t \in Threads, ClaimInode(t)
      PROVE  LookupIdentity'
  <2>1. path[t] \in Files
    BY <1>3, <1>0 DEF ClaimInode, ThreadRefs
  <2>2. Alive(Claimed(path[t])) => file[Claimed(path[t])] = path[t]
    BY <2>1, ClaimedFile
  <2> QED
    BY <1>3, <1>0, <1>a, <2>2 DEF ClaimInode, Increment, Finish, LookupIdentity
<1>4. ASSUME NEW t \in Threads, BuildInode(t)
      PROVE  LookupIdentity'
  BY <1>4, <1>0, <1>a DEF BuildInode, Increment, Alive, Finish, storeVars, hostVars, threadVars, LookupIdentity
<1>5. ASSUME NEW t \in Threads, DrawId(t)
      PROVE  LookupIdentity'
  BY <1>5, <1>0, <1>a DEF DrawId, storeVars, hostVars, threadVars, LookupIdentity
<1>6. ASSUME NEW t \in Threads, GetOrInsert(t)
      PROVE  LookupIdentity'
  <2>1. path[t] \in Files /\ newid[t] \in Inodes \ data
    BY <1>6, <1>0, FreshType, Zenon DEF GetOrInsert, ThreadRefs, FreshIds
  <2>2. Alive(Claimed(path[t])) => file[Claimed(path[t])] = path[t]
    BY <2>1, ClaimedFile
  <2>3. \A u \in Threads : pc[u] = "attr" => file'[strong[u]] = path[u]
    <3>1. ASSUME NEW u \in Threads, pc[u] = "attr"
          PROVE  strong[u] \in data /\ file[strong[u]] = path[u]
      BY <1>0, <3>1, StrongInData DEF ThreadRefs, LookupIdentity
    <3> QED
      BY <1>6, <1>a, <2>1, <3>1 DEF GetOrInsert, InsertNew, storeVars
  <2>4. CASE Increment(Claimed(path[t])) /\ strong' = [strong EXCEPT ![t] = Claimed(path[t])]
             /\ UNCHANGED file
    BY <1>6, <1>0, <1>a, <2>2, <2>3, <2>4, SMTT(30) DEF GetOrInsert, Increment, LookupIdentity
  <2>5. CASE InsertNew(newid[t], path[t], 1, parent[t]) /\ strong' = [strong EXCEPT ![t] = newid[t]]
    BY <1>6, <1>0, <1>a, <2>1, <2>3, <2>5, Zenon DEF GetOrInsert, InsertNew, LookupIdentity
  <2>6. CASE pc' = [pc EXCEPT ![t] = "drop"] /\ UNCHANGED <<file, strong>>
    BY <1>6, <1>0, <1>a, <2>6 DEF GetOrInsert, LookupIdentity
  <2> QED
    BY <1>6, <2>4, <2>5, <2>6, SMTT(30) DEF GetOrInsert, storeVars
<1>7. ASSUME NEW t \in Threads, AttrError(t)
      PROVE  LookupIdentity'
  BY <1>7, <1>0, <1>a, SMTT(30) DEF AttrError, storeVars, hostVars, threadVars, LookupIdentity
<1>8. ASSUME NEW t \in Threads, ReplyEntry(t)
      PROVE  LookupIdentity'
  BY <1>8, <1>0, <1>a DEF ReplyEntry, Finish, storeVars, hostVars, threadVars, LookupIdentity
<1>9. ASSUME NEW t \in Threads, ReleaseRef(t)
      PROVE  LookupIdentity'
  BY <1>9, <1>0, <1>a DEF ReleaseRef, storeVars, hostVars, threadVars, LookupIdentity
<1>10. ASSUME NEW t \in Threads, TakeInfo(t)
      PROVE  LookupIdentity'
  BY <1>10, <1>0, <1>a DEF TakeInfo, storeVars, hostVars, threadVars, LookupIdentity
<1>11. ASSUME NEW t \in Threads, TakeParent(t)
      PROVE  LookupIdentity'
  BY <1>11, <1>0, <1>a DEF TakeParent, Increment, Alive, storeVars, hostVars, threadVars, LookupIdentity
<1>12. ASSUME NEW t \in Threads, SetInfo(t)
      PROVE  LookupIdentity'
  BY <1>12, <1>0, <1>a DEF SetInfo, storeVars, hostVars, threadVars, LookupIdentity
<1>13. ASSUME NEW t \in Threads, DropParent(t)
      PROVE  LookupIdentity'
  BY <1>13, <1>0, <1>a DEF DropParent, DropRef, storeVars, hostVars, threadVars, LookupIdentity
<1>14. ASSUME NEW t \in Threads, DropStrong(t)
      PROVE  LookupIdentity'
  BY <1>14, <1>0, <1>a DEF DropStrong, DropRef, storeVars, hostVars, threadVars, LookupIdentity
<1>15. ASSUME NEW t \in Threads, Return(t)
      PROVE  LookupIdentity'
  BY <1>15, <1>0, <1>a DEF Return, Finish, storeVars, hostVars, threadVars, LookupIdentity
<1>16. ASSUME InitFs
      PROVE  LookupIdentity'
  BY <1>16, <1>0, <1>a DEF InitFs, storeVars, hostVars, threadVars, LookupIdentity
<1>17. ASSUME NEW n \in Inodes, ForgetOne(n)
      PROVE  UNCHANGED <<file, pc, path, strong>>
  BY <1>17 DEF ForgetOne, Remove, storeVars, hostVars, threadVars
<1>18. ASSUME NEW n \in Inodes, NEW c \in 1..guest[n], Forget(n, c)
      PROVE  UNCHANGED <<file, pc, path, strong>>
  BY <1>18 DEF Forget, storeVars, hostVars, threadVars
<1>19. ASSUME NEW S \in SUBSET Inodes, BatchForget(S)
      PROVE  UNCHANGED <<file, pc, path, strong>>
  BY <1>19 DEF BatchForget, storeVars, hostVars, threadVars
<1>20. ASSUME PrepareSerialization
      PROVE  UNCHANGED <<file, pc, path, strong>>
  BY <1>20 DEF PrepareSerialization, ClearMigrationInfo, storeVars, hostVars, threadVars
<1>21. ASSUME Serialize
      PROVE  UNCHANGED <<file, pc, path, strong>>
  BY <1>21 DEF Serialize, ClearMigrationInfo, storeVars, hostVars, threadVars
<1>22. ASSUME Destroy
      PROVE  UNCHANGED <<file, pc, path, strong>>
  BY <1>22 DEF Destroy, storeVars, hostVars, threadVars
<1>23. ASSUME NEW f \in Files, HostCreate(f)
      PROVE  UNCHANGED <<file, pc, path, strong>>
  BY <1>23 DEF HostCreate, storeVars, hostVars, threadVars
<1>24. ASSUME NEW f \in Files, HostUnlink(f)
      PROVE  UNCHANGED <<file, pc, path, strong>>
  BY <1>24 DEF HostUnlink, storeVars, hostVars, threadVars
<1>25. ASSUME UNCHANGED vars
      PROVE  UNCHANGED <<file, pc, path, strong>>
  BY <1>25 DEF vars, storeVars, hostVars, threadVars
<1>30. CASE UNCHANGED <<file, pc, path, strong>>
  BY <1>0, <1>30 DEF LookupIdentity
<1> QED
  BY <1>1, <1>2, <1>3, <1>4, <1>5, <1>6, <1>7, <1>8, <1>9, <1>10, <1>11, <1>12, <1>13, <1>14, <1>15, <1>16, <1>17, <1>18, <1>19, <1>20, <1>21, <1>22, <1>23, <1>24, <1>25, <1>30 DEF Next, ThreadStep

-----------------------------------------------------------------------------
(* The theorems.                                                           *)

\* The invariant is inductive, so it always holds.
THEOREM Invariance == Spec => []IInv
<1>1. IInv /\ [Next]_vars => IInv'
  BY TypeStep, IndexStep, AccountingStep, LiveStep, ThreadStepRefs, FreshStep,
     NoInfoStep, HostStep, IdentityStep DEF IInv
<1> QED
  BY InitIInv, <1>1, PTL DEF Spec

\* Type correctness for any number of threads, files and inode IDs.
THEOREM TypeCorrect == Spec => []TypeOK
BY Invariance, PTL DEF IInv

\* by_ids and by_handle never dangle: get_by_ids() and get_by_handle() never
\* panic on their unwrap().
THEOREM IndicesSound == Spec => []IndexSound
BY Invariance, PTL DEF IInv

\* A reference count always equals the references that exist.
THEOREM CountsExact == Spec => []RefAccounting
BY Invariance, PTL DEF IInv

\* Exactly the referenced inodes are in the store.
THEOREM NoLeakNoDangling == Spec => []LiveWhileReferenced
BY Invariance, PTL DEF IInv

\* A LOOKUP answers with the inode of the file it opened.
THEOREM LookupsIdentify == Spec => []LookupIdentity
BY Invariance, PTL DEF IInv

\* No file ever has two FUSE inode IDs at a time: both would be the one in the
\* index that is used for the file.
THEOREM IdsUnique == Spec => []OneIdPerFile
<1>1. IInv => OneIdPerFile
  BY DEF IInv, IndexComplete, OneIdPerFile, IsFile
<1> QED
  BY Invariance, <1>1, PTL

\* get_or_insert() never reports the double use of an inode ID.
THEOREM NoDoubleUse ==
    Spec => [](\A t \in Threads : pc[t] = "insert" => newid[t] \notin data)
<1>1. IInv => \A t \in Threads : pc[t] = "insert" => newid[t] \notin data
  BY DEF IInv, FreshIds
<1> QED
  BY Invariance, <1>1, PTL
=============================================================================
