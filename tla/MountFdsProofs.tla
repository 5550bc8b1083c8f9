--------------------------- MODULE MountFdsProofs ---------------------------
(***************************************************************************)
(* Proof that all inodes of a mount share one descriptor and that the map  *)
(* keeps no dead entry, for any number of mounts, threads and descriptors. *)
(***************************************************************************)
EXTENDS MountFds, TLAPS

\* An entry points to an object of its mount.
EntryMatches ==
    \A m \in Mounts : map[m] # NoFd => mount_id[map[m]] = m

\* Only objects without Arcs are dropped.
DroppingDead ==
    \A x \in dropping : strong[x] = 0

Types ==
    /\ map \in [Mounts -> Fds \cup {NoFd}]
    /\ strong \in [Fds -> 0..MaxStrong]
    /\ mount_id \in [Fds -> Mounts]
    /\ dropping \subseteq Fds
    /\ want \in [Openers -> Mounts]

Inv == Types /\ OneFdPerMount /\ NoDeadEntry /\ EntryMatches /\ DroppingDead

\* MountFds::new() starts with an empty map.
LEMMA InitInv == MountInit => Inv
BY MountAssumption DEF MountInit, Inv, Types, OneFdPerMount, NoDeadEntry, EntryMatches,
     DroppingDead

\* Upgrading a weak pointer to a live object keeps the invariant.
LEMMA UpgradeInv ==
    ASSUME Inv, NEW m \in Mounts, Upgradable(m), Upgrade(m), want' \in [Openers -> Mounts]
    PROVE  Inv'
<1> USE MountAssumption DEF Upgradable, Upgrade
<1> DEFINE x == map[m]
<1>1. x \in Fds /\ strong[x] \in 1..MaxStrong
  BY DEF Inv, Types
<1>2. Types'
  BY <1>1 DEF Inv, Types
<1>3. \A y \in Fds : strong'[y] > 0 <=> strong[y] > 0
  BY <1>1 DEF Inv, Types
<1>4. \A y \in Fds : strong'[y] = 0 <=> strong[y] = 0
  BY <1>1 DEF Inv, Types
<1>5. OneFdPerMount' /\ EntryMatches'
  BY <1>3 DEF Inv, Types, OneFdPerMount, EntryMatches
<1>6. NoDeadEntry' /\ DroppingDead'
  BY <1>4 DEF Inv, Types, NoDeadEntry, DroppingDead
<1> QED
  BY <1>2, <1>5, <1>6 DEF Inv

\* A step that leaves the map and its objects alone keeps the invariant.
LEMMA UnchangedInv ==
    ASSUME Inv, UNCHANGED mapVars, want' \in [Openers -> Mounts]
    PROVE  Inv'
BY DEF Inv, Types, OneFdPerMount, NoDeadEntry, EntryMatches, DroppingDead, mapVars

\* Under the write lock, a new object takes the place of a dead one or of none.
LEMMA NewObjectInv ==
    ASSUME Inv, NEW m \in Mounts, ~Upgradable(m), NEW x \in Fds \ dropping,
           strong[x] = 0, \A k \in Mounts : map[k] # x,
           strong' = [strong EXCEPT ![x] = 1],
           mount_id' = [mount_id EXCEPT ![x] = m],
           map' = [map EXCEPT ![m] = x],
           dropping' = dropping, want' = want
    PROVE  Inv'
<1> USE MountAssumption
<1>1. Types'
  BY DEF Inv, Types
<1>2. OneFdPerMount'
  <2>1. SUFFICES ASSUME NEW y \in Fds, strong'[y] > 0 PROVE map'[mount_id'[y]] = y
    BY DEF OneFdPerMount
  <2>2. CASE y = x
    BY <2>2 DEF Inv, Types
  <2>3. CASE y # x
    <3>1. strong[y] > 0 /\ mount_id'[y] = mount_id[y] /\ map[mount_id[y]] = y
      BY <2>1, <2>3 DEF Inv, Types, OneFdPerMount
    <3>2. mount_id[y] # m
      BY <3>1 DEF Upgradable, Inv, Types
    <3> QED
      BY <3>1, <3>2 DEF Inv, Types
  <2> QED
    BY <2>2, <2>3
<1>3. NoDeadEntry'
  BY DEF Inv, Types, NoDeadEntry
<1>4. EntryMatches'
  BY DEF Inv, Types, EntryMatches
<1>5. DroppingDead'
  BY DEF Inv, Types, DroppingDead
<1> QED
  BY <1>1, <1>2, <1>3, <1>4, <1>5 DEF Inv

\* Dropping an Arc, the last one included.
LEMMA ReleaseInv ==
    ASSUME Inv, NEW x \in Fds, ReleaseArc(x)
    PROVE  Inv'
<1> USE MountAssumption DEF ReleaseArc, openerVars
<1>1. Types'
  BY DEF Inv, Types
<1>2. OneFdPerMount'
  BY DEF Inv, Types, OneFdPerMount
<1>3. NoDeadEntry'
  BY DEF Inv, Types, NoDeadEntry
<1>4. EntryMatches'
  BY DEF Inv, Types, EntryMatches
<1>5. DroppingDead'
  BY DEF Inv, Types, DroppingDead
<1> QED
  BY <1>1, <1>2, <1>3, <1>4, <1>5 DEF Inv

\* Drop removes the entry only if it points to a dead object.
LEMMA DropInv ==
    ASSUME Inv, NEW x \in Fds, DropEntry(x)
    PROVE  Inv'
<1> USE MountAssumption DEF DropEntry, openerVars
<1>1. Types'
  BY DEF Inv, Types
<1>2. OneFdPerMount'
  BY DEF Inv, Types, OneFdPerMount
<1>3. NoDeadEntry'
  BY DEF Inv, Types, NoDeadEntry, EntryMatches
<1>4. EntryMatches'
  BY DEF Inv, Types, EntryMatches
<1>5. DroppingDead'
  BY DEF Inv, Types, DroppingDead
<1> QED
  BY <1>1, <1>2, <1>3, <1>4, <1>5 DEF Inv

\* Every step keeps the invariant.
LEMMA NextInv == ASSUME Inv, [MountNext]_mountVars PROVE Inv'
<1>1. ASSUME NEW t \in Openers, NEW m \in Mounts, Get(t, m) PROVE Inv'
  <2>1. CASE Upgradable(m) /\ Upgrade(m) /\ UNCHANGED openerVars
    BY <2>1, UpgradeInv DEF openerVars, Inv, Types
  <2>2. CASE UNCHANGED mapVars /\ want' = [want EXCEPT ![t] = m]
    BY <2>2, UnchangedInv DEF Inv, Types
  <2> QED
    BY <1>1, <2>1, <2>2 DEF Get
<1>2. ASSUME NEW t \in Openers, NEW m \in Mounts, New(t, m) PROVE Inv'
  <2>1. UNCHANGED mapVars /\ want' \in [Openers -> Mounts]
    BY <1>2 DEF New, Inv, Types
  <2> QED
    BY <2>1, UnchangedInv
<1>3. ASSUME NEW t \in Openers, Insert(t) PROVE Inv'
  <2>1. want[t] \in Mounts /\ want' = want /\ want' \in [Openers -> Mounts]
    BY <1>3 DEF Insert, Inv, Types
  <2>2. CASE Upgradable(want[t]) /\ Upgrade(want[t])
    BY <2>1, <2>2, UpgradeInv
  <2>3. CASE ~Upgradable(want[t])
    <3>1. PICK x \in Fds \ dropping :
            /\ strong[x] = 0
            /\ \A k \in Mounts : map[k] # x
            /\ strong' = [strong EXCEPT ![x] = 1]
            /\ mount_id' = [mount_id EXCEPT ![x] = want[t]]
            /\ map' = [map EXCEPT ![want[t]] = x]
            /\ dropping' = dropping
      BY <1>3, <2>3 DEF Insert
    <3> QED
      BY <2>1, <2>3, <3>1, NewObjectInv
  <2> QED
    BY <1>3, <2>2, <2>3 DEF Insert
<1>4. ASSUME NEW t \in Openers, OpenMount(t) \/ CheckLogged(t) \/ Log(t) PROVE Inv'
  <2>1. UNCHANGED mapVars /\ want' = want
    BY <1>4 DEF OpenMount, CheckLogged, Log
  <2> QED
    BY <2>1, UnchangedInv DEF Inv, Types
<1>5. CASE UNCHANGED mountVars
  BY <1>5, UnchangedInv DEF mountVars, openerVars, Inv, Types
<1> QED
  BY <1>1, <1>2, <1>3, <1>4, <1>5, ReleaseInv, DropInv DEF MountNext

-----------------------------------------------------------------------------
\* Whatever threads open, drop and look up mounts in whichever order, a live
\* MountFd is the one its mount's entry points to.
THEOREM SharedDescriptor == MountSpec => []OneFdPerMount
<1>1. Inv /\ [MountNext]_mountVars => Inv'
  BY NextInv
<1>2. Inv => OneFdPerMount
  BY DEF Inv
<1> QED
  BY <1>1, <1>2, InitInv, PTL DEF MountSpec

\* No entry of a dead MountFd stays in the map once its Drop has run.
THEOREM DeadEntriesRemoved == MountSpec => []NoDeadEntry
<1>1. Inv /\ [MountNext]_mountVars => Inv'
  BY NextInv
<1>2. Inv => NoDeadEntry
  BY DEF Inv
<1> QED
  BY <1>1, <1>2, InitInv, PTL DEF MountSpec
=============================================================================
