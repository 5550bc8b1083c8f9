------------------------------ MODULE MountFds ------------------------------
(***************************************************************************)
(* The cache of mount descriptors (passthrough/mount_fd.rs): opening a     *)
(* file handle needs a descriptor on its mount, and all inodes of a mount  *)
(* share one.  The map holds weak pointers, so an entry goes away with the *)
(* last Arc<MountFd>; the entry is removed by Drop, which takes the lock   *)
(* of the map only after the count has reached zero.                       *)
(***************************************************************************)
EXTENDS Integers, FiniteSets

CONSTANTS
    Mounts,     \* mount IDs
    Fds,        \* MountFd objects
    NoFd,
    Openers,    \* threads that open file handles
    MaxStrong   \* bound: Arcs on one MountFd

ASSUME MountAssumption == NoFd \notin Fds /\ MaxStrong \in Nat \ {0}

VARIABLES
    map,            \* MountFds::map: the object a weak pointer points to
    strong,         \* strong count of each object
    mount_id,       \* MountFd::mount_id
    dropping,       \* objects whose count is zero and whose Drop is still to run
    error_logged,   \* MountFds::error_logged
    reported,       \* mounts for which an error was logged, and how often
    doing, want     \* step of each thread, mount it needs

mapVars == <<map, strong, mount_id, dropping>>
logVars == <<error_logged, reported>>
openerVars == <<doing, want>>
mountVars == <<mapVars, logVars, openerVars>>

Step(t, step) == doing' = [doing EXCEPT ![t] = step]

\* Weak::upgrade() of the map's entry succeeds.
Upgradable(m) == map[m] # NoFd /\ strong[map[m]] > 0

Upgrade(m) ==
    /\ strong[map[m]] < MaxStrong
    /\ strong' = [strong EXCEPT ![map[m]] = @ + 1]
    /\ UNCHANGED <<map, mount_id, dropping>>

\* get(): under the read lock.
Get(t, m) ==
    /\ doing[t] = "idle"
    /\ \/ /\ Upgradable(m)
          /\ Upgrade(m)
          /\ UNCHANGED openerVars
       \/ /\ ~Upgradable(m)
          /\ Step(t, "open")
          /\ want' = [want EXCEPT ![t] = m]
          /\ UNCHANGED mapVars
    /\ UNCHANGED logVars

\* MountFd::new(): the path is opened whether there is an entry or not.
New(t, m) ==
    /\ doing[t] = "idle"
    /\ Step(t, "insert")
    /\ want' = [want EXCEPT ![t] = m]
    /\ UNCHANGED <<mapVars, logVars>>

\* get(): find the mount point, check its mount ID and type and open it,
\* without the lock; every step may fail.
OpenMount(t) ==
    /\ doing[t] = "open"
    /\ \/ Step(t, "insert")
       \/ Step(t, "error")
    /\ UNCHANGED <<want, mapVars, logVars>>

\* get() and MountFd::new(): under the write lock, use the entry another thread
\* has added in the meantime, or add a new object.
Insert(t) ==
    /\ doing[t] = "insert"
    /\ \/ /\ Upgradable(want[t])
          /\ Upgrade(want[t])
       \/ /\ ~Upgradable(want[t])
          /\ \E x \in Fds \ dropping :
               /\ strong[x] = 0
               /\ \A m \in Mounts : map[m] # x
               /\ strong' = [strong EXCEPT ![x] = 1]
               /\ mount_id' = [mount_id EXCEPT ![x] = want[t]]
               /\ map' = [map EXCEPT ![want[t]] = x]
               /\ UNCHANGED dropping
    /\ Step(t, "idle")
    /\ UNCHANGED <<want, logVars>>

\* error_for_nolookup(): under the read lock, has an error been logged before?
CheckLogged(t) ==
    /\ doing[t] = "error"
    /\ Step(t, IF want[t] \in error_logged THEN "idle" ELSE "log")
    /\ UNCHANGED <<want, mapVars, logVars>>

\* error_for_nolookup(): under the write lock, now one is; the error is logged.
Log(t) ==
    /\ doing[t] = "log"
    /\ error_logged' = error_logged \cup {want[t]}
    /\ reported' = [reported EXCEPT ![want[t]] = @ + 1]
    /\ Step(t, "idle")
    /\ UNCHANGED <<want, mapVars>>

\* An OpenableFileHandle that holds an Arc<MountFd> is dropped.
ReleaseArc(x) ==
    /\ strong[x] > 0
    /\ strong' = [strong EXCEPT ![x] = @ - 1]
    /\ dropping' = IF strong[x] = 1 THEN dropping \cup {x} ELSE dropping
    /\ UNCHANGED <<map, mount_id, logVars, openerVars>>

\* Mutant: Drop removes the entry of its mount ID, whatever it points to.
DropAnyEntry(x) ==
    /\ x \in dropping
    /\ map' = [map EXCEPT ![mount_id[x]] = NoFd]
    /\ dropping' = dropping \ {x}
    /\ UNCHANGED <<strong, mount_id, logVars, openerVars>>

\* Mutant: Drop leaves the map alone.
DropKeepsEntry(x) ==
    /\ x \in dropping
    /\ dropping' = dropping \ {x}
    /\ UNCHANGED <<map, strong, mount_id, logVars, openerVars>>

\* Drop for MountFd: remove the entry if the object it points to is dead.
DropEntry(x) ==
    LET m == mount_id[x]
    IN  /\ x \in dropping
        /\ map' = IF map[m] # NoFd /\ strong[map[m]] = 0
                    THEN [map EXCEPT ![m] = NoFd] ELSE map
        /\ dropping' = dropping \ {x}
        /\ UNCHANGED <<strong, mount_id, logVars, openerVars>>

\* MountFds::new().
MountInit ==
    /\ map = [m \in Mounts |-> NoFd]
    /\ strong = [x \in Fds |-> 0]
    /\ mount_id \in [Fds -> Mounts]
    /\ dropping = {}
    /\ error_logged = {}
    /\ reported = [m \in Mounts |-> 0]
    /\ doing = [t \in Openers |-> "idle"]
    /\ want \in [Openers -> Mounts]

MountNext ==
    \/ \E t \in Openers, m \in Mounts : Get(t, m) \/ New(t, m)
    \/ \E t \in Openers : OpenMount(t) \/ Insert(t) \/ CheckLogged(t) \/ Log(t)
    \/ \E x \in Fds : ReleaseArc(x) \/ DropEntry(x)

MountSpec == MountInit /\ [][MountNext]_mountVars

-----------------------------------------------------------------------------
(* Properties.                                                             *)

\* The variables have their types.
MountTypes ==
    /\ map \in [Mounts -> Fds \cup {NoFd}]
    /\ strong \in [Fds -> 0..MaxStrong]
    /\ mount_id \in [Fds -> Mounts]
    /\ dropping \subseteq Fds
    /\ error_logged \subseteq Mounts
    /\ reported \in [Mounts -> Nat]
    /\ doing \in [Openers -> {"idle", "open", "insert", "error", "log"}]
    /\ want \in [Openers -> Mounts]

\* Every live MountFd is the one that get() finds for its mount: inodes of one
\* mount share one descriptor, even if a thread opens it while another one is
\* in the middle of dropping its predecessor.
OneFdPerMount ==
    \A x \in Fds : strong[x] > 0 => map[mount_id[x]] = x

\* "A key gets removed from the map, when the last Arc<MountFd> for that mount
\* ID is dropped": a dead entry is left only as long as a Drop is running.
NoDeadEntry ==
    \A m \in Mounts : map[m] # NoFd /\ strong[map[m]] = 0 => map[m] \in dropping

\* "we only want to log them once per filesystem": one error per mount that is
\* not silenced.
LoggedOnce ==
    \A m \in Mounts : reported[m] <= 1
=============================================================================
