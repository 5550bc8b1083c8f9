# virtiofsd in TLA+

virtiofsd serves a directory of the host to a guest. The guest's kernel puts FUSE
requests on virtqueues. An event loop takes them off and hands them to worker threads,
which carry them out with system calls on the host. This project models the daemon from
the virtqueue to the system call, together with its live migration and the
notifications that keep the guest's caches fresh. TLC checks the models on small
instances, and TLAPS proves the main invariants of three of them. Definitions are
translated from the code; `PROJECT.json` gives the lines behind each of them.

## The system and its parts

| part | source (below `src/`) | here |
|---|---|---|
| inode store, references, LOOKUP and FORGET | `passthrough/inode_store.rs`, `passthrough/mod.rs` | `InodeStore`, proofs |
| handles and the guest's descriptor limit | `passthrough/guest_fd_limit.rs`, `passthrough/mod.rs` | `OpenFiles` |
| mount descriptors | `passthrough/mount_fd.rs` | `MountFds`, proofs |
| dentry index | `passthrough/dentry_index.rs` | `DentryIndex`, proofs |
| push invalidation | `notify_invalidate/`, `vhost_user.rs` (notifier) | `PushInvalidation` (uses `DentryIndex`) |
| virtqueues, event loop, thread pool | `vhost_user.rs` | `VhostQueues` |
| live migration | `vhost_user.rs`, `passthrough/device_state/` | `Migration`, abstract: `Handover` |
| FUSE server | `server.rs` | `Server` |
| file system operations, credentials and other guards | `passthrough/mod.rs`, `passthrough/credentials.rs` | `FileOps`, `PassthroughFs` |
| read-only shares | `passthrough/read_only.rs` | `ReadOnly` |
| a guest's sessions | | `Requests` (composes the three rows above) |
| xattr names, ids, open flags | `passthrough/xattrmap.rs`, `soft_idmap/`, `passthrough/open_flags.rs` | `XattrMap`, `SoftIdMap`, `OpenFlags`; samples in `Conversions` |
| descriptor chains | `descriptor_utils.rs` | `DescriptorChain` |
| directory reading | `read_dir.rs`, `server.rs` | `ReadDir` |
| file handles, stat | `passthrough/file_handle.rs`, `passthrough/stat.rs` | inputs of the models |
| sandbox, seccomp, limits, options, OS wrappers | `sandbox.rs`, `idmap.rs`, `seccomp.rs`, `limits.rs`, `main.rs`, `oslib.rs`, `util.rs`, ... | not modelled |

Workers call the server, which calls the file system. The file system looks inodes up in
the inode store, opens files within the descriptor limit, and keeps the dentry index up to
date. The watcher's pipeline reads that index to turn host events into notifications for
the guest. A migration walks the inode store while requests go on.

The models cut the system in two ways. `InodeStore`, `OpenFiles`, `MountFds`,
`PushInvalidation`, `VhostQueues` and `Migration` interleave threads: a step is one
critical section or one system call, and they keep only the state the race is about.
`Requests` runs whole requests one after the other and keeps all the state a request
touches, with every error path.

## Modules

**InodeStore.** `data`, `by_ids` and `by_handle` are the three maps, `refcount` the
atomic counter of an `InodeData`, `parentRef` the strong reference inside its
migration info. A LOOKUP opens the name, claims an inode, builds an `InodeData` if there
is none, draws an ID, inserts, and replies. Dropping the last reference may drop the
parent's in turn; `todo` holds the drops left in a section. Host files appear and
disappear at any time, and an inode number is reused unless a descriptor pins it.
`Destroy` and `InitFs` happen when no request is in flight.

**OpenFiles.** Every step of LOOKUP, OPEN, CREATE, READ/WRITE, RELEASE, FORGET and
DESTROY that opens a descriptor, takes a slot of the semaphore or can fail in between.
Claiming and inserting an inode are single steps here; `InodeStore` looks inside. Making
a file handle or migration info for a new inode may fail, and so may setting a security
context, after which the name is removed and the raw descriptor is nobody's.

**MountFds.** The map of weak references and the threads that look up, open, insert
and drop; a drop is two steps, the count and the removal of the entry.

**DentryIndex.** The forward map (parent, name) to inode and the reverse map, with
`insert`, `rename`, `remove`, `forget_inode` and `resolve_path`.

**PushInvalidation.** Host changes, the kernel's queue, events that the back end loses and
reports as such, the bounded channel with its overflow signal, the translator (one notification per step), the notification
buffers, worker threads with their requests, and the guest's caches. The dentry
index is an instance of `DentryIndex`. Paths have one component.

**VhostQueues.** Available and used ring, the two event indices, the kick and
interrupt eventfds, the event loop and the workers. Re-enabling kicks is two steps
(write the index, look again), and so is the driver's re-enabling of interrupts.
`virtio-queue` and the guest's driver are external and modelled from their use.

**Migration.** `src` and `dst` are the inode stores of the two daemons. Two processes
run on the source: the one serving the guest, and the premigration thread, which becomes
the migration thread. The latter collects paths from `/proc/self/fd`, falls back to a
walk of the tree, or collects file handles; then it checks the paths. Each walk is one
step per opened name and one per result stored, so UNLINK, RENAME and LOOKUP come in
between. The front-end sets and clears F_LOG_ALL (which cancels and joins the thread),
saves, asks for the result, and lets the destination load the stream entry by entry. The
destination's tree may lack a file, and its shared directory may be another one than the
source's, which a stream with file handles reveals: that ends the load.

**Handover.** What a migration promises to the guest, without threads, paths or streams:
the inodes it holds belong to the source, are in transit, or belong to the destination;
in transit nothing changes, on arrival each stands for the same file or is marked
invalid, with as many references as before, and every transit ends. `Migration`
implements it: the refinement mapping takes the table and the references from the store
that currently serves the guest.

**FileOps, PassthroughFs, ReadOnly, Server.** A handler is a chain of host calls, each
of which may fail, and each failure returns at once. So a handler is an operator from a
state to the set of its outcomes; `Then` chains two of them, and a scope guard changes
the thread, runs its body, and undoes the change in every outcome. `FileOps` has the
helpers and guards, `PassthroughFs` one operator per method of the `FileSystem` trait,
`ReadOnly` the wrapper, `Server` one operator per FUSE opcode. An answer is a reply, no
reply, or the end of the daemon (`vhost_user.rs` exits when a request cannot be decoded).

**Requests.** A guest that writes its requests as the reply to its INIT told it to, keeps
count of the references it was given, and may mount again at any time.

**XattrMap, SoftIdMap, OpenFlags.** Names are sequences of components, ids words that
wrap around, flags sets of bits. Each module states what a translation is for
(`ComesBack`, `BothWays`, `SameMeaning`) independently of how it is computed. `BothWays`
is about ranges that end inside the id space; see `ForbidsItsRange` below.

**DescriptorChain, ReadDir.** Bytes are numbered, so that order can be seen; a directory
is a row of slots whose cookies are their numbers.

## Runs

| run | instance | shows |
|---|---|---|
| `inode_store` | 2 threads, 3 IDs; files with handles and an inode number reused at once, and files without handles and a number reused when unpinned | reference counts are exact; an inode lives as long as it is referenced; indices are sound; one ID per file; LOOKUP identifies its file |
| `descriptors` | 2 threads, 2 slots, 2 handles; 2 threads, 2 mounts, 4 descriptors | slots agree with open files on all error paths; a handle never changes its file; one live descriptor per mount, dead entries are removed |
| `push` | 2 threads, 1 host change, 1 UNLINK or RENAME; 1 thread, 2 host changes, a channel of 1; both also with a single file and events lost by the back end | the maps stay inverse; caches do not stay stale; cached names are in the index |
| `vhost_queues` | each mode with 2 chains on one queue, and two queues with one chain; indices modulo 3 | no kick or interrupt lost, each chain served once, every request answered |
| `migration` | a nested directory, 10 combinations of options and destinations, up to 2 requests during the preparation | references exact at every step, a usable stream, nothing left behind, and the refinement of `Handover` with its liveness |
| `requests` | 5 command lines, 3 guest kernels, 2 files, 2 names, 2 handles; an INIT, up to two scripted requests and two free ones | requests answered, references as told, user, umask, directory and capabilities of the thread kept, privileges of regular files dropped, read-only host untouched; translations, chains and listings |

`requests` has four kinds of initial states: sessions, samples of the translations,
chains and listings. They share no state; one run explores them side by side. In the same
way `descriptors` holds two independent tables.

Runs that are expected to fail each check what a comment or document says and the
code does not do; `PROJECT.json` quotes the lines:

| run | the code |
|---|---|
| `open_files_leak` | keeps the guest's reference when CREATE fails late |
| `open_files_uncounted` | leaves a descriptor open when a security context cannot be set |
| `push_exchange` | treats RENAME_EXCHANGE as RENAME in the index |
| `push_overflow` | loses the overflow signal when the channel stays full |
| `migration_stale` | does not check again a path that the check itself has refreshed |
| `migration_options` | does not tell the destination's server which options were negotiated |

Disagreements that the modules state but no run checks:

* `NewIdsAreGreater` (`InodeStore`): IDs are drawn before the lock is taken
  (`passthrough/mod.rs:1116`), so inodes can be inserted out of ID order, which the
  comment on `InodeIterator::last_inode` excludes (`inode_store.rs:108`).
* `MissSignalled` (`PushInvalidation`): a notification that finds no buffer is lost
  without the overflow signal that `notifier.rs:114` asks for.
* `AttrsFresh` when a file starts with two names: a change through a name the guest has
  not looked up is not announced, though the guest caches the file under the other
  (`translate.rs:12`).
* `AttrsFresh` with `Canonical = FALSE`: event paths are canonical and the prefix the
  translator strips is not (`translate.rs:223`), so nothing is announced.
* `LoggedOnce` (`MountFds`): two threads can both log a mount's error
  (`mount_fd.rs:444`).

* `ForbidsItsRange` (`SoftIdMap`): the other forms of an id map argument are refused when
  their range leaves the id space, but `forbid-guest` adds base and count unchecked
  (`soft_idmap/mod.rs:329`). For a range that reaches the last id the sum wraps (it panics
  in a build with overflow checks), the entry is empty, and the ids are let through. The
  documentation says that the range is prohibited (`README.md:452` of the repository,
  `main.rs:351`). `IdsMapped` holds the code to it for all other ranges.

Observations from reading the code that are outside what the models state:

* Lock order: `update_inode_migration_info()` (`passthrough/mod.rs:1648`) drops the old
  info, and with it a strong reference, while it holds the inode's `migration_info`
  lock; the drop takes the store's lock. `clear_migration_info()` (`inode_store.rs:283`)
  takes the two in the other order. A RENAME that meets the beginning of a second
  preparation can therefore wait for it, and it for the RENAME, for ever.
* `UnixCredentials::set()` (`passthrough/credentials.rs`) sets groups and the group id
  before the user id; when a later step fails, or when only the groups changed, no guard
  is returned and the thread keeps them. `FileOps` does the same, so `IdentityKept` is about
  the user id and not about the group id and the groups.
* `do_mknod_mkdir_symlink_secctx()` does not close the descriptor it opens.
* `clear_file_capabilities()` returns at once for anything but a regular file, so that a
  directory or device keeps what was stored under the mapped name of the capability.
  `PrivilegesDropped` is about regular files.
* FALLOCATE and COPY_FILE_RANGE leave a remapped file capability alone, unlike WRITE;
  `PrivilegesDropped` is about the requests that clear it.
* OPEN with O_TRUNC truncates before it clears the capability: when the latter fails the
  guest gets an error and the file is truncated.
* The comment on `DescriptorChainConsumer::consume` says that the buffers handed out
  together hold at most `count` bytes; the last one is handed out whole.
* A listing that has to walk to its cookie ends early if the entry with that cookie has
  been removed. On macOS offsets count entries, so any change in front of one shifts the
  rest of the listing. `ReadDir` leaves out exactly these changes.
* An xattrmap without a terminating rule is accepted and panics when no rule matches.

### Bounds

Every bound is a constant. Two threads are enough for each race here, since each is
between two critical sections. ID and handle bounds (3 and 2) allow a second inode
after one is forgotten. Bounds on counters (`MaxGuestRefs`, `MaxRefs`, `MaxStrong`, and
the fields of `Setups`) are guards of the actions that start something, so that nothing
started is cut off. Ring indices are not bounded but wrap around; the code needs only that
there are fewer chains than index values.

`push` stops following a behaviour once an event or a notification was lost without a
signal (the constraint `NothingLost`): from there on the caches cannot be fresh, which is
what `push_overflow` and `MissSignalled` are about. An overflow that is signalled is
followed.

In `migration`, two requests during a preparation are enough to invalidate a path that was
just refreshed (`migration_stale` needs both); the nested directory is known to the guest in
some setups and only added by the walks in others.

In `requests`, `MaxRequests` counts INITs and the free requests after the script, which
opens a file or the directory; a session is INIT, two scripted requests and two free ones,
or up to three INITs with different capabilities. Most properties need an open file, one
request to change it and one to look. The samples of the translations are complete within
their bounds: all pairs of id map arguments over 4 ids, names of up to 3 components, up to
3 flags in an open.

In `PushInvalidation`, `Rest` is the state in which nothing is left to do, in
`VhostQueues`, `Gone` is the one after `process::exit()`, and in `Migration`, `Quiet` is
one in which nobody wants anything; deadlock is checked everywhere else. `requests` may
stop at its bound.

### Fairness

In `VhostQueues` the event loop, each worker and the guest's driver are weakly fair: they
are threads that do not wait for anything but their input. The start of work on a queue is
strongly fair, since epoll reports ready descriptors in turn. Adding requests is not fair.
`Answered` makes no promise for a queue while the event loop stays with another one for
ever: the code serves a queue until it is empty, and a guest can keep it from being empty.

In `Migration` the migration threads and the loading destination are weakly fair, and so
is the front-end once it has stopped the guest for a transfer. What enables them is written
out (`MigCan`, `FrontEndCan`). Requests and the decision to migrate are not fair. This is
what makes every transit of `Handover` end.

## Proofs

TLAPS proves, for every value of the constants that satisfies the named assumptions:

* The inode store: `TypeOK`, `IndexSound`, `RefAccounting`, `LiveWhileReferenced`,
  `LookupIdentity`, `OneIdPerFile`, and that `get_or_insert()` never meets an ID in
  use. Assumptions: files with equal (inode, device, mount) agree on having handles;
  threads are finite. The inductive invariant `IInv` adds to the checked properties
  that every live file is in the index (`IndexComplete`), what a thread holds at each
  step (`ThreadRefs`), that drawn IDs are distinct and not in the store (`FreshIds`),
  that inodes outside the store hold no references (`NoInfoLeft`), and that two files
  that are linked or pinned never share an inode number (`HostUnique`). The counts need
  lemmas on how the number of holders of a reference changes when one thread takes or
  gives up its own. `InodeStoreInvariant` states `IInv` and shows that it holds initially
  and that every step keeps the types and the indices; `InodeStoreRefs` treats threads,
  drawn IDs and reference counts; `InodeStoreLinks` what is in the store;
  `InodeStoreHost` inode numbers and files; `InodeStoreProofs` puts them together.
* `DentryIndexProofs`: `MapsInverse` for every sequence of operations, with one lemma per
  operation.
* `MountFdsProofs`: `OneFdPerMount` and `NoDeadEntry`. The strengthening: an entry is
  filed under its own mount, and a descriptor being dropped has no references.

Only model-checked: everything else. Liveness (`Answered`, and the end of a transit in
`Handover`) and anything with `ENABLED` is out of TLAPS's reach, as is what a recursive
definition computes for all inputs (`XattrMap`, `ReadDir`, `Server`'s READDIRPLUS).

## Not modelled

* Start-up: options, sandbox, ID map set-up, seccomp, resource limits. It is sequential
  and made of system calls; what it decides is a constant of the models.
* Contents of files, formats of messages (`fuse.rs`, `postcard`), parsing of `mountinfo`
  and of option strings, logging, and which errno a failed call has.
* Guests that break the protocol, such as one that forgets more than it looked up, whose
  BATCH_FORGET is too long (it is answered with ENOMEM), or whose notification buffers are
  too small or not writable.
* Lookups of `.` and `..`; requests in flight during DESTROY; the dentry index across a
  DESTROY, which does not clear it.
* Directories below the shared one in `PushInvalidation` and `Requests`, and FSEvents.
* Other processes changing the share during a request, except in `InodeStore`,
  `PushInvalidation` and `ReadDir`.
* Streams that no source writes: the older version, absolute locations, an ID twice.
* A front-end that starts a second transfer, or a second preparation, before it has asked
  for the result of the first transfer. Changes of guest memory and of the configuration space in `VhostQueues`.
* Locks as such: a critical section is one step.
