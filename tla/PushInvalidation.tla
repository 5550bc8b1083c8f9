-------------------------- MODULE PushInvalidation --------------------------
(***************************************************************************)
(* Push-based cache invalidation (notify_invalidate/): a change that       *)
(* another process makes to the shared directory travels from the kernel's *)
(* event queue through the watcher's bounded channel to the translator,    *)
(* which resolves the path in the dentry index and writes FUSE             *)
(* notifications into the buffers of the virtio notification queue.  At    *)
(* the same time worker threads serve the guest's requests and keep the    *)
(* index up to date.                                                       *)
(*                                                                         *)
(* The shared directory is flat here: a path is one name below the root.   *)
(* The guest kernel is modelled as far as the protocol needs it: a cache   *)
(* of dentries and attributes, the lock of the parent directory, which     *)
(* LOOKUP of a new name takes shared and UNLINK, RENAME and INVAL_ENTRY    *)
(* take exclusively, and the rule that an answer older than an INVAL_INODE *)
(* does not set attributes.                                                *)
(***************************************************************************)
EXTENDS DentryIndex, FiniteSets, FiniteSetsExt

CONSTANTS
    NoName,
    Files, NoFile,
    Canonical,      \* --shared-dir was given as a canonical path
    Renames,        \* the renames the guest makes: RENAME, EXCHANGE (a flag)
    Threads,        \* threads that handle requests
    MaxInode,       \* bound: inode IDs
    Buffers,        \* buffers the guest puts on the notification queue
    Setups          \* the situations to start in, each with its bounds:
                    \*   dir      what the names refer to
                    \*   channel  EVENT_CHANNEL_SIZE
                    \*   busy     requests at a time
                    \*   lookups  lookups the guest holds
                    \*   changes  changes other processes make
                    \*   ops      UNLINK and RENAME requests
                    \*   lossy    the back end of the watcher may lose events

ASSUME PushAssumption ==
    /\ NoName \notin Names /\ NoFile \notin Files
    /\ Canonical \in BOOLEAN
    /\ Renames \subseteq {"RENAME", "EXCHANGE"}
    /\ MaxInode \in Nat /\ Inodes = 1..MaxInode /\ NoInode = 0
    /\ Buffers \in Nat
    /\ \A s \in Setups :
         /\ s.dir \in [Names -> Files \cup {NoFile}]
         /\ {s.channel, s.busy, s.lookups, s.changes, s.ops} \subseteq Nat
         /\ s.lossy \in BOOLEAN

VARIABLES
    setup,                      \* the situation chosen
    dir, ver, changes, ops,     \* the host: names, version of each file, bounds
    sfile, refs, next_inode,    \* the inode store: file and count of each ID
    raw, chan, full,            \* kernel's queue, watcher's channel, its 2nd try
    work,                       \* what the translator has left of its event
    installed, notif,           \* notification queue: kicked yet, in flight
    gdentry, gattr, glookups,   \* the guest's dentries, attributes, lookups
    pc, req, node, attr,        \* threads: step, request, result
    newer,                      \* inodes invalidated since the request was sent
    raced,                      \* names, files looked up while they changed
    dropped, missed, overflowed \* an event was lost; errors of send(); bulk run

hostVars == <<setup, dir, ver, changes, ops>>
storeVars == <<sfile, refs, next_inode>>
pipeVars == <<raw, chan, full, work, installed, notif>>
guestVars == <<gdentry, gattr, glookups>>
threadVars == <<pc, req, node, attr, newer>>
flagVars == <<raced, dropped, missed, overflowed>>
vars == <<hostVars, indexVars, storeVars, pipeVars, guestVars, threadVars, flagVars>>

ROOT_ID == 1
Children == 2..MaxInode
Unknown == -1       \* no attributes cached

SeqExt == INSTANCE SequencesExt

Key(nm) == <<ROOT_ID, nm>>

\* Translator: resolve_path() of a path below the shared directory.
Leaf(nm) == Resolve(ROOT_ID, <<nm>>)

-----------------------------------------------------------------------------
(* The host.                                                               *)

\* Names that a LOOKUP has opened but not answered yet, and their files.
Looking == {t \in Threads : pc[t] \in {"insert", "dentry", "reply"} /\ req[t].op = "LOOKUP"}
LookedUp ==
    {req[t].old : t \in Looking}
      \cup {IF pc[t] = "insert" THEN node[t] ELSE sfile[node[t]] : t \in Looking}

\* Another process changes something, and the kernel queues the event.  (Bound:
\* the kernel's queue holds the events of one change at a time.)
Change(d, v, what, event) ==
    /\ changes < setup.changes
    /\ raw = <<>>
    /\ changes' = changes + 1
    /\ dir' = d
    /\ ver' = v
    /\ raw' = Append(raw, event)
    /\ raced' = raced \cup (what \cap LookedUp)
    /\ UNCHANGED <<setup, ops, indexVars, storeVars, chan, full, work, installed, notif,
                   guestVars, threadVars, dropped, missed, overflowed>>

Event(kind, from, to) == [kind |-> kind, from |-> from, to |-> to]

HostModify(nm) ==
    /\ dir[nm] # NoFile
    /\ Change(dir, [ver EXCEPT ![dir[nm]] = @ + 1],
              {dir[nm]} \cup {m \in Names : dir[m] = dir[nm]},
              Event("Modify", nm, NoName))

HostRemove(nm) ==
    /\ dir[nm] # NoFile
    /\ Change([dir EXCEPT ![nm] = NoFile], ver, {nm}, Event("Remove", nm, NoName))

\* A file that was outside, or is new, appears under the name.
HostCreate(nm, f) ==
    /\ \A m \in Names : dir[m] # f
    /\ Change([dir EXCEPT ![nm] = f], ver, {nm},
              IF dir[nm] = NoFile THEN Event("Create", nm, NoName)
                                  ELSE Event("Rename", NoName, nm))

HostRename(nm, m) ==
    /\ dir[nm] # NoFile /\ dir[nm] # dir[m]
    /\ Change([dir EXCEPT ![nm] = NoFile, ![m] = dir[nm]], ver, {nm, m},
              Event("Rename", nm, m))

-----------------------------------------------------------------------------
(* The watcher: handle_raw_event().                                        *)

\* Mutant: the channel has no bound.
WatchUnbounded ==
    /\ ~full
    /\ raw # <<>>
    /\ raw' = Tail(raw)
    /\ chan' = Append(chan, Head(raw))
    /\ UNCHANGED <<hostVars, indexVars, storeVars, full, work, installed, notif,
                   guestVars, threadVars, flagVars>>

\* try_send(): the event goes into the channel, or there is no room for it.
Watch ==
    /\ ~full
    /\ raw # <<>>
    /\ raw' = Tail(raw)
    /\ \/ /\ Len(chan) < setup.channel
          /\ chan' = Append(chan, Head(raw))
          /\ UNCHANGED full
       \/ /\ Len(chan) >= setup.channel
          /\ full' = TRUE
          /\ UNCHANGED chan
    /\ UNCHANGED <<hostVars, indexVars, storeVars, work, installed, notif,
                   guestVars, threadVars, flagVars>>

\* Mutant: the event is dropped without Overflow.
WatchFullSilent ==
    /\ full
    /\ full' = FALSE
    /\ UNCHANGED <<hostVars, indexVars, storeVars, raw, chan, work, installed,
                   notif, guestVars, threadVars, flagVars>>

\* The event is dropped, and Overflow is sent the same way in its place.
WatchFull ==
    /\ full
    /\ full' = FALSE
    /\ \/ /\ Len(chan) < setup.channel
          /\ chan' = Append(chan, Event("Overflow", NoName, NoName))
          /\ UNCHANGED dropped
       \/ /\ Len(chan) >= setup.channel
          /\ dropped' = TRUE
          /\ UNCHANGED chan
    /\ UNCHANGED <<hostVars, indexVars, storeVars, raw, work, installed, notif,
                   guestVars, threadVars, raced, missed, overflowed>>

\* The back end lost the event and says so: by an event of kind Other, which
\* classify() makes an Overflow and which is sent as any other event, or by an
\* error, for which Overflow is tried once.
WatchLost ==
    /\ setup.lossy /\ ~full
    /\ raw # <<>>
    /\ raw' = Tail(raw)
    /\ \/ /\ Len(chan) < setup.channel
          /\ chan' = Append(chan, Event("Overflow", NoName, NoName))
          /\ UNCHANGED <<full, dropped>>
       \/ /\ Len(chan) >= setup.channel
          /\ \/ full' = TRUE /\ UNCHANGED dropped
             \/ dropped' = TRUE /\ UNCHANGED full
          /\ UNCHANGED chan
    /\ UNCHANGED <<hostVars, indexVars, storeVars, work, installed, notif,
                   guestVars, threadVars, raced, missed, overflowed>>

-----------------------------------------------------------------------------
(* The translator: one event at a time; each notification is sent on its   *)
(* own, and the index can change in between.                               *)

Task(do, n, nm, try) == [do |-> do, inode |-> n, name |-> nm, try |-> try]
Inode(n) == Task("inode", n, NoName, TRUE)
BulkInode(n) == Task("inode", n, NoName, FALSE)
Entry(nm) == Task("entry", NoInode, nm, TRUE)
LeafOf(nm) == Task("leaf", NoInode, nm, TRUE)

Entries(S) == SeqExt!SetToSeq({Entry(nm) : nm \in S \ {NoName}})

\* Mutant: only the new name is invalidated.
RenameToOnly(from, to) == Entries({to})

\* handle_rename(): the inode is resolved before the entries are invalidated.
HandleRename(from, to) ==
    Entries({from}) \o Entries({to})
      \o (IF from # NoName /\ Leaf(from) # NoInode THEN <<Inode(Leaf(from))>>
                                                   ELSE <<>>)

\* bulk_invalidate(): INVAL_INODE for every inode that has a name.
BulkInvalidate == SeqExt!SetToSeq({BulkInode(n) : n \in known \ {ROOT_ID}})

\* relativize(): the watcher reports canonical paths, the prefix that the
\* translator strips is --shared-dir as it was given.
Outside(e) == ~Canonical /\ e.kind # "Overflow"

\* handle(): what one event makes the translator do.
Handle(e) ==
    CASE Outside(e) -> <<>>
      [] e.kind = "Modify" ->
           IF Leaf(e.from) = NoInode THEN <<>> ELSE <<Inode(Leaf(e.from))>>
      [] e.kind = "Create" -> Entries({e.from})
      [] e.kind = "Remove" -> Entries({e.from}) \o <<LeafOf(e.from)>>
      [] e.kind = "Rename" -> HandleRename(e.from, e.to)
      [] e.kind = "Overflow" -> BulkInvalidate

Translate ==
    /\ work = <<>>
    /\ chan # <<>>
    /\ chan' = Tail(chan)
    /\ work' = Handle(Head(chan))
    /\ overflowed' = (overflowed \/ Head(chan).kind = "Overflow")
    /\ UNCHANGED <<hostVars, indexVars, storeVars, raw, full, installed, notif,
                   guestVars, threadVars, raced, dropped, missed>>

\* handle_remove(): the leaf is resolved after the entry was invalidated.
ResolveLeaf ==
    /\ work # <<>> /\ Head(work).do = "leaf"
    /\ work' = IF Leaf(Head(work).name) = NoInode THEN Tail(work)
               ELSE <<Inode(Leaf(Head(work).name))>> \o Tail(work)
    /\ UNCHANGED <<hostVars, indexVars, storeVars, raw, chan, full, installed,
                   notif, guestVars, threadVars, flagVars>>

\* NotifierState::send(): into a buffer of the notification queue, or an error
\* (QueueNotNegotiated, QueueFull) that ends the handling of the event, but not
\* of a bulk invalidation.
Send ==
    /\ work # <<>> /\ Head(work).do # "leaf"
    /\ \/ /\ installed /\ Len(notif) < Buffers
          /\ notif' = Append(notif, Head(work))
          /\ work' = Tail(work)
          /\ UNCHANGED missed
       \/ /\ ~(installed /\ Len(notif) < Buffers)
          /\ work' = IF Head(work).try THEN <<>> ELSE Tail(work)
          /\ missed' = missed \cup {IF installed THEN "QueueFull" ELSE "QueueNotNegotiated"}
          /\ UNCHANGED notif
    /\ UNCHANGED <<hostVars, indexVars, storeVars, raw, chan, full, installed,
                   guestVars, threadVars, raced, dropped, overflowed>>

\* handle_event(): the first kick of the notification queue installs it.
Install ==
    /\ ~installed
    /\ installed' = TRUE
    /\ UNCHANGED <<hostVars, indexVars, storeVars, raw, chan, full, work, notif,
                   guestVars, threadVars, flagVars>>

-----------------------------------------------------------------------------
(* Requests.                                                               *)

Free(t) == pc[t] = "idle"
Idle == \A t \in Threads : Free(t)

\* The guest holds the lock of the parent directory.
Exclusive == \E t \in Threads : ~Free(t) /\ req[t].op \in {"UNLINK", "RENAME", "EXCHANGE"}
Shared == \E t \in Threads : ~Free(t) /\ req[t].op = "LOOKUP" /\ req[t].fresh

Request(o, old, new, fresh, n) ==
    [op |-> o, old |-> old, new |-> new, fresh |-> fresh, inode |-> n, count |-> 0]
NoRequest == Request("none", NoName, NoName, FALSE, NoInode)

Issue(t, r, step) ==
    /\ Free(t)
    /\ Cardinality({u \in Threads : ~Free(u)}) < setup.busy
    /\ pc' = [pc EXCEPT ![t] = step]
    /\ req' = [req EXCEPT ![t] = r]
    /\ newer' = [newer EXCEPT ![t] = {}]
    /\ ops' = IF step = "host" THEN ops + 1 ELSE ops
    /\ ops' <= setup.ops
    /\ UNCHANGED <<setup, dir, ver, changes, indexVars, storeVars, pipeVars, node, attr,
                   flagVars>>

\* The guest looks a name up: a new one, or one it has cached for too long.
IssueLookup(t, nm) ==
    LET fresh == gdentry[nm] = NoInode
    IN  /\ next_inode + Cardinality({u \in Threads : ~Free(u)}) <= MaxInode
        /\ MapThenSumSet(LAMBDA n : glookups[n], Children)
             + Cardinality({u \in Threads : req[u].op = "LOOKUP"}) < setup.lookups
        /\ fresh => /\ ~Exclusive
                    /\ \A u \in Threads : ~Free(u) /\ req[u].fresh => req[u].old # nm
        /\ Issue(t, Request("LOOKUP", nm, NoName, fresh, gdentry[nm]), "open")
        /\ UNCHANGED guestVars

IssueUnlink(t, nm) ==
    /\ gdentry[nm] # NoInode /\ ~Exclusive /\ ~Shared
    /\ Issue(t, Request("UNLINK", nm, NoName, FALSE, gdentry[nm]), "host")
    /\ UNCHANGED guestVars

IssueRename(t, o, nm, m) ==
    /\ nm # m /\ gdentry[nm] # NoInode /\ ~Exclusive /\ ~Shared
    /\ gdentry[m] # gdentry[nm]
    /\ o = "EXCHANGE" => gdentry[m] # NoInode
    /\ Issue(t, Request(o, nm, m, FALSE, gdentry[nm]), "host")
    /\ UNCHANGED guestVars

\* The guest evicts an inode without dentries and gives all lookups back.
IssueForget(t, n) ==
    /\ glookups[n] > 0
    /\ \A nm \in Names : gdentry[nm] # n
    /\ \A u \in Threads : ~Free(u) => req[u].inode # n
    /\ Issue(t, [Request("FORGET", NoName, NoName, FALSE, n) EXCEPT
                   !.count = glookups[n]], "forget")
    /\ glookups' = [glookups EXCEPT ![n] = 0]
    /\ gattr' = [gattr EXCEPT ![n] = Unknown]
    /\ UNCHANGED gdentry

\* The guest drops a dentry because it needs the memory.
DropDentry(nm) ==
    /\ gdentry[nm] # NoInode
    /\ gdentry' = [gdentry EXCEPT ![nm] = NoInode]
    /\ UNCHANGED <<hostVars, indexVars, storeVars, pipeVars, gattr, glookups,
                   threadVars, flagVars>>

Done(t) ==
    /\ pc' = [pc EXCEPT ![t] = "idle"]
    /\ req' = [req EXCEPT ![t] = NoRequest]
    /\ node' = [node EXCEPT ![t] = NoInode]
    /\ attr' = [attr EXCEPT ![t] = Unknown]
    /\ newer' = [newer EXCEPT ![t] = {}]

\* do_lookup(): open the name and stat it, or ENOENT, on which the guest drops
\* the dentry it wanted to revalidate.
LookupOpen(t) ==
    LET nm == req[t].old
    IN  /\ pc[t] = "open"
        /\ \/ /\ dir[nm] # NoFile
              /\ node' = [node EXCEPT ![t] = dir[nm]]
              /\ attr' = [attr EXCEPT ![t] = ver[dir[nm]]]
              /\ pc' = [pc EXCEPT ![t] = "insert"]
              /\ raced' = raced \cup UNION {{req[u].old, req[u].new} \cap Names :
                             u \in {v \in Threads : pc[v] = "index"
                                                   /\ nm \in {req[v].old, req[v].new}}}
              /\ UNCHANGED <<req, newer, gdentry>>
           \/ /\ dir[nm] = NoFile
              /\ gdentry' = IF gdentry[nm] = req[t].inode
                              THEN [gdentry EXCEPT ![nm] = NoInode] ELSE gdentry
              /\ Done(t)
              /\ UNCHANGED raced
        /\ UNCHANGED <<hostVars, indexVars, storeVars, pipeVars, gattr, glookups,
                       dropped, missed, overflowed>>

\* do_lookup(): claim the file's inode or insert a new one (InodeStore.tla).
LookupInsert(t) ==
    LET has == {n \in Children : refs[n] > 0 /\ sfile[n] = node[t]}
        n == IF has = {} THEN next_inode ELSE CHOOSE m \in has : TRUE
    IN  /\ pc[t] = "insert"
        /\ sfile' = [sfile EXCEPT ![n] = node[t]]
        /\ refs' = [refs EXCEPT ![n] = @ + 1]
        /\ next_inode' = IF has = {} THEN next_inode + 1 ELSE next_inode
        /\ node' = [node EXCEPT ![t] = n]
        /\ pc' = [pc EXCEPT ![t] = "dentry"]
        /\ UNCHANGED <<hostVars, indexVars, pipeVars, guestVars, req, attr, newer,
                       flagVars>>

\* do_lookup(): dentry_index_insert().
LookupDentry(t) ==
    /\ pc[t] = "dentry"
    /\ Insert(Key(req[t].old), node[t])
    /\ pc' = [pc EXCEPT ![t] = "reply"]
    /\ UNCHANGED <<hostVars, storeVars, pipeVars, guestVars, req, node, attr,
                   newer, flagVars>>

\* The Entry reaches the guest.  A new name is cached; if a revalidated one has
\* become another inode, its dentry is dropped.
LookupReply(t) ==
    LET nm == req[t].old
        n == node[t]
    IN  /\ pc[t] = "reply"
        /\ glookups' = [glookups EXCEPT ![n] = @ + 1]
        /\ gattr' = IF n \in newer[t] THEN gattr
                    ELSE [gattr EXCEPT ![n] = attr[t]]
        /\ gdentry' = IF req[t].fresh
                        THEN [gdentry EXCEPT ![nm] = n]
                        ELSE IF gdentry[nm] = req[t].inode /\ n # req[t].inode
                               THEN [gdentry EXCEPT ![nm] = NoInode]
                               ELSE gdentry
        /\ Done(t)
        /\ UNCHANGED <<hostVars, indexVars, storeVars, pipeVars, flagVars>>

\* do_unlink() and rename(): the system call.  The watcher sees the daemon's own
\* changes, too.
HostCall(t) ==
    LET r == req[t]
        works == CASE r.op = "EXCHANGE" -> dir[r.old] # NoFile /\ dir[r.new] # NoFile
                   [] OTHER -> dir[r.old] # NoFile
    IN  /\ pc[t] = "host"
        /\ raw = <<>>
        /\ \/ /\ works
              /\ dir' = CASE r.op = "UNLINK" -> [dir EXCEPT ![r.old] = NoFile]
                          [] r.op = "RENAME" /\ dir[r.old] = dir[r.new] -> dir
                          [] r.op = "RENAME" -> [dir EXCEPT ![r.old] = NoFile,
                                                            ![r.new] = dir[r.old]]
                          [] r.op = "EXCHANGE" -> [dir EXCEPT ![r.old] = dir[r.new],
                                                              ![r.new] = dir[r.old]]
              /\ raw' = CASE r.op = "UNLINK" -> Append(raw, Event("Remove", r.old, NoName))
                          [] r.op = "RENAME" /\ dir[r.old] = dir[r.new] -> raw
                          [] r.op = "RENAME" -> Append(raw, Event("Rename", r.old, r.new))
                          [] r.op = "EXCHANGE" ->
                               raw \o <<Event("Rename", r.old, r.new),
                                        Event("Rename", r.new, r.old)>>
              /\ raced' = raced \cup ({r.old, r.new} \cap LookedUp)
              /\ pc' = [pc EXCEPT ![t] = "index"]
              /\ UNCHANGED <<req, node, attr, newer>>
           \/ /\ ~works
              /\ Done(t)
              /\ UNCHANGED <<dir, raw, raced>>
        /\ UNCHANGED <<setup, ver, changes, ops, indexVars, storeVars, chan, full, work,
                       installed, notif, guestVars, dropped, missed, overflowed>>

\* do_unlink() and rename(): update the index, whatever the rename flags were,
\* and reply; the guest changes its dentries accordingly.
IndexCall(t) ==
    LET r == req[t]
    IN  /\ pc[t] = "index"
        /\ \/ /\ r.op = "UNLINK"
              /\ Remove(Key(r.old))
              /\ gdentry' = [gdentry EXCEPT ![r.old] = NoInode]
              /\ UNCHANGED raced
           \/ /\ r.op \in {"RENAME", "EXCHANGE"}
              /\ Rename(Key(r.old), Key(r.new))
              /\ gdentry' = [gdentry EXCEPT
                   ![r.new] = gdentry[r.old],
                   ![r.old] = IF r.op = "RENAME" THEN NoInode ELSE gdentry[r.new]]
              /\ raced' = IF raced \cap {r.old, r.new} = {} THEN raced
                          ELSE raced \cup {r.old, r.new}
        /\ Done(t)
        /\ UNCHANGED <<hostVars, storeVars, pipeVars, gattr, glookups, dropped,
                       missed, overflowed>>

\* forget(): give the references back ...
ForgetOne(t) ==
    LET n == req[t].inode
    IN  /\ pc[t] = "forget"
        /\ refs' = [refs EXCEPT ![n] = @ - req[t].count]
        /\ sfile' = IF refs'[n] = 0 THEN [sfile EXCEPT ![n] = NoFile] ELSE sfile
        /\ pc' = [pc EXCEPT ![t] = "gone"]
        /\ UNCHANGED <<hostVars, indexVars, next_inode, pipeVars, guestVars,
                       req, node, attr, newer, flagVars>>

\* Mutant: the names are dropped though the inode may have been looked up again.
ForgetIndexAlways(t) ==
    /\ pc[t] = "gone"
    /\ ForgetInode(req[t].inode)
    /\ Done(t)
    /\ UNCHANGED <<hostVars, storeVars, pipeVars, guestVars, flagVars>>

\* ... and drop the names of the inode if it has left the store.
ForgetIndex(t) ==
    LET n == req[t].inode
    IN  /\ pc[t] = "gone"
        /\ \/ /\ refs[n] = 0
              /\ ForgetInode(n)
           \/ /\ refs[n] > 0
              /\ UNCHANGED indexVars
        /\ Done(t)
        /\ UNCHANGED <<hostVars, storeVars, pipeVars, guestVars, flagVars>>

\* The guest takes a notification off the queue.
GuestNotified ==
    LET x == Head(notif)
    IN  /\ notif # <<>>
        /\ \/ /\ x.do = "inode"
              /\ gattr' = [gattr EXCEPT ![x.inode] = Unknown]
              /\ newer' = [t \in Threads |->
                             IF ~Free(t) /\ glookups[x.inode] > 0
                               THEN newer[t] \cup {x.inode} ELSE newer[t]]
              /\ UNCHANGED gdentry
           \/ /\ x.do = "entry"
              /\ ~Exclusive /\ ~Shared
              /\ gdentry' = [gdentry EXCEPT ![x.name] = NoInode]
              /\ UNCHANGED <<gattr, newer>>
        /\ notif' = Tail(notif)
        /\ UNCHANGED <<hostVars, indexVars, storeVars, raw, chan, full, work,
                       installed, glookups, pc, req, node, attr, flagVars>>

-----------------------------------------------------------------------------
\* spawn_pipeline(): the initial bulk invalidate finds an empty index.
Init ==
    /\ setup \in Setups
    /\ dir = setup.dir
    /\ ver = [f \in Files |-> 0]
    /\ changes = 0 /\ ops = 0
    /\ IndexInit
    /\ sfile = [n \in Inodes |-> NoFile]
    /\ refs = [n \in Inodes |-> 0]
    /\ next_inode = 2
    /\ raw = <<>> /\ chan = <<>> /\ full = FALSE
    /\ work = <<>>
    /\ installed = FALSE /\ notif = <<>>
    /\ gdentry = [nm \in Names |-> NoInode]
    /\ gattr = [n \in Inodes |-> Unknown]
    /\ glookups = [n \in Inodes |-> 0]
    /\ pc = [t \in Threads |-> "idle"]
    /\ req = [t \in Threads |-> NoRequest]
    /\ node = [t \in Threads |-> NoInode]
    /\ attr = [t \in Threads |-> Unknown]
    /\ newer = [t \in Threads |-> {}]
    /\ raced = {}
    /\ dropped = FALSE /\ missed = {} /\ overflowed = FALSE

\* Nothing is on its way.
Quiet ==
    /\ Idle
    /\ raw = <<>> /\ chan = <<>> /\ ~full /\ work = <<>> /\ notif = <<>>

\* Guest and host may stay silent; nothing else may stop.
Rest == Quiet /\ UNCHANGED vars

ThreadStep(t) ==
    \/ \E nm \in Names : IssueLookup(t, nm) \/ IssueUnlink(t, nm)
    \/ \E o \in Renames, nm, m \in Names : IssueRename(t, o, nm, m)
    \/ \E n \in Children : IssueForget(t, n)
    \/ LookupOpen(t)
    \/ LookupInsert(t)
    \/ LookupDentry(t)
    \/ LookupReply(t)
    \/ HostCall(t)
    \/ IndexCall(t)
    \/ ForgetOne(t)
    \/ ForgetIndex(t)

Host ==
    \/ \E nm \in Names : HostModify(nm) \/ HostRemove(nm)
    \/ \E nm \in Names, f \in Files : HostCreate(nm, f)
    \/ \E nm, m \in Names : HostRename(nm, m)

Next ==
    \/ \E t \in Threads : ThreadStep(t)
    \/ Host
    \/ Watch
    \/ WatchFull
    \/ WatchLost
    \/ Translate
    \/ ResolveLeaf
    \/ Send
    \/ Install
    \/ GuestNotified
    \/ \E nm \in Names : DropDentry(nm)
    \/ Rest

Spec == Init /\ [][Next]_vars

-----------------------------------------------------------------------------
(* Properties.                                                             *)

\* The variables have their types, the two queues their bounds, and the inode
\* store holds as many references as the guest has lookups and requests have.
TypeOK ==
    /\ dir \in [Names -> Files \cup {NoFile}]
    /\ IndexTypeOK
    /\ Len(raw) <= 2 /\ Len(chan) <= setup.channel /\ Len(notif) <= Buffers
    /\ gdentry \in [Names -> {NoInode} \cup Children]
    /\ \A n \in Children :
         /\ refs[n] = glookups[n]
              + Cardinality({t \in Threads : pc[t] \in {"dentry", "reply"} /\ node[t] = n})
              + MapThenSumSet(LAMBDA t : IF pc[t] = "forget" /\ req[t].inode = n
                                           THEN req[t].count ELSE 0, Threads)
         /\ refs[n] > 0 <=> sfile[n] # NoFile
    /\ pc \in [Threads -> {"idle", "open", "insert", "dentry", "reply", "host",
                           "index", "forget", "gone"}]
    /\ raced \subseteq Names \cup Files

\* The index "is kept in sync with the FUSE op hot path": between requests it
\* knows every dentry the guest has, however LOOKUP, UNLINK, RENAME and FORGET
\* were interleaved.  A name that was looked up while it changed is exempt.
DentriesIndexed ==
    Idle => \A nm \in Names \ raced :
              gdentry[nm] # NoInode => forward[Key(nm)] = gdentry[nm]

\* Once every event and notification has landed, the attributes the guest has
\* cached for a name it can walk are those of the file, unless an event or a
\* notification was dropped or that name or file was being looked up while it
\* was changed.  This needs the dentry index to follow every RENAME, UNLINK,
\* FORGET and repeated LOOKUP of the guest.
AttrsFresh ==
    Quiet /\ ~dropped /\ missed = {} =>
        \A nm \in Names \ raced :
            LET n == gdentry[nm]
            IN  n # NoInode /\ sfile[n] \notin raced /\ gattr[n] # Unknown
                  => gattr[n] = ver[sfile[n]]

\* Likewise a name the guest has cached stands for the file it stands for on
\* the host.  (A bulk invalidation does not cover names.)
NamesFresh ==
    Quiet /\ ~dropped /\ missed = {} /\ ~overflowed =>
        \A nm \in Names \ raced :
            gdentry[nm] # NoInode => sfile[gdentry[nm]] = dir[nm]

\* "if we overflow this channel we emit a synthetic overflow signal exactly as
\* we would on a kernel drop": no event is lost without one.
OverflowSignalled == ~dropped

\* "Caller should retry or drop the notification (and queue an overflow
\* signal)": a notification lost is followed by an Overflow.
MissSignalled ==
    Quiet /\ "QueueFull" \in missed => overflowed
=============================================================================
