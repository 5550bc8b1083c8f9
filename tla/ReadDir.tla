------------------------------- MODULE ReadDir -------------------------------
(***************************************************************************)
(* read_dir.rs, and the READDIR loop of server.rs: a guest lists a host    *)
(* directory in several requests, each of which continues at the offset    *)
(* the last entry of the reply before it carried.                          *)
(*                                                                         *)
(* The directory is a row of slots; slot i holds one name or none, and its *)
(* cookie is i.  With bigCookies the file system's cookies are above       *)
(* i64::MAX, which lseek(2) does not take.  A dirent of the host is one    *)
(* unit of buffer space, one of the reply is ReplyDirent units.            *)
(***************************************************************************)
LOCAL INSTANCE Naturals
LOCAL INSTANCE Sequences
LOCAL INSTANCE SequencesExt
LOCAL INSTANCE FiniteSetsExt

CONSTANTS
  Slots,        \* the number of slots
  Sizes,        \* the sizes, in units, a guest gives with READDIR
  ReplyDirent   \* the size of an entry of the reply

VARIABLES
  hostOs,       \* "linux" or "macos"
  bigCookies,
  present,      \* the slots that hold a name
  steady,       \* ghost: the slots that have held a name since the listing began
  offset,       \* the offset the guest continues at; 0 is the beginning
  listed,       \* the slots the guest has been told of, in order
  finished      \* the guest was given an empty reply

dirVars == << hostOs, bigCookies, present, steady, offset, listed, finished >>

After(slot) == SetToSortSeq({s \in present : s > slot}, <)

\* getdents64 with room for `size` dirents, from behind `slot`.
getdents(slot, size) == SubSeq(After(slot), 1, Min({size, Len(After(slot))}))

\* Mutant: when the cookie is the last of its batch the listing ends.
RECURSIVE walk_one_batch(_, _, _)
walk_one_batch(from, target, size) ==
  LET batch == getdents(from, size)
      at    == SelectInSeq(batch, LAMBDA s : s = target)
  IN IF batch = <<>> THEN <<>>
     ELSE IF at = 0 THEN walk_one_batch(Last(batch), target, size)
     ELSE SubSeq(batch, at + 1, Len(batch))

\* new_walk_to: batch after batch from the start, until the cookie is found;
\* then the rest of its batch or, when it was the last of it, the next one.
\* A cookie that is not found ends the listing.
RECURSIVE new_walk_to(_, _, _)
new_walk_to(from, target, size) ==
  LET batch == getdents(from, size)
      at    == SelectInSeq(batch, LAMBDA s : s = target)
  IN IF batch = <<>> THEN <<>>
     ELSE IF at = 0 THEN new_walk_to(Last(batch), target, size)
     ELSE IF at < Len(batch) THEN SubSeq(batch, at + 1, Len(batch))
     ELSE getdents(Last(batch), size)

\* ReadDir::new on Linux: seek to the cookie, or walk to it.
NewLinux(off, size) ==
  IF bigCookies /\ off # 0 THEN new_walk_to(0, off, size) ELSE getdents(off, size)

\* ReadDir::new and next on macOS: the whole directory, of which the first
\* `off` entries are skipped.
NewMacos(off) == SubSeq(After(0), off + 1, Len(After(0)))

\* The offset an entry carries in the reply: the cookie or, on macOS, its
\* place in the directory.
OffsetOf(slot) == IF hostOs = "linux" THEN slot ELSE Cardinality({s \in present : s <= slot})

\* Server::readdir: entries go into the reply until one does not fit.
Replied(size) ==
  LET entries == IF hostOs = "linux" THEN NewLinux(offset, size) ELSE NewMacos(offset)
  IN SubSeq(entries, 1, Min({Len(entries), size \div ReplyDirent}))

ReadMore(size) ==
  /\ ~finished
  /\ LET reply == Replied(size)
     IN IF reply = <<>>
        THEN finished' = TRUE /\ UNCHANGED << offset, listed >>
        ELSE /\ listed' = listed \o reply
             /\ offset' = OffsetOf(Last(reply))
             /\ UNCHANGED finished
  /\ UNCHANGED << hostOs, bigCookies, present, steady >>

\* The directory changes between two requests.  Left out are the changes
\* after which the rest of a listing comes out wrong (see the README): the
\* removal of the entry a walk has to find, and on macOS, where an offset is
\* a count of entries, any change.
Changes(slot) == hostOs = "linux" /\ (bigCookies => slot # offset)

RemoveName(slot) ==
  /\ Changes(slot) /\ slot \in present
  /\ present' = present \ {slot}
  /\ steady' = steady \ {slot}
  /\ UNCHANGED << hostOs, bigCookies, offset, listed, finished >>

AddName(slot) ==
  /\ Changes(slot) /\ slot \notin present
  /\ present' = present \cup {slot}
  /\ UNCHANGED << hostOs, bigCookies, steady, offset, listed, finished >>

\* The guest rewinds and lists the directory again.
Rewind ==
  /\ finished
  /\ offset' = 0 /\ listed' = <<>> /\ finished' = FALSE /\ steady' = present
  /\ UNCHANGED << hostOs, bigCookies, present >>

DirInit ==
  /\ hostOs \in {"linux", "macos"}
  /\ bigCookies \in BOOLEAN /\ (hostOs = "macos" => ~bigCookies)
  /\ present \in SUBSET (1..Slots)
  /\ steady = present
  /\ offset = 0 /\ listed = <<>> /\ finished = FALSE

DirNext ==
  \/ \E size \in Sizes : ReadMore(size)
  \/ \E slot \in 1..Slots : RemoveName(slot) \/ AddName(slot)
  \/ Rewind

\* A listing in several requests gives no name twice, and when it ends it has
\* given every name that was there all along, whatever the sizes of the
\* requests and wherever they made the replies break off (Server::readdir,
\* ReadDir::new and its walk to a cookie lseek refuses).
ListedOnce ==
  /\ IsInjective(listed)
  /\ finished => steady \subseteq ToSet(listed)
=============================================================================
