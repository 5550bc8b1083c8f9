------------------------------ MODULE SoftIdMap ------------------------------
(***************************************************************************)
(* soft_idmap: the translation of user (or group) ids between guest and    *)
(* host.  Ids are unsigned words below Ids (u32 in the code).  The map is  *)
(* two sets of entries, one per direction, each over a half-open range of  *)
(* source ids; an id no entry covers is its own image.                     *)
(***************************************************************************)
LOCAL INSTANCE Integers
LOCAL INSTANCE SequencesExt
LOCAL INSTANCE FiniteSetsExt

CONSTANT Ids  \* the number of ids: 2^32 in the code

\* cmdline.rs, IdMap::from_str: the forms of --translate-uid/gid and the
\* number of fields each takes; `forbid-guest` has no target.
IdMapForms == [prefix : {"guest", "host", "squash-guest", "squash-host", "map", "forbid-guest"},
               from : 0..Ids - 1, to : 0..Ids - 1, count : 0..Ids - 1]

Forbidden == Ids  \* MapError: the use of the id has been configured to fail

\* MapEntry: source ids from..end-1, and the first or only target.
MapEntry(kind, from, end, to) == [kind |-> kind, from |-> from, end |-> end, to |-> to]

Covers(e, id) == e.from <= id /\ id < e.end

\* id_types.rs, Add: u32 addition, which wraps in a release build.
Add(a, b) == (a + b) % Ids

\* MapEntry::map.
MapOne(e, id) ==
  CASE e.kind = "Squash" -> e.to
    [] e.kind = "Range"  -> Add(e.to, id - e.from)
    [] e.kind = "Fail"   -> Forbidden

\* IdMap::map_guest and map_host: the same lookup on the two tables.
MapId(table, id) ==
  LET hit == {e \in table : Covers(e, id)}
  IN IF hit = {} THEN id ELSE MapOne(CHOOSE e \in hit : TRUE, id)

map_guest(m, id) == MapId(m.guest_to_host, id)
map_host(m, id) == MapId(m.host_to_guest, id)

\* Mutant: an entry that intersects an earlier one replaces what it covers.
push_over(m, dir, e) ==
  IF ~m.ok THEN m
  ELSE [m EXCEPT ![dir] = {f \in @ : ~(e.from <= f.from /\ f.end <= e.end)} \cup {e}]

\* IdMap::do_push: an entry that intersects an earlier one is refused.  An
\* empty range intersects nothing.
do_push(m, dir, e) ==
  IF \E f \in m[dir], id \in 0..Ids - 1 : Covers(e, id) /\ Covers(f, id)
  THEN [m EXCEPT !.ok = FALSE]
  ELSE [m EXCEPT ![dir] = @ \cup {e}]

\* id_range_from_u32 refuses a range whose end is not a u32.
RangeFits(base, count) == base + count < Ids

push_guest_to_host(m, kind, c) ==
  IF m.ok /\ RangeFits(c.from, c.count)
  THEN do_push(m, "guest_to_host", MapEntry(kind, c.from, c.from + c.count, c.to))
  ELSE [m EXCEPT !.ok = FALSE]

push_host_to_guest(m, kind, c) ==
  IF m.ok /\ RangeFits(c.from, c.count)
  THEN do_push(m, "host_to_guest", MapEntry(kind, c.from, c.from + c.count, c.to))
  ELSE [m EXCEPT !.ok = FALSE]

\* IdMap::try_from, one argument of the command line.  `map` is an entry in
\* each direction.  `forbid-guest` adds without a check: its end may wrap.
PushArgument(m, c) ==
  CASE c.prefix = "guest"        -> push_guest_to_host(m, "Range", c)
    [] c.prefix = "host"         -> push_host_to_guest(m, "Range", c)
    [] c.prefix = "squash-guest" -> push_guest_to_host(m, "Squash", c)
    [] c.prefix = "squash-host"  -> push_host_to_guest(m, "Squash", c)
    [] c.prefix = "map"          -> push_host_to_guest(push_guest_to_host(m, "Range", c), "Range",
                                                       [c EXCEPT !.from = c.to, !.to = c.from])
    [] c.prefix = "forbid-guest" -> IF m.ok
                                    THEN do_push(m, "guest_to_host",
                                                 MapEntry("Fail", c.from, Add(c.from, c.count), 0))
                                    ELSE m

empty == [ok |-> TRUE, guest_to_host |-> {}, host_to_guest |-> {}]

IdMapOf(cmdline) == FoldLeft(PushArgument, empty, cmdline)
-----------------------------------------------------------------------------
\* What an accepted map promises of its `map` arguments: each of their guest
\* ids goes to its own host id and back, whatever the other arguments are.
\* And of its `forbid-guest` arguments, when their end does not wrap: none of
\* their ids reaches the host.  Of those whose end wraps it promises nothing
\* (see ForbidsItsRange).
BothWays(cmdline) ==
  LET m == IdMapOf(cmdline)
  IN m.ok => \A i \in DOMAIN cmdline : LET c == cmdline[i] IN
       \A k \in 0..c.count - 1 :
         /\ c.prefix = "map" => map_guest(m, c.from + k) = c.to + k /\ map_host(m, c.to + k) = c.from + k
         /\ c.prefix = "forbid-guest" /\ RangeFits(c.from, c.count) => map_guest(m, c.from + k) = Forbidden

\* What the documentation says of every accepted `forbid-guest` argument: the
\* use of an id of its range is refused.  No run checks it, because the code
\* does not keep it: the sum in PushArgument wraps for a range that reaches the
\* last id, the entry covers no id, and the map is accepted.
ForbidsItsRange(cmdline) ==
  LET m == IdMapOf(cmdline)
  IN m.ok => \A i \in DOMAIN cmdline, id \in 0..Ids - 1 : LET c == cmdline[i] IN
       c.prefix = "forbid-guest" /\ c.from <= id /\ id < c.from + c.count => map_guest(m, id) = Forbidden
=============================================================================
