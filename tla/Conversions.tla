---------------------------- MODULE Conversions ----------------------------
(***************************************************************************)
(* The translations between guest and host, one sample at a time: names of *)
(* extended attributes, user ids, open flags.                              *)
(***************************************************************************)
EXTENDS XattrMap, SoftIdMap, OpenFlags
LOCAL INSTANCE Naturals
LOCAL INSTANCE SequencesExt
LOCAL INSTANCE FiniteSetsExt

CONSTANTS
  NameParts,  \* components of xattr names
  MaxName,    \* components in a name
  MaxFlags    \* flags in one open, beside the access mode

VARIABLE sample

NamesUpTo(n) == UNION {[1..k -> NameParts] : k \in 0..n}
Arches == {"x86_64", "aarch64"}

\* Flag words a guest may send: an access mode and up to MaxFlags flags.
FlagWords(arch) ==
  {acc \cup UNION {LinuxTable(arch)[n] : n \in names} :
     acc \in {{}, {0}, {1}}, names \in UNION {kSubset(k, DOMAIN LinuxTable(arch)) : k \in 0..MaxFlags}}

XattrSamples == [kind : {"xattr"}, key : NamesUpTo(MaxName - 1), prepend : NamesUpTo(MaxName - 1) \ {<<>>},
                 name : NamesUpTo(MaxName) \ {<<>>}]
IdSamples == [kind : {"ids"}, cmdline : [1..2 -> IdMapForms]]
FlagSamples == UNION {[kind : {"flags"}, flags : FlagWords(a), guest : {a}, host : Arches \cup {"darwin"}] : a \in Arches}

\* A guest attribute name that a `map` rule lets through comes back under its
\* own name from LISTXATTR, so no two of them share a host attribute
\* (expand_map_type, map_client_xattr, map_server_xattrlist).
NamesRoundTrip == sample.kind = "xattr" => ComesBack(sample.key, sample.prepend, sample.name)

\* An accepted --translate-uid sends each id of a `map` argument to its own
\* host id and back, and refuses each id of a `forbid-guest` argument whose end
\* is an id itself, whatever the other argument is (do_push's refusal of
\* overlaps, MapEntry::map).  A `forbid-guest` argument whose end wraps is
\* accepted and refuses nothing; that is left out here and stated by
\* ForbidsItsRange.
IdsMapped == sample.kind = "ids" => BothWays(sample.cmdline)

\* The host opens a file with the flags the guest asked for, between every
\* pair of guest and host (translate_linux_open_flags).
FlagsTranslated == sample.kind = "flags" => SameMeaning(sample.flags, sample.guest, sample.host)
=============================================================================
