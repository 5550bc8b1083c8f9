------------------------------ MODULE OpenFlags ------------------------------
(***************************************************************************)
(* open_flags.rs: the open(2) flags a guest sends, translated for the      *)
(* host.  A flag word is the set of the bit positions that are set in it,  *)
(* so `a | b` is union, `a & !b` difference, and `a & b == b` inclusion.   *)
(***************************************************************************)
LOCAL INSTANCE Naturals

GuestArch == {"x86_64", "aarch64"}

\* GuestArch::flags: the four flags whose value depends on the architecture.
ArchFlags(arch) ==
  IF arch = "x86_64"
  THEN [direct |-> {14}, largefile |-> {15}, directory |-> {16}, nofollow |-> {17}]
  ELSE [direct |-> {16}, largefile |-> {17}, directory |-> {14}, nofollow |-> {15}]

\* ArchOpenFlags::mask.
mask(f) == UNION {f[n] : n \in DOMAIN f}

\* mod linux: the flags every architecture shares.  O_SYNC is two bits, one
\* of which is O_DSYNC.
O_ACCMODE == {0, 1}
linux == [O_CREAT |-> {6}, O_EXCL |-> {7}, O_NOCTTY |-> {8}, O_TRUNC |-> {9}, O_APPEND |-> {10},
          O_NONBLOCK |-> {11}, O_DSYNC |-> {12}, O_CLOEXEC |-> {19}]
O_SYNC == {12, 20}

\* mod darwin.
darwin == [O_NONBLOCK |-> {2}, O_APPEND |-> {3}, O_SYNC |-> {7}, O_NOFOLLOW |-> {8}, O_CREAT |-> {9},
           O_TRUNC |-> {10}, O_EXCL |-> {11}, O_NOCTTY |-> {17}, O_DIRECTORY |-> {20}, O_DSYNC |-> {22},
           O_CLOEXEC |-> {24}]

\* linux_to_darwin_open_flags.  The access modes have the same values; the
\* fourth one is read as O_RDONLY.
linux_to_darwin_open_flags(flags, guest) ==
  LET arch == ArchFlags(guest)
      acc  == flags \cap O_ACCMODE
  IN [flags |-> (IF acc = O_ACCMODE THEN {} ELSE acc)
                \cup UNION {darwin[n] : n \in {m \in DOMAIN linux : linux[m] \subseteq flags}}
                \cup (IF arch.directory \subseteq flags THEN darwin.O_DIRECTORY ELSE {})
                \cup (IF arch.nofollow \subseteq flags THEN darwin.O_NOFOLLOW ELSE {})
                \cup (IF O_SYNC \subseteq flags THEN darwin.O_SYNC ELSE {}),
      nocache |-> arch.direct \cap flags # {}]

\* Mutant: the bits the guest's own flags occupy are not cleared first.
linux_to_linux_unmasked(flags, guest, host) ==
  IF guest = host THEN flags
  ELSE flags \cup UNION {ArchFlags(host)[n] : n \in {m \in DOMAIN ArchFlags(guest) :
                                                      ArchFlags(guest)[m] \cap flags # {}}}

\* linux_to_linux_open_flags.
linux_to_linux_open_flags(flags, guest, host) ==
  IF guest = host THEN flags
  ELSE (flags \ mask(ArchFlags(guest)))
       \cup UNION {ArchFlags(host)[n] : n \in {m \in DOMAIN ArchFlags(guest) :
                                                ArchFlags(guest)[m] \cap flags # {}}}

\* translate_linux_open_flags, on each kind of host.
translate_linux_open_flags(flags, guest, host) ==
  IF host = "darwin" THEN linux_to_darwin_open_flags(flags, guest)
  ELSE [flags |-> linux_to_linux_open_flags(flags, guest, host), nocache |-> FALSE]
-----------------------------------------------------------------------------
\* What a flag word means, read by the rules of one system: the names of the
\* flags it asks for.  O_SYNC asks for O_DSYNC too.
Meaning(flags, table) == {n \in DOMAIN table : table[n] \subseteq flags}
LinuxTable(arch) ==
  [n \in DOMAIN linux \cup {"O_SYNC", "O_DIRECT", "O_LARGEFILE", "O_DIRECTORY", "O_NOFOLLOW"} |->
     CASE n \in DOMAIN linux -> linux[n]
       [] n = "O_SYNC"       -> O_SYNC
       [] n = "O_DIRECT"     -> ArchFlags(arch).direct
       [] n = "O_LARGEFILE"  -> ArchFlags(arch).largefile
       [] n = "O_DIRECTORY"  -> ArchFlags(arch).directory
       [] n = "O_NOFOLLOW"   -> ArchFlags(arch).nofollow]

\* The host opens with the access and the flags the guest asked for: on a Linux host all of
\* them, on macOS all but O_DIRECT, which becomes `nocache`, and O_LARGEFILE.
SameMeaning(flags, guest, host) ==
  LET asked == Meaning(flags, LinuxTable(guest))
      got   == translate_linux_open_flags(flags, guest, host)
  IN /\ got.flags \cap O_ACCMODE = flags \cap O_ACCMODE
     /\ IF host = "darwin"
        THEN /\ Meaning(got.flags, darwin) = asked \ {"O_DIRECT", "O_LARGEFILE"}
             /\ got.nocache = ("O_DIRECT" \in asked)
        ELSE Meaning(got.flags, LinuxTable(host)) = asked
=============================================================================
