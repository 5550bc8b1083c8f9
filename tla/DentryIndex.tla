---------------------------- MODULE DentryIndex -----------------------------
(***************************************************************************)
(* The reverse dentry index (passthrough/dentry_index.rs): which FUSE      *)
(* inode a name in a directory stands for, and under which names an inode  *)
(* is known.  Each operation runs under one write lock.                    *)
(*                                                                         *)
(* A BTreeMap is a total function here, with a value for "no entry".  The  *)
(* keys of the reverse map are kept apart from its sets, because the code  *)
(* has to remove an entry whose set becomes empty: all_inodes() returns    *)
(* the keys.                                                               *)
(***************************************************************************)
EXTENDS Integers, Sequences

CONSTANTS
    Inodes,     \* FUSE inode IDs
    NoInode,    \* no entry
    Names       \* names in a directory

ASSUME IndexAssumption == NoInode \notin Inodes

Keys == Inodes \X Names

VARIABLES
    forward,    \* DentryIndexInner::forward
    reverse,    \* the sets in DentryIndexInner::reverse
    known       \* the keys of DentryIndexInner::reverse

indexVars == <<forward, reverse, known>>

\* The names of c after key k is taken out, if c has an entry at all.
Without(rev, c, k) == [rev EXCEPT ![c] = @ \ {k}]

\* Mutant: an overwritten mapping stays in the reverse map.
InsertKeepsReverse(k, c) ==
    /\ forward' = [forward EXCEPT ![k] = c]
    /\ reverse' = [reverse EXCEPT ![c] = @ \cup {k}]
    /\ known' = known \cup {c}

\* insert(): a mapping that existed is overwritten and its reverse entry cleaned
\* up, with the set if it is empty now.
Insert(k, c) ==
    LET prev == forward[k]
        clean == prev # NoInode /\ prev # c
        rest == IF clean THEN Without(reverse, prev, k) ELSE reverse
    IN  /\ forward' = [forward EXCEPT ![k] = c]
        /\ reverse' = [rest EXCEPT ![c] = @ \cup {k}]
        /\ known' = (IF clean /\ rest[prev] = {} THEN known \ {prev} ELSE known)
                      \cup {c}

\* Mutant: an empty set is left in the reverse map.
RemoveKeepsEmptySet(k) ==
    /\ forward' = [forward EXCEPT ![k] = NoInode]
    /\ reverse' = IF forward[k] = NoInode THEN reverse
                  ELSE Without(reverse, forward[k], k)
    /\ UNCHANGED known

\* remove().
Remove(k) ==
    LET c == forward[k]
    IN  \/ /\ c = NoInode
           /\ UNCHANGED indexVars
        \/ /\ c # NoInode
           /\ forward' = [forward EXCEPT ![k] = NoInode]
           /\ reverse' = Without(reverse, c, k)
           /\ known' = IF reverse[c] = {k} THEN known \ {c} ELSE known

\* rename(): what was at the destination is dropped, then the source moves.
Rename(old, new) ==
    LET prev == forward[new]
        fwd == [forward EXCEPT ![new] = NoInode]
        rev == IF prev = NoInode THEN reverse ELSE Without(reverse, prev, new)
        kn == IF prev # NoInode /\ rev[prev] = {} THEN known \ {prev} ELSE known
        c == fwd[old]
    IN  \/ /\ c = NoInode
           /\ forward' = fwd
           /\ reverse' = rev
           /\ known' = kn
        \/ /\ c # NoInode
           /\ forward' = [fwd EXCEPT ![old] = NoInode, ![new] = c]
           /\ reverse' = IF c \in kn
                           THEN [rev EXCEPT ![c] = (@ \ {old}) \cup {new}]
                           ELSE rev
           /\ known' = kn

\* forget_inode(): every name of the inode goes.
ForgetInode(c) ==
    /\ forward' = [k \in Keys |-> IF k \in reverse[c] THEN NoInode ELSE forward[k]]
    /\ reverse' = [reverse EXCEPT ![c] = {}]
    /\ known' = known \ {c}

\* resolve_path(): how many components resolve, and to which inode.
Walk(root, path) ==
    LET at[i \in 0..Len(path)] ==
          IF i = 0 THEN root
          ELSE IF at[i - 1] = NoInode THEN NoInode
          ELSE forward[<<at[i - 1], path[i]>>]
    IN  at

\* The inode of a path all of whose components are in the index.
Resolve(root, path) == Walk(root, path)[Len(path)]

IndexInit ==
    /\ forward = [k \in Keys |-> NoInode]
    /\ reverse = [c \in Inodes |-> {}]
    /\ known = {}

IndexNext ==
    \/ \E k \in Keys, c \in Inodes : Insert(k, c)
    \/ \E k \in Keys : Remove(k)
    \/ \E old, new \in Keys : Rename(old, new)
    \/ \E c \in Inodes : ForgetInode(c)

IndexSpec == IndexInit /\ [][IndexNext]_indexVars

-----------------------------------------------------------------------------
(* Properties.                                                             *)

\* The type invariant.
IndexTypeOK ==
    /\ forward \in [Keys -> Inodes \cup {NoInode}]
    /\ reverse \in [Inodes -> SUBSET Keys]
    /\ known \subseteq Inodes

\* The two maps stay inverse to each other through overwritten names, hard
\* links, renames onto the inode's own name and forgotten inodes, and an inode
\* has an entry in the reverse map exactly when it has a name: a bulk
\* invalidation reaches every inode with a name and no other.
MapsInverse ==
    /\ \A k \in Keys, c \in Inodes : forward[k] = c <=> k \in reverse[c]
    /\ \A c \in Inodes : c \in known <=> reverse[c] # {}
=============================================================================
