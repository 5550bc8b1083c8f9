---------------------------- MODULE MCInodeStore ----------------------------
(***************************************************************************)
(* An instance of InodeStore for TLC with two file systems below the       *)
(* shared directory.  One yields file handles: a2 gets the inode number of *)
(* a as soon as a is deleted, while the store may still know a.  The other *)
(* one does not: b2 gets the number of b once b is deleted and no          *)
(* descriptor pins it.  A behaviour uses the files of one of the two.      *)
(***************************************************************************)
EXTENDS InodeStore, TLC

CONSTANTS root, a, a2, b, b2, i0, i1, i2

MCFiles == {root, a, a2, b, b2}
MCIds == {i0, i1, i2}
MCIdsOf == root :> i0 @@ a :> i1 @@ a2 :> i1 @@ b :> i2 @@ b2 :> i2
MCHasHandle == [x \in MCFiles |-> x \in {a, a2}]
MCGone == {{a, a2}, {b, b2}}

ThreadSymmetry == Permutations(Threads)
=============================================================================
