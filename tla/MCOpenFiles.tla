---------------------------- MODULE MCOpenFiles -----------------------------
(***************************************************************************)
(* Instances of OpenFiles: two threads, one or two names, a file that is   *)
(* held open by descriptor and one that is addressed by file handle, and   *)
(* fewer slots than requests could use.                                    *)
(***************************************************************************)
EXTENDS OpenFiles, TLC

CONSTANTS f1, f2, t1, t2

MCFiles == {f1, f2}
MCHasHandle == {f2}
ThreadSymmetry == Permutations({t1, t2})
=============================================================================
