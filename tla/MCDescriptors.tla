---------------------------- MODULE MCDescriptors ---------------------------
(***************************************************************************)
(* The two tables of descriptors, OpenFiles and MountFds.  Neither reads   *)
(* the other's state, so a behaviour exercises one of them, and an         *)
(* initial state says which.                                               *)
(***************************************************************************)
EXTENDS MountFds, MCOpenFiles

CONSTANTS m1, m2, x1, x2, x3, x4

VARIABLE part

MCMounts == {m1, m2}
MCFds == {x1, x2, x3, x4}

\* A part of the symmetry: permuting all descriptors takes longer than it saves.
DescriptorSymmetry == Permutations({x1, x2}) \cup ThreadSymmetry

\* mount_id and want mean nothing before New and Get assign them.
TablesInit ==
    /\ Init /\ MountInit
    /\ part \in {"files", "mounts"}
    /\ part = "files" => mount_id = [x \in Fds |-> m1] /\ want = [t \in Openers |-> m1]

FilesNext == part = "files" /\ Next /\ UNCHANGED <<mountVars, part>>
MountsNext == part = "mounts" /\ MountNext /\ UNCHANGED <<vars, part>>
TablesSpec == TablesInit /\ [][FilesNext \/ MountsNext]_<<vars, mountVars, part>>
=============================================================================
