------------------------------ MODULE Handover ------------------------------
(***************************************************************************)
(* What a live migration promises to the guest, without threads, paths or  *)
(* streams: the inodes it holds are in the hands of the source, in         *)
(* transit, or in those of the destination.  In transit nothing changes;   *)
(* on arrival each inode stands for the file it stood for, or is marked    *)
(* invalid, and the guest owes as many FORGETs as before.                  *)
(***************************************************************************)
EXTENDS Naturals

CONSTANTS
    Inodes, Files, NoFile, InvalidFile

VARIABLES
    checked,    \* does the configuration have the files checked on the way?
    owner,      \* "src", "transit" or "dst"
    table,      \* the file that each inode held by the guest stands for
    refs        \* the references the guest holds

vars == <<checked, owner, table, refs>>

Init ==
    /\ checked \in BOOLEAN
    /\ owner = "src"
    /\ table \in [Inodes -> Files \cup {NoFile}]
    /\ refs \in [Inodes -> Nat]
    /\ \A n \in Inodes : refs[n] = 0 <=> table[n] = NoFile

\* A reply tells the guest of inode n: the one it has for the file, or a new one.
Grant(n, f) ==
    /\ owner = "src"
    /\ \A m \in Inodes : table[m] = f => m = n
    /\ table[n] \in {f, NoFile}
    /\ table' = [table EXCEPT ![n] = f]
    /\ refs' = [refs EXCEPT ![n] = @ + 1]
    /\ UNCHANGED <<checked, owner>>

Release(n) ==
    /\ owner # "transit"
    /\ refs[n] > 0
    /\ refs' = [refs EXCEPT ![n] = @ - 1]
    /\ table' = IF refs[n] = 1 THEN [table EXCEPT ![n] = NoFile] ELSE table
    /\ UNCHANGED <<checked, owner>>

Depart == owner = "src" /\ owner' = "transit" /\ UNCHANGED <<checked, table, refs>>
Return == owner = "transit" /\ owner' = "src" /\ UNCHANGED <<checked, table, refs>>

Arrive ==
    /\ owner = "transit" /\ owner' = "dst"
    /\ table' \in [Inodes -> Files \cup {NoFile, InvalidFile}]
    /\ \A n \in Inodes :
         /\ table'[n] = NoFile <=> table[n] = NoFile
         /\ checked => table'[n] \in {table[n], InvalidFile}
    /\ UNCHANGED <<checked, refs>>

Next ==
    \/ \E n \in Inodes, f \in Files : Grant(n, f)
    \/ \E n \in Inodes : Release(n)
    \/ Depart \/ Return \/ Arrive

\* A transit ends, one way or the other.
Spec == Init /\ [][Next]_vars /\ (owner = "transit" ~> owner # "transit")
=============================================================================
