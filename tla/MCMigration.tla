---------------------------- MODULE MCMigration -----------------------------
(***************************************************************************)
(* A shared directory root/x = sub, sub/x = a, and a file b that the guest *)
(* may create.  a may have a second name, which the kernel may not report. *)
(***************************************************************************)
EXTENDS Migration
CONSTANTS root, sub, a, b, x, y

MCFiles == {root, sub, a, b}
MCDirs == {root, sub}
MCNames == {x, y}

Tree == [e \in MCDirs \X MCNames |->
           CASE e = <<root, x>> -> sub [] e = <<sub, x>> -> a [] OTHER -> NoFile]
Knows(f, g) == [n \in Inodes |-> CASE n = 1 -> root [] n = 2 -> f [] n = 3 -> g [] OTHER -> NoFile]

Paths == [mode |-> "paths", verify |-> FALSE, confirm |-> FALSE, on_error |-> "guest",
          tree |-> Tree, known |-> Knows(a, sub), open |-> {2}, compatible |-> TRUE,
          absent |-> {}, mounts |-> TRUE, bounds |-> [ops |-> 1, logoff |-> 1]]
Confirm == [Paths EXCEPT !.confirm = TRUE, !.bounds = [ops |-> 2, logoff |-> 0]]
Verify == [Paths EXCEPT !.verify = TRUE, !.bounds.logoff = 0]
Handles == [Paths EXCEPT !.mode = "handles", !.bounds.logoff = 0]

\* sub is known only from the walks, and a has a second name.
Linked == [Paths EXCEPT !.tree[<<root, y>>] = a, !.known = Knows(a, NoFile), !.bounds.logoff = 0]

\* The destination lacks sub, cannot adopt the options, or shares another root.
Absent == [Confirm EXCEPT !.absent = {sub}, !.bounds.ops = 0]
Refused == [Handles EXCEPT !.compatible = FALSE, !.bounds.ops = 0]
Abort == [Handles EXCEPT !.mounts = FALSE, !.on_error = "abort", !.bounds.ops = 0]

NoRoot == [Verify EXCEPT !.absent = {root}, !.bounds.ops = 0]
NoRootAhead == [Handles EXCEPT !.absent = {root}, !.bounds.ops = 0]

MCSetups == {Paths, Confirm, Verify, Handles, Linked, Absent, Refused, Abort, NoRoot, NoRootAhead}

PlainSetup == {[Paths EXCEPT !.bounds = [ops |-> 2, logoff |-> 0]]}
=============================================================================
