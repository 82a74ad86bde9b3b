--------------------------- MODULE MCTaskScheduler ---------------------------
(* Small instances of the task scheduler for TLC. *)
EXTENDS TaskScheduler

CONSTANTS r1, r2, c1, c2

OneRoot == {r1}
TwoRoots == {r1, r2}
OneChild == {c1}
TwoChildren == {c1, c2}
FirstRoot == [c \in Child |-> r1]

\* r1, r2, c1, c2
CreatedBefore(x, y) ==
    \/ x = r1
    \/ x = r2 /\ y # r1
    \/ x = c1 /\ y \notin Root

=============================================================================
