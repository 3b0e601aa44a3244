------------------------ MODULE MCWorkflowAuthority ------------------------
(***************************************************************************)
(* Small instances of WorkflowAuthority: two processes, and either one     *)
(* capability with two uses or two capabilities with one.                  *)
(***************************************************************************)
EXTENDS WorkflowAuthority, TLC

CONSTANTS p1, p2, c1, c2, i1, i2, i3

Symmetry == Permutations(Procs) \cup Permutations(Invocations)

Uses2 == [c \in Caps |-> 2]
Uses1 == [c \in Caps |-> 1]

\* c1 is valid from time 0, c2 from time 1; both expire at time 2.
From == [c \in Caps |-> IF c = c1 THEN 0 ELSE 1]
Until == [c \in Caps |-> 2]

TwoTimes == 1 .. 2
ThreeTimes == 0 .. 2

CrashAndLoss == {"crash", "loss", "write"}
CrashAndMisread == {"crash", "read", "write"}
MisreadAfterCrash == {"crash", "read"}
============================================================================
