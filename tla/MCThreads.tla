----------------------------- MODULE MCThreads ------------------------------
(* Small instances of Threads.                                             *)
EXTENDS Threads

CONSTANTS idle, shell, a, b    \* threads

\* Priorities as in os/sys_thread.c: idle and shell share the lowest one.
MCprio == [t \in Thread |-> IF t \in {idle, shell} THEN 31 ELSE IF t = a THEN 12 ELSE 14]

\* The slice of a and b runs out at every second tick, the others' at every one.
MCslice == [t \in Thread |-> IF t \in {a, b} THEN 2 ELSE 1]

\* One priority for all, as of the idle thread and the shell.
MCprioEqual == [t \in Thread |-> 31]

MCPriority == {12, 14, 31}
MCTimes == {-1, 0, 1}
MCForever == {-1}
MCForeverOrOne == {-1, 1}
MCOnePriority == {31}
=============================================================================
