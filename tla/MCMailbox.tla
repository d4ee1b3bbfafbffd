----------------------------- MODULE MCMailbox ------------------------------
(* Small instances of Mailbox.                                             *)
EXTENDS Mailbox

CONSTANTS m1, m2
CONSTANTS idle, s, b, r    \* threads: s sends, r receives, b does both

\* tcpip_thread has priority 12, the Ethernet threads 14, idle 31.
MCprio == [t \in Thread |-> IF t = idle THEN 31 ELSE IF t = b THEN 14 ELSE 12]
MCslice == [t \in Thread |-> 1]
MCPriority == {12, 14, 31}
MCPosted == [t \in Sender |-> IF t = s THEN {m1} ELSE {m2}]
MCPosts == {-1, 0, 1}
=============================================================================
