------------------------------- MODULE RtList -------------------------------
(***************************************************************************)
(* The circular doubly linked lists of os/thread.c seen as sequences: the  *)
(* list of a head is the sequence of the nodes linked to it, first node    *)
(* first.  A node that is in no list is linked to itself, so that removing *)
(* it changes nothing and its successor is itself.                         *)
(***************************************************************************)
EXTENDS Integers, Sequences

\* The nodes of a list, and: no node is linked twice.
Nodes(s) == {s[i] : i \in 1 .. Len(s)}
NoRepeat(s) == \A i, j \in 1 .. Len(s) : s[i] = s[j] => i = j

\* The place of node e in a list that has it.
Place(s, e) == CHOOSE i \in 1 .. Len(s) : s[i] = e

\* rt_list_insert_before(head, e): e becomes the last node.
rt_list_insert_before(s, e) == Append(s, e)

\* rt_list_insert_after(head, e): e becomes the first node.
rt_list_insert_after(s, e) ==
  [i \in 1 .. Len(s) + 1 |-> IF i = 1 THEN e ELSE s[i - 1]]

\* rt_list_remove(e), for the list s it may be in
rt_list_remove(s, e) ==
  IF e \notin Nodes(s) THEN s
  ELSE LET p == Place(s, e)
       IN  [i \in 1 .. Len(s) - 1 |-> IF i < p THEN s[i] ELSE s[i + 1]]

\* rt_list_isempty(head)
rt_list_isempty(s) == Len(s) = 0

\* The node after e: the head when e is the last node, e itself when e is
\* in no list.
Successor(s, e, head) ==
  IF e \notin Nodes(s) THEN e
  ELSE IF Place(s, e) = Len(s) THEN head ELSE s[Place(s, e) + 1]

\* The node after the head.
First(s, head) == IF rt_list_isempty(s) THEN head ELSE s[1]

=============================================================================
