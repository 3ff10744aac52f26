------------------------------- MODULE MCROB -------------------------------
(* The reorder buffer for TLC, with the queue it implements. *)
EXTENDS ROB

\* The window from head to tail, read as a queue.
Queue == [i \in 1..Occupied |-> entries[Slot(head, i - 1)]]

InOrder == INSTANCE CommitQueue WITH queue <- Queue

\* The circular buffer implements the queue: nothing commits out of order,
\* twice, before it has finished, or behind a mispredicted branch or a halt,
\* at most one store commits per cycle, and an outcome, once there, is the
\* one the instruction commits with.
InOrderSpec == InOrder!Spec
=============================================================================
