---------------------------- MODULE BoundedFifo -----------------------------
(***************************************************************************)
(* What the keyboard buffer promises: a queue of at most Capacity          *)
(* characters, filled at one end and emptied at the other.                 *)
(***************************************************************************)
EXTENDS Naturals, Sequences

CONSTANTS Chars, Capacity

VARIABLE queue

Init == queue = << >>

Put(c) == Len(queue) < Capacity /\ queue' = Append(queue, c)

Get == queue # << >> /\ queue' = Tail(queue)

Next == (\E c \in Chars : Put(c)) \/ Get

Spec == Init /\ [][Next]_queue
=============================================================================
