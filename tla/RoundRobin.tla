----------------------------- MODULE RoundRobin -----------------------------
(***************************************************************************)
(* What the scheduler of GWKernel promises ("sched: RR cooperative",       *)
(* kernel/sched/sched.c): the live threads take turns in a fixed cyclic    *)
(* order.  The head of order is the thread whose turn it is.  A thread     *)
(* joins at the end, gives up its turn by moving to the end, and leaves    *)
(* only while it has the turn.                                             *)
(***************************************************************************)
EXTENDS Naturals, Sequences

CONSTANT Threads

VARIABLE order

Members == {order[i] : i \in 1 .. Len(order)}

Init == order = << >>

Join(t) == /\ t \notin Members
           /\ order' = Append(order, t)

Rotate == /\ Len(order) > 1
          /\ order' = Append(Tail(order), Head(order))

Leave == /\ order # << >>
         /\ order' = Tail(order)

Next == (\E t \in Threads : Join(t)) \/ Rotate \/ Leave

Spec == Init /\ [][Next]_order
=============================================================================
