---------------------------- MODULE DeviceQueue -----------------------------
(***************************************************************************)
(* What a device and its driver promise about a ring in shared memory: the *)
(* items the device puts there are taken in that order, each once.  An     *)
(* item the driver cannot understand makes it drop everything that waits;  *)
(* nothing else does.                                                      *)
(***************************************************************************)
EXTENDS Sequences

CONSTANTS Items, Bad, Nothing

VARIABLES queue,   \* what waits in the ring
          out      \* what the driver has taken and not yet handled

Init == queue = << >> /\ out = Nothing

Put(i) == queue' = Append(queue, i) /\ UNCHANGED out

Take == queue # << >> /\ queue' = Tail(queue) /\ out' = Head(queue)

DropAll == queue # << >> /\ Head(queue) = Bad /\ queue' = << >> /\ UNCHANGED out

Handle == out' = Nothing /\ UNCHANGED queue

Next == (\E i \in Items : Put(i)) \/ Take \/ DropAll \/ Handle

Spec == Init /\ [][Next]_<<queue, out>>
=============================================================================
