------------------------------- MODULE MCTcp --------------------------------
(* Tcp for TLC: answers of up to five units in segments of any size, a buffer
   and a limit smaller than that, a sequence space that wraps around, three
   attempts. *)
EXTENDS Tcp
=============================================================================
