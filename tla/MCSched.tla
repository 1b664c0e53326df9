------------------------------- MODULE MCSched ------------------------------
(* Sched for TLC: a few threads and a tick counter that wraps soon. *)
EXTENDS Sched
=============================================================================
