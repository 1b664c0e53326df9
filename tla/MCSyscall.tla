------------------------------ MODULE MCSyscall -----------------------------
(* Syscall for TLC: the console, the background threads, short sleeps. *)
EXTENDS Syscall
=============================================================================
