------------------------------- MODULE MCHeap -------------------------------
(* Heap for TLC: the header, alignment and minimal block of the code, small
   pages and a memory of a few of them. *)
EXTENDS Heap
=============================================================================
