------------------------------- MODULE MCNet --------------------------------
(* Net for TLC: a ring of five pages and as many queries as ports. *)
EXTENDS Net
=============================================================================
