-------------------------------- MODULE MCKbd -------------------------------
(* Kbd for TLC: a ring of three slots and short lines. *)
EXTENDS Kbd
=============================================================================
