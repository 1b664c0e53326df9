------------------------------- MODULE MCFat --------------------------------
(* Fat for TLC: two names, each used for files and for directories, in the
   root directory, in a subdirectory and relative to the current directory. *)
EXTENDS Fat

MCPaths == [abs : BOOLEAN, comps : {<<"A">>, <<"A", "B">>}]
           \cup {[abs |-> TRUE, comps |-> << >>], [abs |-> FALSE, comps |-> <<"..", "A">>]}

\* What a file holds is only compared.
MCSymmetry == Permutations(Values)
=============================================================================
