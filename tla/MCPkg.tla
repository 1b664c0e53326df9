------------------------------- MODULE MCPkg --------------------------------
(* Pkg for TLC: a package of two files, one larger than a new file and than the
   buffer of pkg_install, and a table that a few commands fill. *)
EXTENDS Pkg

MCFiles == <<"F", "G">>
MCSize == [f \in {"F", "G"} |-> IF f = "F" THEN 1 ELSE 4]
Text == <<"text">>

\* Changing drive and directory, also into one that is then removed; "/x", a
\* path on C: while D: is current, and the two calls of the write command.
MCCommands ==
    { <<Chdir(Path("D", TRUE, << >>))>>, <<Chdir(Rel(<<"y">>))>>,
      <<Mkdir(OnC(<<"y">>))>>, <<Unlink(OnC(<<"y">>))>>,
      <<Unlink(Cached("F"))>>, <<Unlink(SOURCES_PATH)>>, <<Mkdir(Path("", TRUE, <<"x">>))>>,
      <<Write(OnC(<<"x">>), Text, 0), Write(OnC(<<"x">>), Text, 1)>>,
      <<Write(Rel(<<"x">>), Text, 6)>> }
=============================================================================
