----------------------------- MODULE MCInmemDB -----------------------------
(***************************************************************************)
(* The instance of InmemDB for TLC: ann has a file and a subdirectory of   *)
(* the same name, bob can have the contents ann has, and nobody has those  *)
(* of cy.                                                                  *)
(***************************************************************************)
EXTENDS InmemDB

MCUserOf ==
  [o \in {"ann@a", "bob@b", "cy@c"} |->
     CASE o = "ann@a" -> "ann" [] o = "bob@b" -> "bob" [] o = "cy@c" -> "cy"]

MCPaths == {<<"ann", "d">>, <<"ann", "d", "f">>, <<"bob", "f">>, <<"cy", "d", "f">>,
            <<"cy", "f">>}

MCContent == [p \in MCPaths |-> IF p[1] = "cy" THEN {"h3"} ELSE {"h1", "h2"}]
=============================================================================
