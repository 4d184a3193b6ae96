----------------------------- MODULE MCSqliteDB -----------------------------
(***************************************************************************)
(* Instance of SqliteDB for TLC: a user with two machines and one with one *)
(* machine, files at three depths.                                         *)
(***************************************************************************)
EXTENDS SqliteDB

MCUserOf ==
  [o \in {"ann@a", "ann@c", "bob@b"} |-> IF o = "bob@b" THEN "bob" ELSE "ann"]

MCPaths == {<<"ann", "f">>, <<"ann", "d", "f">>, <<"ann", "d", "e", "f">>, <<"bob", "f">>}

MCContent == [p \in MCPaths |-> {"h1"}]
=============================================================================
