------------------------------ MODULE MCBoltDB ------------------------------
(***************************************************************************)
(* Instances of BoltDB for TLC: two users, one of them with a name that is *)
(* a file at one time and a directory at another.                          *)
(***************************************************************************)
EXTENDS BoltDB

MCUserOf == [o \in {"ann@a", "bob@b"} |-> IF o = "ann@a" THEN "ann" ELSE "bob"]

MCPaths == {<<"ann", "d">>, <<"ann", "d", "f">>, <<"ann", "e", "f">>, <<"bob", "f">>}

\* A content that three files of two users can have, and contents that only
\* one file can have.
MCContent ==
  [p \in MCPaths |->
     CASE p = <<"ann", "d">>      -> {"h1"}
       [] p = <<"ann", "d", "f">> -> {"h1", "h2"}
       [] p = <<"ann", "e", "f">> -> {"h3"}
       [] p = <<"bob", "f">>      -> {"h1", "h4"}]
=============================================================================
