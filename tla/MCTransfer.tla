----------------------------- MODULE MCTransfer -----------------------------
(***************************************************************************)
(* Instance of Transfer for TLC.                                           *)
(***************************************************************************)
EXTENDS Transfer

CONSTANTS p1, p2, x1, x2

MCOwners == {<<p1, p2>>}

\* One owner has two copies, the other one.
MCShared == [p \in Peer |-> IF p = p1 THEN Path ELSE {x1}]
=============================================================================
