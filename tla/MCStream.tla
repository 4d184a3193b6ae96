------------------------------ MODULE MCStream ------------------------------
(***************************************************************************)
(* Instance of Stream for TLC.                                             *)
(***************************************************************************)
EXTENDS Stream

\* Every offset in the file, its end and one beyond.
MCStart == 0 .. Size + 1
=============================================================================
