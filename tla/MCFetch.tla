------------------------------ MODULE MCFetch ------------------------------
(***************************************************************************)
(* Instance of Fetch for TLC.                                              *)
(***************************************************************************)
EXTENDS Fetch

\* A whole block, parts of two blocks, the rest of the file, more than the rest,
\* beyond the last block and at the end of the file.
MCRequests ==
  {[offset |-> 0, size |-> 3], [offset |-> 2, size |-> 2], [offset |-> 5, size |-> 2],
   [offset |-> 6, size |-> 3], [offset |-> 4, size |-> 6], [offset |-> 7, size |-> 1]}
=============================================================================
