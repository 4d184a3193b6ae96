------------------------------ MODULE FileCache ------------------------------
(***************************************************************************)
(* What Scanner and Publish have in common: the cache of the files below a *)
(* shared directory (src/filescanner/filescanner.go).                      *)
(***************************************************************************)
CONSTANTS Path,    \* regular files the directory may contain
          None     \* no file

VARIABLE fileCache \* fileCache[p]: what is known of p, or None

Nothing == [p \in Path |-> None]
=============================================================================
