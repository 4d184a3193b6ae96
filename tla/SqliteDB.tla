------------------------------ MODULE SqliteDB ------------------------------
(***************************************************************************)
(* src/database_sqlite.go: one table, one row per directory, file and      *)
(* peer, so the table is the abstract state `shared' itself; and a cache   *)
(* of the sub-directories, which is not stored in the table and has to     *)
(* follow it.                                                              *)
(*                                                                         *)
(* dirCache maps a directory to the slice of the names below it.  `known'  *)
(* holds the directories whose slice is not nil, and times[d] says how     *)
(* often d's name is in its parent's slice.  Every operation holds dbLock  *)
(* and, for the cache, dirCacheMtx: each is one step.                      *)
(*                                                                         *)
(* A statement may fail, with a full disk for instance.  SetFile then      *)
(* returns without ending its transaction, which may keep the lock on the  *)
(* file: from then on nothing can be written.                              *)
(*                                                                         *)
(* What module BoltDB has as well has the name of this database in front,  *)
(* so that DiskDBProofs can extend both.                                   *)
(*                                                                         *)
(* A definition D_Variant in front of D is D with a mistake in it: it is   *)
(* not used, and shows which property would notice the mistake.            *)
(***************************************************************************)
EXTENDS Database

VARIABLES cached,   \* dirCache is not nil
          known,    \* the directories d with dirCache[d] # nil
          times,    \* times[d]: occurrences of d in dirCache[Parent(d)]
          unsure,   \* the cache names a directory whose file was not committed
          locked    \* a transaction that nobody ends keeps the file locked

dirCache == <<cached, known, times>>
sqliteVars == <<shared, dirCache, unsure, locked>>

-----------------------------------------------------------------------------
\* The files of the table, and the directories on the way to them.
LiveFiles == {p \in Path : \E o \in Owner : shared[o][p] # None}

LiveDirs == UNION {Ancestors(p) : p \in LiveFiles}

NotListed == [d \in Dir |-> 0]

\* newDatabase
SqliteInit ==
  /\ shared = NothingShared
  /\ cached = FALSE
  /\ known = {}
  /\ times = NotListed
  /\ unsure = FALSE
  /\ locked = FALSE

Invalidate_Never == UNCHANGED <<dirCache, unsure>>

\* invalidateDirCache
Invalidate == cached' = FALSE /\ known' = {} /\ times' = NotListed /\ unsure' = FALSE

\* updateDirCache, from the rows about the files P.  A directory without
\* sub-directories gets no slice.
Rebuild(P) ==
  LET named == UNION {Ancestors(p) : p \in P}
  IN  /\ cached' = TRUE
      /\ known' = {Parent(d) : d \in named}
      /\ times' = [d \in Dir |-> IF d \in named THEN 1 ELSE 0]

\* SetFile updates the cache if the file's directory has no slice ...
Incomplete(d) == cached /\ d \notin known

NoteDir_ParentOnly(d) ==
  /\ times' = [times EXCEPT ![d] = @ + 1]
  /\ known' = known \cup {Parent(d)}
  /\ UNCHANGED cached

\* ... with a loop over the path that stops at the first directory that has
\* one.  Appending d to the slice of its parent gives the parent one, so the
\* loop never gets further than that.
NoteDir(d) ==
  /\ times' = [times EXCEPT ![d] = @ + 1]
  /\ known' = known \cup {Parent(d), d}
  /\ UNCHANGED cached

-----------------------------------------------------------------------------
SqliteSetFile(o, p, h) ==
  /\ ~locked
  /\ Offer(o, p, h)
  /\ \/ Incomplete(Parent(p)) /\ NoteDir(Parent(p))
     \/ ~Incomplete(Parent(p)) /\ UNCHANGED dirCache
  /\ UNCHANGED <<unsure, locked>>

SqliteDeleteFile(o, p) ==
  /\ ~locked
  /\ Withdraw(o, p)
  /\ Invalidate
  /\ UNCHANGED locked

SqlitePeerDisconnected(o) ==
  /\ ~locked
  /\ Forget(o)
  /\ Invalidate
  /\ UNCHANGED locked

\* A statement of SetFile fails, and the transaction stays open.
SqliteSetFileFails ==
  /\ locked' \in {locked, TRUE}
  /\ UNCHANGED <<shared, dirCache, unsure>>

\* The commit fails after the cache has been updated ...
CommitFails(p) ==
  /\ ~locked
  /\ Incomplete(Parent(p))
  /\ NoteDir(Parent(p))
  /\ unsure' = TRUE
  /\ UNCHANGED <<shared, locked>>

\* ... or dropped for a deletion.  PeerDisconnected drops it, too, when its
\* statement fails.
DeletionFails ==
  /\ Invalidate
  /\ UNCHANGED <<shared, locked>>

\* GetDir fills the cache when there is none, and never reports ENOENT.  It
\* ignores an error of the query, before the first row or after any.
GetDir ==
  /\ \/ ~cached /\ \E P \in SUBSET LiveFiles : Rebuild(P)
     \/ UNCHANGED dirCache
  /\ UNCHANGED <<shared, unsure, locked>>

SqliteNext ==
  \/ \E o \in Owner : \E p \in PathsOf(o) : \E h \in Content[p] : SqliteSetFile(o, p, h)
  \/ \E o \in Owner : \E p \in PathsOf(o) : SqliteDeleteFile(o, p)
  \/ \E o \in Owner : SqlitePeerDisconnected(o)
  \/ \E p \in Path : CommitFails(p)
  \/ SqliteSetFileFails \/ DeletionFails
  \/ GetDir

SqliteSpec == SqliteInit /\ [][SqliteNext]_sqliteVars

-----------------------------------------------------------------------------
\* The sub-directories GetDir(d) answers with while there is a cache.
SubDirs(d) == {x \in Dir \ {Root} : Parent(x) = d /\ times[x] > 0}

\* The cache never shows a directory that has no file any more: it survives
\* no deletion and no disconnect.  Only a commit that fails after the cache has
\* been updated leaves one, until the cache is next dropped.
NoGhosts == cached /\ ~unsure => \A d \in Dir : SubDirs(d) \subseteq LiveDirs

\* GetDir names a directory twice at most.  It does name one twice: a leaf
\* directory has no slice, so the next file published in it appends it again.
TwiceAtMost == \A d \in Dir : times[d] <= 2
=============================================================================
