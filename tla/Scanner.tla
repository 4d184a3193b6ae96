------------------------------- MODULE Scanner -------------------------------
(***************************************************************************)
(* The scanner of one shared directory (src/filescanner/filescanner.go):   *)
(* the passes over the directory, the cache of what they found, and the    *)
(* copy of the cache on disk that a restarted process starts from.         *)
(*                                                                         *)
(* Every write to a file gives it a new modification time, and a content   *)
(* named by that time.  A FileInfo is a modification time and a hash; the  *)
(* hash of a file that was read while it changed is Torn.  The walk sees   *)
(* the files in any order, and files change at any moment.  What set then  *)
(* tells its listeners is the subject of module Publish.                   *)
(*                                                                         *)
(* A definition D_Variant in front of D is D with a mistake in it: it is   *)
(* not used, and shows which property would notice the mistake.            *)
(***************************************************************************)
EXTENDS FileCache, Integers, FiniteSets

CONSTANTS MaxMtime,   \* bound on modification times
          MaxFaults,  \* bound on crashes and unreadable directories
          Torn

ASSUME ScannerAssumption ==
  /\ MaxMtime \in Nat \ {0}
  /\ MaxFaults \in Nat
  /\ {None, Torn} \cap Nat = {}
  /\ None \notin [mtime : Nat, hash : Nat \cup {Torn}] \cup [path : Path, mtime : Nat]

VARIABLES disk,       \* disk[p]: when p was last written, or None
          clock,      \* the time of the last write
          hashcache,  \* the saved cache, None if there is none to be read
          pc,         \* where Run is
          cacheSeed,  \* fastPass: what it read from the disk
          todo,       \* files the walk has not come to
          present,    \* files that were there when the walk began
          missing,    \* cached files the walk has not seen
          stat,       \* the file being hashed, or None
          quiet,      \* no file has changed since the walk began
          faults

walk == <<cacheSeed, todo, present, missing, stat>>
vars == <<disk, clock, fileCache, hashcache, pc, walk, quiet, faults>>

Mtime    == 1 .. MaxMtime
FileInfo == [mtime : Mtime, hash : Mtime \cup {Torn}]
Walking  == {"fast", "first", "normal"}
NormalPasses == {"first", "normal"}
OnDisk   == {p \in Path : disk[p] # None}

Init ==
  /\ disk = Nothing
  /\ clock = 0
  /\ fileCache = Nothing
  /\ hashcache = None
  /\ pc = "start"
  /\ cacheSeed = Nothing
  /\ todo = {} /\ present = {} /\ missing = {}
  /\ stat = None
  /\ quiet = TRUE
  /\ faults = 0

-----------------------------------------------------------------------------
\* Users write and remove files.
Write(p) ==
  /\ clock < MaxMtime
  /\ clock' = clock + 1
  /\ disk' = [disk EXCEPT ![p] = clock + 1]
  /\ quiet' = FALSE
  /\ UNCHANGED <<fileCache, hashcache, pc, walk, faults>>

Unlink(p) ==
  /\ disk[p] # None
  /\ disk' = [disk EXCEPT ![p] = None]
  /\ quiet' = FALSE
  /\ UNCHANGED <<clock, fileCache, hashcache, pc, walk, faults>>

env == <<disk, clock, faults>>

-----------------------------------------------------------------------------
set(p, info) == fileCache' = [fileCache EXCEPT ![p] = info]

\* A walk over the directory begins.
Walk(where) ==
  /\ pc' = where
  /\ todo' = Path
  /\ present' = OnDisk
  /\ quiet' = TRUE

\* filepath.Walk does not come by a file that is gone, or that was made after
\* its directory was read.
Skip(p) ==
  /\ pc \in Walking
  /\ stat = None
  /\ p \in todo
  /\ p \notin present \/ disk[p] = None
  /\ todo' = todo \ {p}
  /\ UNCHANGED <<env, fileCache, hashcache, pc, cacheSeed, present, missing, stat, quiet>>

\* It reports an error for a directory it cannot read, which the callback
\* ignores: the files in it are not seen.
Unreadable(p) ==
  /\ pc \in Walking
  /\ stat = None
  /\ p \in todo
  /\ faults < MaxFaults
  /\ faults' = faults + 1
  /\ todo' = todo \ {p}
  /\ quiet' = FALSE
  /\ UNCHANGED <<disk, clock, fileCache, hashcache, pc, cacheSeed, present, missing, stat>>

\* A FileInfo describes the file as it is according to its metadata.
Same_Cached(p, info) == info # None

Same(p, info) == info # None /\ disk[p] # None /\ info.mtime = disk[p]

-----------------------------------------------------------------------------
\* readHashCache succeeds.
Readable == hashcache # None

FastPass ==
  /\ pc = "start"
  /\ \/ Readable /\ Walk("fast") /\ cacheSeed' = hashcache
     \/ ~Readable /\ pc' = "begin" /\ UNCHANGED <<cacheSeed, todo, present, quiet>>
  /\ UNCHANGED <<env, fileCache, hashcache, missing, stat>>

FastVisit(p) ==
  /\ pc = "fast"
  /\ p \in todo
  /\ disk[p] # None
  /\ todo' = todo \ {p}
  /\ IF Same(p, cacheSeed[p]) THEN set(p, cacheSeed[p]) ELSE UNCHANGED fileCache
  /\ UNCHANGED <<env, hashcache, pc, cacheSeed, present, missing, stat, quiet>>

FastDone ==
  /\ pc = "fast"
  /\ todo = {}
  /\ pc' = "begin"
  /\ cacheSeed' = Nothing
  /\ UNCHANGED <<env, fileCache, hashcache, todo, present, missing, stat, quiet>>

getFileNames == {p \in Path : fileCache[p] # None}

\* A normal pass: the first one, or one after the pause.
NormalPass ==
  /\ pc \in {"begin", "rest"}
  /\ Walk(IF pc = "begin" THEN "first" ELSE "normal")
  /\ missing' = getFileNames
  /\ UNCHANGED <<env, fileCache, hashcache, cacheSeed, stat>>

Visit(p) ==
  /\ pc \in NormalPasses
  /\ stat = None
  /\ p \in todo
  /\ disk[p] # None
  /\ todo' = todo \ {p}
  /\ missing' = missing \ {p}
  /\ stat' = IF Same(p, fileCache[p]) THEN None ELSE [path |-> p, mtime |-> disk[p]]
  /\ UNCHANGED <<env, fileCache, hashcache, pc, cacheSeed, present, quiet>>

\* What HashFile may return: the content now or, if the file has changed since
\* it was looked at, of neither version.
Hashes(p) == {disk[p]} \cup (IF disk[p] # stat.mtime THEN {Torn} ELSE {})

\* The metadata is that of the walk, older than the hash.
Info_Restat(p, h) == [mtime |-> disk[p], hash |-> h]

Info(p, h) == [mtime |-> stat.mtime, hash |-> h]

Hashed ==
  /\ stat # None
  /\ \/ disk[stat.path] = None /\ UNCHANGED fileCache
     \/ /\ disk[stat.path] # None
        /\ \E h \in Hashes(stat.path) : set(stat.path, Info(stat.path, h))
  /\ stat' = None
  /\ UNCHANGED <<env, hashcache, pc, cacheSeed, todo, present, missing, quiet>>

\* The walk is over; the files it has not seen are dropped one by one.
Dropped_Never(p) == UNCHANGED fileCache

Dropped(p) == set(p, None)

DropMissing(p) ==
  /\ pc \in NormalPasses
  /\ todo = {}
  /\ stat = None
  /\ p \in missing
  /\ Dropped(p)
  /\ missing' = missing \ {p}
  /\ UNCHANGED <<env, hashcache, pc, cacheSeed, todo, present, stat, quiet>>

NormalDone ==
  /\ pc \in NormalPasses
  /\ todo = {} /\ missing = {} /\ stat = None
  /\ pc' = "save"
  /\ UNCHANGED <<env, fileCache, hashcache, walk, quiet>>

\* writeHashCache replaces the file by rename, or fails and leaves it.  What the
\* Close of the new file reports is ignored, so that it may be truncated.
Written == {fileCache, hashcache, None}

Save ==
  /\ pc = "save"
  /\ hashcache' \in Written
  /\ pc' = "rest"
  /\ UNCHANGED <<env, fileCache, walk, quiet>>

\* The auto saver runs during the first normal pass, at any moment of it.
AutoSave ==
  /\ pc = "first"
  /\ hashcache' \in Written
  /\ UNCHANGED <<env, fileCache, pc, walk, quiet>>

\* The process dies and is started again.  The file is not synced before it is
\* renamed, so it may come back unreadable.
Crash ==
  /\ faults < MaxFaults
  /\ faults' = faults + 1
  /\ fileCache' = Nothing
  /\ hashcache' \in {hashcache, None}
  /\ pc' = "start"
  /\ cacheSeed' = Nothing
  /\ todo' = {} /\ present' = {} /\ missing' = {}
  /\ stat' = None
  /\ UNCHANGED <<disk, clock, quiet>>

Step ==
  \/ FastPass \/ FastDone \/ NormalPass \/ Hashed \/ NormalDone \/ Save
  \/ \E p \in Path : Skip(p) \/ FastVisit(p) \/ Visit(p) \/ DropMissing(p)

Next ==
  \/ Step
  \/ AutoSave \/ Crash
  \/ \E p \in Path : Write(p) \/ Unlink(p) \/ Unreadable(p)

Spec == Init /\ [][Next]_vars

\* Run goes on as long as its context is not cancelled.
FairSpec == Spec /\ WF_vars(Step)

-----------------------------------------------------------------------------
\* An entry whose modification time is that of the file has the file's hash:
\* that is why fastPass may trust what an earlier process saved and normalPass
\* need not read a file again, although a file may change between the look at
\* its metadata and the reading of it, and a process may die at any moment.
HashTrusted ==
  \A p \in Path : \A info \in {fileCache[p], cacheSeed[p]}
                    \cup (IF hashcache = None THEN {} ELSE {hashcache[p]}) :
    Same(p, info) => info.hash = disk[p]

\* After a normal pass during which no file changed and every directory could
\* be read, the cache is the directory: nothing of an earlier pass that raced
\* with a change, of the saved cache or of a removed file is left in it.
QuietPassExact ==
  pc = "save" /\ quiet =>
    \A p \in Path : fileCache[p] = IF disk[p] = None THEN None
                                   ELSE [mtime |-> disk[p], hash |-> disk[p]]

\* The bounds end the writes and the faults.  From then on the passes bring the
\* cache to what is in the directory, and keep it there.
Converges ==
  <>[](\A p \in Path : fileCache[p] = IF disk[p] = None THEN None
                                      ELSE [mtime |-> disk[p], hash |-> disk[p]])
=============================================================================
