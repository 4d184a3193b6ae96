---------------------------- MODULE ScannerProofs ----------------------------
(***************************************************************************)
(* Proofs about Scanner for any set of files, any number of writes and any *)
(* number of crashes; and about Publish for any paths and hashes, any      *)
(* number of changes, reconnects and threads.                              *)
(***************************************************************************)
EXTENDS Scanner, Publish, SequenceTheorems, TLAPS

Stat == [path : Path, mtime : Mtime]
Cache == [Path -> FileInfo \cup {None}]

TypeInv ==
  /\ disk \in [Path -> Mtime \cup {None}]
  /\ clock \in 0 .. MaxMtime
  /\ fileCache \in Cache
  /\ cacheSeed \in Cache
  /\ hashcache \in Cache \cup {None}
  /\ pc \in {"start", "fast", "begin", "first", "normal", "save", "rest"}
  /\ todo \subseteq Path /\ present \subseteq Path /\ missing \subseteq Path
  /\ stat \in Stat \cup {None}
  /\ quiet \in BOOLEAN

\* A FileInfo is no younger than the last write, so the next write makes it
\* old; and if it is as old as the file, it has the file's hash.
Trusted(p, info) ==
  info # None =>
    /\ info.mtime <= clock
    /\ disk[p] = info.mtime => info.hash = disk[p]

TrustInv ==
  /\ \A p \in Path : disk[p] # None => disk[p] <= clock
  /\ \A p \in Path : Trusted(p, fileCache[p]) /\ Trusted(p, cacheSeed[p])
  /\ hashcache # None => \A p \in Path : Trusted(p, hashcache[p])
  /\ stat # None => pc \in NormalPasses /\ stat.mtime <= clock

\* The cache holds what is in the directory.
Exact(p) ==
  fileCache[p] = IF disk[p] = None THEN None ELSE [mtime |-> disk[p], hash |-> disk[p]]

\* How far a normal pass is during which nothing has changed: the walk visits
\* the files on disk, those it has come by are in the cache or being hashed, and
\* cached files that are not on disk are still to be dropped.
PassInv ==
  /\ pc \in NormalPasses /\ quiet =>
       /\ present = OnDisk
       /\ stat # None => stat.mtime = disk[stat.path] /\ stat.path \notin todo
       /\ \A p \in Path \ todo :
            disk[p] # None => /\ p \notin missing
                              /\ stat = None \/ stat.path # p => Exact(p)
       /\ \A p \in Path : disk[p] = None => fileCache[p] = None \/ p \in missing
  /\ pc = "save" /\ quiet => \A p \in Path : Exact(p)

ScanInv == TypeInv /\ TrustInv /\ PassInv

-----------------------------------------------------------------------------
\* None is no time, no FileInfo and no stat.
LEMMA NoneApart ==
  /\ \A m \in Mtime : m \in Nat /\ m # None
  /\ None \notin FileInfo
  /\ None \notin Stat
<1>1. Mtime \subseteq Nat
  BY ScannerAssumption DEF Mtime
<1>2. FileInfo \subseteq [mtime : Nat, hash : Nat \cup {Torn}]
  BY <1>1 DEF FileInfo
<1>3. Stat \subseteq [path : Path, mtime : Nat]
  BY <1>1 DEF Stat
<1> QED
  BY <1>1, <1>2, <1>3, ScannerAssumption

\* Writing an entry keeps the type of the cache.
LEMMA SetType ==
  ASSUME fileCache \in Cache, NEW p \in Path, NEW info \in FileInfo \cup {None},
         set(p, info)
  PROVE  fileCache' \in Cache
BY DEF Cache, set

\* What a hash returns makes a FileInfo.
LEMMA InfoType ==
  ASSUME TypeInv, stat # None, disk[stat.path] # None, NEW h \in Hashes(stat.path)
  PROVE  stat.path \in Path /\ Info(stat.path, h) \in FileInfo
<1>1. stat.path \in Path /\ stat.mtime \in Mtime
  BY DEF TypeInv, Stat
<1>2. disk[stat.path] \in Mtime
  BY <1>1 DEF TypeInv
<1> QED
  BY <1>1, <1>2 DEF Hashes, Info, FileInfo

-----------------------------------------------------------------------------
(* Types.                                                                  *)

\* Every action preserves the types.
LEMMA TypeStep == TypeInv /\ [Next]_vars => TypeInv'
<1> SUFFICES ASSUME TypeInv, [Next]_vars
             PROVE  TypeInv'
  OBVIOUS
<1> USE DEF vars, walk, env
<1>1. ASSUME NEW p \in Path, Write(p)
      PROVE  TypeInv'
  <2>1. clock + 1 \in Mtime /\ clock' \in 0 .. MaxMtime
    BY <1>1, ScannerAssumption DEF Write, TypeInv, Mtime
  <2> QED
    BY <1>1, <2>1 DEF Write, TypeInv
<1>2. ASSUME NEW p \in Path, Unlink(p)
      PROVE  TypeInv'
  BY <1>2 DEF Unlink, TypeInv
<1>3. ASSUME NEW p \in Path, Unreadable(p)
      PROVE  TypeInv'
  BY <1>3 DEF Unreadable, TypeInv
<1>4. ASSUME NEW p \in Path, Skip(p)
      PROVE  TypeInv'
  BY <1>4 DEF Skip, TypeInv
<1>5. CASE FastPass
  BY <1>5 DEF FastPass, Readable, Walk, OnDisk, TypeInv
<1>6. ASSUME NEW p \in Path, FastVisit(p)
      PROVE  TypeInv'
  <2>1. cacheSeed[p] \in FileInfo \cup {None}
    BY DEF TypeInv, Cache
  <2>2. fileCache' \in Cache
    BY <1>6, <2>1, SetType DEF FastVisit, TypeInv
  <2> QED
    BY <1>6, <2>2 DEF FastVisit, TypeInv
<1>7. CASE FastDone
  BY <1>7 DEF FastDone, Nothing, TypeInv, Cache
<1>8. CASE NormalPass
  BY <1>8 DEF NormalPass, Walk, OnDisk, getFileNames, TypeInv
<1>9. ASSUME NEW p \in Path, Visit(p)
      PROVE  TypeInv'
  <2>1. disk[p] \in Mtime
    BY <1>9 DEF Visit, TypeInv
  <2>2. stat' \in Stat \cup {None}
    BY <1>9, <2>1 DEF Visit, Stat
  <2> QED
    BY <1>9, <2>2 DEF Visit, TypeInv
<1>10. CASE Hashed
  <2>1. fileCache' \in Cache
    <3>1. CASE UNCHANGED fileCache
      BY <3>1 DEF TypeInv
    <3>2. CASE disk[stat.path] # None /\ \E h \in Hashes(stat.path) :
                 set(stat.path, Info(stat.path, h))
      BY <1>10, <3>2, InfoType, SetType DEF Hashed, TypeInv
    <3> QED
      BY <1>10, <3>1, <3>2 DEF Hashed
  <2> QED
    BY <1>10, <2>1 DEF Hashed, TypeInv
<1>11. ASSUME NEW p \in Path, DropMissing(p)
       PROVE  TypeInv'
  <2>1. fileCache' \in Cache
    BY <1>11, SetType DEF DropMissing, Dropped, TypeInv
  <2> QED
    BY <1>11, <2>1 DEF DropMissing, TypeInv
<1>12. CASE NormalDone
  BY <1>12 DEF NormalDone, TypeInv
<1>13. CASE Save
  BY <1>13 DEF Save, Written, TypeInv
<1>14. CASE AutoSave
  BY <1>14 DEF AutoSave, Written, TypeInv
<1>15. CASE Crash
  BY <1>15 DEF Crash, Nothing, TypeInv, Cache
<1>16. CASE UNCHANGED vars
  BY <1>16 DEF TypeInv
<1> QED
  BY <1>1, <1>2, <1>3, <1>4, <1>5, <1>6, <1>7, <1>8, <1>9, <1>10, <1>11, <1>12,
     <1>13, <1>14, <1>15, <1>16 DEF Next, Step

-----------------------------------------------------------------------------
(* What is cached can be trusted.                                          *)

\* A write makes every entry old, and only the files' own entries matter to an
\* unlink: in both cases what could be trusted still can.
LEMMA ChangedTrust ==
  ASSUME TypeInv, TrustInv, NEW p \in Path, Write(p) \/ Unlink(p),
         NEW q \in Path, NEW info \in FileInfo \cup {None}, Trusted(q, info)
  PROVE  Trusted(q, info)'
<1>1. clock \in Nat /\ None \notin Nat
  BY ScannerAssumption DEF TypeInv
<1>2. info # None => info.mtime \in Nat
  BY NoneApart DEF FileInfo
<1>3. CASE Write(p)
  <2>1. clock' = clock + 1 /\ disk' = [disk EXCEPT ![p] = clock + 1]
    BY <1>3 DEF Write
  <2> QED
    BY <1>1, <1>2, <2>1 DEF Trusted, TypeInv
<1>4. CASE Unlink(p)
  <2>1. clock' = clock /\ disk' = [disk EXCEPT ![p] = None]
    BY <1>4 DEF Unlink
  <2> QED
    BY <1>1, <1>2, <2>1 DEF Trusted, TypeInv
<1> QED
  BY <1>3, <1>4

\* An entry set in the cache is trusted if it was.
LEMMA SetTrust ==
  ASSUME TypeInv, TrustInv, NEW p \in Path, NEW info, set(p, info), Trusted(p, info),
         UNCHANGED <<disk, clock>>
  PROVE  \A q \in Path : Trusted(q, fileCache[q])'
<1>1. \A q \in Path : fileCache'[q] = IF q = p THEN info ELSE fileCache[q]
  BY DEF set, TypeInv, Cache
<1> QED
  BY <1>1 DEF TrustInv, Trusted

\* A hash is that of the file, or the file is no longer the one of the stat.
LEMMA InfoTrust ==
  ASSUME TypeInv, TrustInv, stat # None, disk[stat.path] # None,
         NEW h \in Hashes(stat.path)
  PROVE  Trusted(stat.path, Info(stat.path, h))
BY DEF Hashes, Info, Trusted, TrustInv

\* Every action preserves the trust.
LEMMA TrustStep == TypeInv /\ TypeInv' /\ TrustInv /\ [Next]_vars => TrustInv'
<1> SUFFICES ASSUME TypeInv, TypeInv', TrustInv, [Next]_vars
             PROVE  TrustInv'
  OBVIOUS
<1> USE DEF vars, walk, env
<1>1. ASSUME NEW p \in Path, Write(p) \/ Unlink(p)
      PROVE  TrustInv'
  <2>1. UNCHANGED <<fileCache, cacheSeed, hashcache, stat, pc>>
    BY <1>1 DEF Write, Unlink
  <2>2. \A q \in Path : Trusted(q, fileCache[q])' /\ Trusted(q, cacheSeed[q])'
    BY <1>1, <2>1, ChangedTrust DEF TypeInv, TrustInv, Cache, Trusted
  <2>3. hashcache' # None => \A q \in Path : Trusted(q, hashcache[q])'
    BY <1>1, <2>1, ChangedTrust DEF TypeInv, TrustInv, Cache, Trusted
  <2>4. \A q \in Path : disk'[q] # None => disk'[q] <= clock'
    <3>1. clock \in Nat /\ \A q \in Path : disk[q] # None => disk[q] \in Nat
      BY NoneApart DEF TypeInv
    <3> QED
      BY <1>1, <3>1 DEF Write, Unlink, TypeInv, TrustInv
  <2>5. stat' # None => pc' \in NormalPasses /\ stat'.mtime <= clock'
    <3>1. clock \in Nat /\ (stat # None => stat.mtime \in Nat)
      BY NoneApart DEF TypeInv, Stat
    <3> QED
      BY <1>1, <2>1, <3>1 DEF Write, Unlink, TrustInv
  <2> QED
    BY <2>2, <2>3, <2>4, <2>5 DEF TrustInv
<1>2. ASSUME NEW p \in Path, FastVisit(p)
      PROVE  TrustInv'
  <2>1. UNCHANGED <<disk, clock, hashcache, cacheSeed, stat, pc>>
    BY <1>2 DEF FastVisit
  <2>2. \A q \in Path : Trusted(q, fileCache[q])'
    <3>1. Trusted(p, cacheSeed[p])
      BY DEF TrustInv
    <3> QED
      BY <1>2, <2>1, <3>1, SetTrust DEF FastVisit, TrustInv, Trusted
  <2> QED
    BY <2>1, <2>2 DEF TrustInv, Trusted
<1>3. CASE Hashed
  <2>1. UNCHANGED <<disk, clock, hashcache, cacheSeed>> /\ stat' = None
    BY <1>3 DEF Hashed
  <2>2. \A q \in Path : Trusted(q, fileCache[q])'
    <3>1. CASE UNCHANGED fileCache
      BY <2>1, <3>1 DEF TrustInv, Trusted
    <3>2. CASE disk[stat.path] # None /\ \E h \in Hashes(stat.path) :
                 set(stat.path, Info(stat.path, h))
      <4>1. PICK h \in Hashes(stat.path) : set(stat.path, Info(stat.path, h))
        BY <3>2
      <4>2. Trusted(stat.path, Info(stat.path, h)) /\ stat.path \in Path
        BY <1>3, <3>2, InfoTrust, InfoType DEF Hashed
      <4> QED
        BY <2>1, <4>1, <4>2, SetTrust
    <3> QED
      BY <1>3, <3>1, <3>2 DEF Hashed
  <2> QED
    BY <2>1, <2>2 DEF TrustInv, Trusted
<1>4. ASSUME NEW p \in Path, DropMissing(p)
      PROVE  TrustInv'
  <2>1. UNCHANGED <<disk, clock, hashcache, cacheSeed, stat, pc>>
    BY <1>4 DEF DropMissing
  <2>2. \A q \in Path : Trusted(q, fileCache[q])'
    BY <1>4, <2>1, SetTrust DEF DropMissing, Dropped, Trusted
  <2> QED
    BY <2>1, <2>2 DEF TrustInv, Trusted
<1>5. ASSUME NEW p \in Path, Visit(p)
      PROVE  TrustInv'
  <2>1. stat' # None => stat'.mtime = disk[p]
    BY <1>5 DEF Visit
  <2> QED
    BY <1>5, <2>1 DEF Visit, TrustInv, Trusted
<1>6. CASE Save \/ AutoSave
  BY <1>6 DEF Save, AutoSave, Written, TrustInv, Trusted, NormalPasses
<1>7. CASE Crash
  BY <1>7 DEF Crash, Nothing, TrustInv, Trusted
<1>8. CASE FastPass
  BY <1>8 DEF FastPass, Readable, Walk, TrustInv, Trusted, NormalPasses
<1>9. CASE FastDone
  BY <1>9 DEF FastDone, Nothing, TrustInv, Trusted, NormalPasses
<1>10. CASE NormalPass
  BY <1>10 DEF NormalPass, Walk, TrustInv, Trusted, NormalPasses
<1>11. CASE NormalDone
  BY <1>11 DEF NormalDone, TrustInv, Trusted, NormalPasses
<1>12. ASSUME NEW p \in Path, Skip(p) \/ Unreadable(p)
       PROVE  TrustInv'
  BY <1>12 DEF Skip, Unreadable, TrustInv, Trusted
<1>13. CASE UNCHANGED vars
  BY <1>13 DEF TrustInv, Trusted
<1> QED
  BY <1>1, <1>2, <1>3, <1>4, <1>5, <1>6, <1>7, <1>8, <1>9, <1>10, <1>11, <1>12,
     <1>13 DEF Next, Step

-----------------------------------------------------------------------------
(* A quiet pass.                                                           *)

\* An entry that the metadata calls unchanged is exact.
LEMMA SameExact ==
  ASSUME TypeInv, TrustInv, NEW p \in Path, Same(p, fileCache[p])
  PROVE  Exact(p)
<1>1. fileCache[p] \in FileInfo
  BY DEF Same, TypeInv, Cache
<1>2. fileCache[p].mtime = disk[p] /\ fileCache[p].hash = disk[p] /\ disk[p] # None
  BY DEF Same, TrustInv, Trusted
<1>3. fileCache[p] = [mtime |-> fileCache[p].mtime, hash |-> fileCache[p].hash]
  BY <1>1 DEF FileInfo
<1> QED
  BY <1>2, <1>3 DEF Exact

\* A file that has not changed since the stat gets an exact entry.
LEMMA HashedExact ==
  ASSUME TypeInv, NEW p \in Path, stat.path = p, stat.mtime = disk[p], disk[p] # None,
         NEW h \in Hashes(p), set(p, Info(p, h)), UNCHANGED disk
  PROVE  Exact(p)' /\ \A q \in Path \ {p} : fileCache'[q] = fileCache[q]
<1>1. Info(p, h) = [mtime |-> disk[p], hash |-> disk[p]]
  BY DEF Hashes, Info
<1>2. fileCache' = [fileCache EXCEPT ![p] = Info(p, h)]
  BY DEF set
<1> QED
  BY <1>1, <1>2 DEF Exact, TypeInv, Cache

\* Every action preserves the progress of a quiet pass.
LEMMA PassStep ==
  TypeInv /\ TypeInv' /\ TrustInv /\ PassInv /\ [Next]_vars => PassInv'
<1> SUFFICES ASSUME TypeInv, TypeInv', TrustInv, PassInv, [Next]_vars
             PROVE  PassInv'
  OBVIOUS
<1> USE DEF vars, walk, env
<1>1. ASSUME NEW p \in Path, Write(p) \/ Unlink(p) \/ Unreadable(p)
      PROVE  PassInv'
  BY <1>1 DEF Write, Unlink, Unreadable, PassInv
<1>2. ASSUME NEW p \in Path, Skip(p)
      PROVE  PassInv'
  BY <1>2 DEF Skip, Walking, NormalPasses, PassInv, OnDisk, Exact
<1>3. CASE FastPass \/ FastDone \/ Save \/ Crash
  BY <1>3 DEF FastPass, FastDone, Save, Crash, Walk, PassInv, NormalPasses
<1>4. ASSUME NEW p \in Path, FastVisit(p)
      PROVE  PassInv'
  BY <1>4 DEF FastVisit, PassInv, NormalPasses
<1>5. CASE NormalPass
  <2>1. stat = None /\ stat' = None
    BY <1>5 DEF NormalPass, TrustInv, NormalPasses
  <2> QED
    BY <1>5, <2>1 DEF NormalPass, Walk, getFileNames, PassInv, NormalPasses, OnDisk
<1>6. ASSUME NEW p \in Path, Visit(p)
      PROVE  PassInv'
  <2> SUFFICES ASSUME pc \in NormalPasses, quiet
               PROVE  PassInv'
    BY <1>6 DEF Visit, PassInv, NormalPasses
  <2>1. /\ UNCHANGED <<disk, fileCache, pc, present, quiet>>
        /\ stat = None /\ p \in todo /\ disk[p] # None
        /\ todo' = todo \ {p} /\ missing' = missing \ {p}
        /\ OnDisk' = OnDisk /\ \A q : Exact(q)' <=> Exact(q)
    BY <1>6 DEF Visit, OnDisk, Exact
  <2>2. CASE Same(p, fileCache[p])
    <3>1. stat' = None /\ Exact(p)
      BY <1>6, <2>2, SameExact DEF Visit
    <3> QED
      BY <2>1, <3>1 DEF PassInv, NormalPasses
  <2>3. CASE ~Same(p, fileCache[p])
    <3>1. stat' = [path |-> p, mtime |-> disk[p]]
      BY <1>6, <2>3 DEF Visit
    <3>2. stat'.path = p /\ stat'.mtime = disk[p] /\ stat' # None
      <4>1. stat' \in Stat
        BY <2>1, <3>1 DEF TypeInv, Stat
      <4> QED
        BY <3>1, <4>1, NoneApart
    <3> QED
      BY <2>1, <3>2 DEF PassInv, NormalPasses
  <2> QED
    BY <2>2, <2>3
<1>7. CASE Hashed
  <2> SUFFICES ASSUME quiet
               PROVE  PassInv'
    BY <1>7 DEF Hashed, PassInv
  <2> DEFINE p == stat.path
  <2>1. /\ UNCHANGED <<disk, pc, present, quiet, todo, missing>>
        /\ stat # None /\ stat' = None /\ OnDisk' = OnDisk
    BY <1>7 DEF Hashed, OnDisk
  <2>2. pc \in NormalPasses /\ p \in Path /\ stat.mtime \in Mtime
    BY <2>1 DEF TrustInv, TypeInv, Stat
  <2>3. stat.mtime = disk[p] /\ p \notin todo /\ disk[p] # None
    BY <2>1, <2>2, NoneApart DEF PassInv
  <2>4. PICK h \in Hashes(p) : set(p, Info(p, h))
    BY <1>7, <2>3 DEF Hashed
  <2>5. \A q \in Path : IF q = p THEN Exact(q)' ELSE fileCache'[q] = fileCache[q]
    <3> HIDE DEF p
    <3>1. stat.path = p
      BY DEF p
    <3> QED
      BY <2>1, <2>2, <2>3, <2>4, <3>1, HashedExact
  <2>6. \A q \in Path : q # p => (Exact(q)' <=> Exact(q))
    BY <2>1, <2>5 DEF Exact
  <2> QED
    BY <2>1, <2>2, <2>3, <2>5, <2>6 DEF PassInv, NormalPasses
<1>8. ASSUME NEW p \in Path, DropMissing(p)
      PROVE  PassInv'
  <2> SUFFICES ASSUME quiet
               PROVE  PassInv'
    BY <1>8 DEF DropMissing, PassInv
  <2>1. /\ UNCHANGED <<disk, pc, present, quiet, todo, stat>>
        /\ pc \in NormalPasses /\ todo = {} /\ stat = None /\ p \in missing
        /\ missing' = missing \ {p} /\ OnDisk' = OnDisk
    BY <1>8 DEF DropMissing, OnDisk
  <2>2. disk[p] = None
    BY <2>1 DEF PassInv
  <2>3. \A q \in Path : fileCache'[q] = IF q = p THEN None ELSE fileCache[q]
    BY <1>8 DEF DropMissing, Dropped, set, TypeInv, Cache
  <2> QED
    BY <2>1, <2>2, <2>3 DEF PassInv, NormalPasses, Exact
<1>9. CASE NormalDone
  <2>1. /\ UNCHANGED <<disk, fileCache, quiet>> /\ pc' = "save" /\ pc \in NormalPasses
        /\ todo = {} /\ missing = {} /\ stat = None
    BY <1>9 DEF NormalDone
  <2> QED
    BY <2>1 DEF PassInv, NormalPasses, Exact
<1>10. CASE AutoSave
  BY <1>10 DEF AutoSave, PassInv, OnDisk, Exact
<1>11. CASE UNCHANGED vars
  BY <1>11 DEF PassInv, OnDisk, Exact
<1> QED
  BY <1>1, <1>2, <1>3, <1>4, <1>5, <1>6, <1>7, <1>8, <1>9, <1>10, <1>11 DEF Next, Step

-----------------------------------------------------------------------------
\* The invariant holds of every behaviour of the scanner.
LEMMA ScanAlways == Spec => []ScanInv
<1>1. Init => ScanInv
  <2> SUFFICES ASSUME Init PROVE ScanInv
    OBVIOUS
  <2>1. TypeInv
    BY ScannerAssumption DEF Init, TypeInv, Nothing, Cache
  <2>2. TrustInv /\ PassInv
    BY DEF Init, TrustInv, PassInv, Trusted, Nothing, NormalPasses
  <2> QED
    BY <2>1, <2>2 DEF ScanInv
<1>2. ScanInv /\ [Next]_vars => ScanInv'
  BY TypeStep, TrustStep, PassStep DEF ScanInv
<1> QED
  BY <1>1, <1>2, PTL DEF Spec

\* An entry with the file's modification time has the file's hash, in the cache,
\* in what was saved and in what fastPass has read of it: across any number of
\* crashes, and whenever the files are written.
THEOREM HashAlwaysTrusted == Spec => []HashTrusted
<1>1. ScanInv => HashTrusted
  BY DEF ScanInv, TrustInv, Trusted, HashTrusted, Same
<1> QED
  BY <1>1, ScanAlways, PTL

\* A normal pass in which no file changes ends with the directory in the cache,
\* whatever was in it when the pass began.
THEOREM QuietPassAlwaysExact == Spec => []QuietPassExact
<1>1. ScanInv => QuietPassExact
  BY DEF ScanInv, PassInv, Exact, QuietPassExact
<1> QED
  BY <1>1, ScanAlways, PTL

-----------------------------------------------------------------------------
(* Publish.                                                                *)

\* The types.
Infos   == Hash \cup {None}
Caller  == Thread \cup Frontend
Looping == [pc : {"loop", "send"}, i : Nat \ {0}, path : Path, info : Infos, old : Infos]
Removal == [pc : {"drop"}, i : Nat \ {0}, path : Path, info : Infos, old : Infos, kept : Seq(Nat)]
Copying == [pc : {"copy"}, by : Caller]
Exports == [pc : {"loop"}, by : Caller, ctx : Nat, todo : SUBSET Path, cpy : [Path -> Infos]]
Sending == [pc : {"send"}, by : Caller, ctx : Nat, todo : SUBSET Path, cpy : [Path -> Infos], path : Path]
Run     == {Resting} \cup Copying \cup Exports \cup Sending

ScanType    == scan \in {Resting} \cup Looping \cup Removal
ExportType  == export \in [Listener -> Run]
CacheType   == fileCache \in [Path -> Infos]
ListType    == listeners \in Seq(Nat) /\ created \in Listener
IndexType   == hashToPath \in [Hash -> SUBSET Path]
FiType      == fi \in [Listener -> Infos]
RequestType == request \in [Thread -> {None} \cup Request]
PublishType == published \in [Path -> Infos]
BesideType  == beside \in [Path -> SUBSET Infos]

PublishTypeInv ==
  /\ ScanType /\ ExportType /\ CacheType /\ ListType
  /\ IndexType /\ FiType /\ RequestType /\ PublishType /\ BesideType

\* The scanner announces what it has put in the cache.
AnnounceInv == scan.pc # "rest" => scan.info = fileCache[scan.path]

\* The last run of the callback.
Newest == export[created]

\* The last context is not done, and its listener is in the list, or in the
\* slice that is about to become the list, as soon as the run that made it has
\* registered it.  Other listeners may be alive as well.
List == IF scan.pc = "drop" THEN scan.kept ELSE listeners

Present == \E j \in DOMAIN List : List[j] = created

LiveInv ==
  /\ cancelled \subseteq 1 .. (created - 1)
  /\ \A n \in Listener : export[n].pc # "rest" => 1 < n /\ n <= created
  /\ Newest.pc \in {"loop", "send"} => Newest.ctx = created
  /\ ~overtaken /\ Newest.pc # "copy" => Present

\* An export is about files, and so are the loop variables that its requests
\* point to.
FileInv ==
  /\ \A n \in Listener : export[n].pc \in {"loop", "send"} =>
       \A p \in export[n].todo : export[n].cpy[p] # None
  /\ \A n \in Listener : export[n].pc = "send" => fi[n] # None
  /\ \A t \in Thread : request[t] # None /\ request[t].of # 0 => fi[request[t].of] # None

\* The loop of set has not come to the last listener yet.
Ahead == \E j \in DOMAIN List : j >= scan.i /\ List[j] = created

ToCall(p) == scan.pc \in {"loop", "drop"} /\ scan.path = p /\ Ahead

\* A cached file is in the index, or the scanner or the last export will put it
\* there.
Filed(p) ==
  \/ p \in hashToPath[fileCache[p]]
  \/ ToCall(p)
  \/ Newest.pc = "copy"
  \/ Newest.pc \in {"loop", "send"} /\ p \in Newest.todo /\ Newest.cpy[p] = fileCache[p]

IndexInv == ~overtaken => \A p \in Path : fileCache[p] # None => Filed(p)

\* However the threads send what they have, the master knows of p in the end.
Reaches(p) ==
  /\ \A t \in Pending(p) : InfoOf(request[t]) # None
  /\ published[p] # None \/ Pending(p) # {}

\* The scanner or the last export is about to hand p to a thread, or it has, and
\* no deletion was under way then.
Told(p) ==
  \/ Reaches(p)
  \/ ToCall(p) \/ (scan.pc = "send" /\ scan.path = p)
  \/ Newest.pc = "copy"
  \/ Newest.pc \in {"loop", "send"} /\ p \in Newest.todo
  \/ Newest.pc = "send" /\ Newest.path = p

KnownInv ==
  ~overtaken /\ session = "up" =>
    \A p \in Path : fileCache[p] # None /\ None \notin beside[p] => Told(p)

\* Until the first reconnect index and master have what the cache has, but for
\* the one file that the scanner is busy with, and the one request for a file
\* that is under way.
Calling == scan.pc = "loop" /\ scan.i = 1

OneListener == listeners = <<1>> /\ cancelled = {} /\ scan.pc # "drop"

IndexedAs(h, p) ==
  p \in hashToPath[h] <=>
    h = IF Calling /\ scan.path = p THEN scan.old ELSE fileCache[p]

Latest(p) == IF (Calling \/ scan.pc = "send") /\ scan.path = p THEN scan.old ELSE fileCache[p]

PublishedAs(p) ==
  beside[p] = {} =>
    \/ Pending(p) = {} /\ published[p] = Latest(p)
    \/ \E t \in Thread : Pending(p) = {t} /\ InfoOf(request[t]) = Latest(p)

FirstInv ==
  created = 1 =>
    /\ OneListener
    /\ \A h \in Hash, p \in Path : IndexedAs(h, p)
    /\ session = "up" => \A p \in Path : PublishedAs(p)

-----------------------------------------------------------------------------
\* The list without the element at i: the last one has taken its place, so that
\* no other goes behind the position of the loop.
LEMMA WithoutFacts ==
  ASSUME NEW s \in Seq(Nat), NEW i \in 1 .. Len(s)
  PROVE  /\ Without(s, i) \in Seq(Nat)
         /\ Len(Without(s, i)) = Len(s) - 1
         /\ \A j \in 1 .. (Len(s) - 1) :
              Without(s, i)[j] = IF j = i THEN s[Len(s)] ELSE s[j]
<1> DEFINE u == [s EXCEPT ![i] = s[Len(s)]]
           n == Len(s) - 1
<1>1. Len(s) \in Nat /\ Len(s) >= 1 /\ n \in 0 .. Len(s)
  BY LenProperties
<1>2. s[Len(s)] \in Nat
  BY <1>1, ElementOfSeq
<1>3. /\ u \in Seq(Nat) /\ Len(u) = Len(s)
      /\ \A j \in 1 .. Len(s) : u[j] = IF j = i THEN s[Len(s)] ELSE s[j]
  BY <1>2, ExceptSeq
<1>4. Without(s, i) = SubSeq(u, 1, n)
  BY <1>3 DEF Without, Front, Last
<1> HIDE DEF u
<1>5. /\ SubSeq(u, 1, n) \in Seq(Nat) /\ Len(SubSeq(u, 1, n)) = n
      /\ \A j \in 1 .. n : SubSeq(u, 1, n)[j] = u[j]
  <2>1. u \in Seq(Nat) /\ n \in Nat /\ n <= Len(u) /\ Len(u) \in Nat
    BY <1>1, <1>3
  <2> HIDE DEF n
  <2>2. SubSeq(u, 1, n) \in Seq(Nat) /\ Len(SubSeq(u, 1, n)) = n
    BY <2>1
  <2>3. \A j \in 1 .. n : SubSeq(u, 1, n)[j] = u[j]
    BY <2>1
  <2> QED
    BY <2>2, <2>3
<1>6. \A j \in 1 .. n : Without(s, i)[j] = IF j = i THEN s[Len(s)] ELSE s[j]
  <2> SUFFICES ASSUME NEW j \in 1 .. n
               PROVE  Without(s, i)[j] = IF j = i THEN s[Len(s)] ELSE s[j]
    OBVIOUS
  <2>1. j \in 1 .. Len(s)
    BY <1>1
  <2>2. SubSeq(u, 1, n)[j] = u[j]
    BY <1>5
  <2> QED
    BY <1>3, <1>4, <2>1, <2>2
<1> QED
  BY <1>4, <1>5, <1>6

LEMMA StillThere ==
  ASSUME NEW s \in Seq(Nat), NEW i \in 1 .. Len(s), NEW x, s[i] # x,
         NEW j \in 1 .. Len(s), s[j] = x
  PROVE  \E k \in DOMAIN Without(s, i) : Without(s, i)[k] = x /\ (j >= i => k >= i)
<1>1. /\ Without(s, i) \in Seq(Nat)
      /\ Len(Without(s, i)) = Len(s) - 1
      /\ \A k \in 1 .. (Len(s) - 1) :
           Without(s, i)[k] = IF k = i THEN s[Len(s)] ELSE s[k]
  BY WithoutFacts
<1>2. DOMAIN Without(s, i) = 1 .. (Len(s) - 1)
  BY <1>1, LenProperties
<1>3. Len(s) \in Nat /\ j # i
  BY LenProperties
<1>4. CASE j = Len(s)
  <2>1. i \in 1 .. (Len(s) - 1)
    BY <1>3, <1>4
  <2>2. Without(s, i)[i] = x
    BY <1>1, <1>4, <2>1
  <2> QED
    BY <1>2, <2>1, <2>2
<1>5. CASE j # Len(s)
  <2>1. j \in 1 .. (Len(s) - 1)
    BY <1>3, <1>5
  <2> QED
    BY <1>1, <1>2, <1>3, <2>1
<1> QED
  BY <1>4, <1>5

-----------------------------------------------------------------------------
\* The steps, one by one; those that concern neither the scanner nor a run of the
\* callback together.
Elsewhere ==
  \/ Cut
  \/ \E g \in Caller : DialOnly(g)
  \/ \E t \in Thread : Send(t) \/ Fail(t)
  \/ UNCHANGED pvars

LEMMA Steps ==
  ASSUME [PublishNext]_pvars
  PROVE  \/ DropListener \/ StoreSlice \/ CallListener \/ SetDone
         \/ \E t \in Thread : FromScanner(t)
         \/ \E p \in Path, h \in Infos : Set(p, h)
         \/ \E g \in Caller : Reconnect(g)
         \/ \E n \in Listener : Register(n) \/ ExportDone(n)
         \/ \E n \in Listener, p \in Path : Export(n, p)
         \/ \E n \in Listener, t \in Thread : FromExport(n, t)
         \/ Elsewhere
  BY DEF PublishNext, Scan, Callback, Elsewhere, Infos, Caller

LEMMA ElsewhereFacts ==
  ASSUME Elsewhere
  PROVE  /\ UNCHANGED <<scan, fileCache, listeners, cancelled, created, overtaken>>
         /\ UNCHANGED <<export, fi, hashToPath, beside>>
  BY DEF Elsewhere, Cut, DialOnly, Send, Fail, Idle, pvars, scanner, lists, threads, master

\* The scanner's steps leave the runs of the callback alone, and the other way
\* round.
Scanning == DropListener \/ StoreSlice \/ CallListener \/ SetDone \/ \E t \in Thread : FromScanner(t)

LEMMA ScanningFacts ==
  ASSUME Scanning
  PROVE  UNCHANGED <<fileCache, cancelled, created, overtaken, export, fi, session, published>>
  BY DEF Scanning, DropListener, StoreSlice, CallListener, SetDone, FromScanner, lists, master

LEMMA SetFacts ==
  ASSUME NEW p \in Path, NEW h \in Infos, Set(p, h)
  PROVE  /\ UNCHANGED <<listeners, cancelled, created, overtaken, export, fi, hashToPath>>
         /\ UNCHANGED <<request, beside, session, published>>
  BY DEF Set, lists, threads, master

-----------------------------------------------------------------------------
\* The types.
LEMMA InitTypes == PublishInit => PublishTypeInv
<1> SUFFICES ASSUME PublishInit PROVE PublishTypeInv
  OBVIOUS
<1>1. <<1>> \in Seq(Nat) /\ 1 \in Listener
  BY PublishAssumption DEF Listener
<1>2. ScanType /\ ExportType /\ CacheType /\ ListType
  BY <1>1 DEF PublishInit, ScanType, ExportType, Run, CacheType, ListType, Nothing, Infos
<1>3. IndexType /\ FiType /\ RequestType /\ PublishType /\ BesideType
  BY DEF PublishInit, IndexType, FiType, RequestType, PublishType, BesideType, Nothing, Infos
<1> QED
  BY <1>2, <1>3 DEF PublishTypeInv

LEMMA ScanFacts ==
  ASSUME ScanType
  PROVE  /\ scan.pc \in {"loop", "send"} => scan \in Looping
         /\ scan.pc = "drop" => scan \in Removal
         /\ scan.pc \in {"rest", "loop", "send", "drop"}
         /\ scan.pc # "rest" => scan.i \in Nat \ {0} /\ scan.path \in Path
                                /\ scan.info \in Infos /\ scan.old \in Infos
  BY DEF ScanType, Looping, Removal, Resting

LEMMA RunFacts ==
  ASSUME NEW r \in Run
  PROVE  /\ r.pc = "copy" => r \in Copying
         /\ r.pc = "loop" => r \in Exports
         /\ r.pc = "send" => r \in Sending
         /\ r.pc \in {"rest", "copy", "loop", "send"}
         /\ r.pc \in {"loop", "send"} => r.todo \in SUBSET Path /\ r.cpy \in [Path -> Infos]
         /\ r.pc = "send" => r.path \in Path
  BY DEF Run, Copying, Exports, Sending, Resting

\* Handing a request for p to a thread.
LEMMA HandFacts ==
  ASSUME PublishTypeInv, NEW s \in Thread, NEW q \in Path, NEW h \in Infos, NEW n \in 0 .. MaxListener,
         Hand(s, q, h, n)
  PROVE  /\ RequestType' /\ BesideType'
         /\ request[s] = None
         /\ request'[s] # None /\ request'[s].path = q /\ request'[s].info = h /\ request'[s].of = n
         /\ \A u \in Thread \ {s} : request'[u] = request[u]
         /\ beside'[q] = {InfoOf(request[u]) : u \in Pending(q)}
         /\ \A p \in Path \ {q} : beside'[p] = beside[p]
<1> DEFINE r == [path |-> q, info |-> h, of |-> n]
<1>1. r \in Request
  BY DEF Request, Infos
<1>2. r # None
  BY <1>1, PublishAssumption
<1>3. r.path = q /\ r.info = h /\ r.of = n
  OBVIOUS
<1>4. request \in [Thread -> {None} \cup Request] /\ request' = [request EXCEPT ![s] = r]
  BY DEF PublishTypeInv, RequestType, Hand
<1> HIDE DEF r
<1>5. /\ request'[s] = r /\ \A u \in Thread \ {s} : request'[u] = request[u]
      /\ RequestType'
  BY <1>1, <1>4 DEF RequestType
<1>6. {InfoOf(request[u]) : u \in Pending(q)} \subseteq Infos
  <2>1. \A u \in Pending(q) : request[u] \in Request
    BY <1>4 DEF Pending
  <2>2. \A x \in Request : InfoOf(x) \in Infos
    BY DEF InfoOf, Request, PublishTypeInv, FiType, Listener, Infos
  <2> QED
    BY <2>1, <2>2
<1>7. beside \in [Path -> SUBSET Infos] /\ beside' = [beside EXCEPT ![q] = {InfoOf(request[u]) : u \in Pending(q)}]
  BY DEF PublishTypeInv, BesideType, Hand
<1>8. /\ beside'[q] = {InfoOf(request[u]) : u \in Pending(q)}
      /\ \A p \in Path \ {q} : beside'[p] = beside[p]
      /\ BesideType'
  BY <1>6, <1>7 DEF BesideType
<1>9. request[s] = None
  BY DEF Hand
<1> QED
  BY <1>2, <1>3, <1>5, <1>8, <1>9

\* What the scanner's steps do to its record.
SameFile == scan'.path = scan.path /\ scan'.info = scan.info /\ scan'.old = scan.old

LEMMA DropStep ==
  ASSUME PublishTypeInv, DropListener
  PROVE  /\ scan' \in Removal /\ scan'.pc = "drop" /\ scan'.i = scan.i /\ SameFile
         /\ scan'.kept = Without(listeners, scan.i)
         /\ scan.i \in 1 .. Len(listeners) /\ scan.pc = "loop"
<1>1. scan.pc = "loop" /\ scan \in Looping
  BY ScanFacts DEF PublishTypeInv, DropListener
<1>2. scan.i \in 1 .. Len(listeners)
  BY <1>1, LenProperties DEF Looping, DropListener, PublishTypeInv, ListType
<1>3. Without(listeners, scan.i) \in Seq(Nat)
  BY <1>2, WithoutFacts DEF PublishTypeInv, ListType
<1>4. scan' = [pc |-> "drop", i |-> scan.i, path |-> scan.path, info |-> scan.info,
               old |-> scan.old, kept |-> Without(listeners, scan.i)]
  BY DEF DropListener, Kept
<1> QED
  BY <1>1, <1>2, <1>3, <1>4 DEF Looping, Removal, SameFile

LEMMA StoreStep ==
  ASSUME PublishTypeInv, StoreSlice
  PROVE  /\ scan' \in Looping /\ scan'.pc = "loop" /\ scan'.i = scan.i /\ SameFile
         /\ listeners' = scan.kept /\ scan.kept \in Seq(Nat) /\ scan.pc = "drop"
  BY ScanFacts DEF PublishTypeInv, StoreSlice, Looping, Removal, SameFile

LEMMA CallStep ==
  ASSUME PublishTypeInv, CallListener
  PROVE  /\ scan' \in Looping /\ scan'.pc = "send" /\ scan'.i = scan.i /\ SameFile
         /\ scan.pc = "loop"
<1>1. scan.pc = "loop" /\ scan \in Looping
  BY ScanFacts DEF PublishTypeInv, CallListener
<1> QED
  BY <1>1 DEF CallListener, Looping, SameFile

LEMMA FromStep ==
  ASSUME PublishTypeInv, NEW t \in Thread, FromScanner(t)
  PROVE  /\ scan' \in Looping /\ scan'.pc = "loop" /\ scan'.i = scan.i + 1 /\ SameFile
         /\ scan.pc = "send"
<1>1. scan.pc = "send" /\ scan \in Looping
  BY ScanFacts DEF PublishTypeInv, FromScanner
<1>2. scan' = [scan EXCEPT !.pc = "loop", !.i = scan.i + 1]
  BY DEF FromScanner
<1>3. scan' = [pc |-> "loop", i |-> scan.i + 1, path |-> scan.path, info |-> scan.info, old |-> scan.old]
  BY <1>1, <1>2 DEF Looping
<1>4. scan.i + 1 \in Nat \ {0}
  BY <1>1 DEF Looping
<1> QED
  BY <1>1, <1>3, <1>4 DEF Looping, SameFile

LEMMA SetStep ==
  ASSUME PublishTypeInv, NEW p \in Path, NEW h \in Infos, Set(p, h)
  PROVE  /\ scan' \in Looping /\ scan'.pc = "loop" /\ scan'.i = 1 /\ scan'.path = p
         /\ scan'.info = h /\ scan'.old = fileCache[p]
         /\ scan.pc = "rest"
         /\ fileCache' = [fileCache EXCEPT ![p] = h]
<1>1. fileCache[p] \in Infos
  BY DEF PublishTypeInv, CacheType
<1> QED
  BY <1>1 DEF Set, Looping

LEMMA IndexedType ==
  ASSUME IndexType, NEW p \in Path, NEW h, NEW old
  PROVE  Indexed(p, h, old) \in [Hash -> SUBSET Path]
  BY DEF IndexType, Indexed

LEMMA NextScanType == PublishTypeInv /\ [PublishNext]_pvars => ScanType'
<1> SUFFICES ASSUME PublishTypeInv, [PublishNext]_pvars PROVE ScanType'
  OBVIOUS
<1>0. ASSUME scan' = scan PROVE ScanType'
  BY <1>0 DEF PublishTypeInv, ScanType
<1>1. ASSUME scan' \in Looping \cup Removal PROVE ScanType'
  BY <1>1 DEF ScanType
<1>2. CASE DropListener
  BY <1>1, <1>2, DropStep
<1>3. CASE StoreSlice
  BY <1>1, <1>3, StoreStep
<1>4. CASE CallListener
  BY <1>1, <1>4, CallStep
<1>5. CASE SetDone
  BY <1>5 DEF SetDone, ScanType
<1>6. ASSUME NEW t \in Thread, FromScanner(t) PROVE ScanType'
  BY <1>1, <1>6, FromStep
<1>7. ASSUME NEW p \in Path, NEW h \in Infos, Set(p, h) PROVE ScanType'
  BY <1>1, <1>7, SetStep
<1>8. ASSUME NEW g \in Caller, Reconnect(g) PROVE ScanType'
  BY <1>0, <1>8 DEF Reconnect, scanner
<1>9. ASSUME NEW n \in Listener, Register(n) \/ ExportDone(n) PROVE ScanType'
  BY <1>0, <1>9 DEF Register, ExportDone, scanner
<1>10. ASSUME NEW n \in Listener, NEW p \in Path, Export(n, p) PROVE ScanType'
  BY <1>0, <1>10 DEF Export, scanner
<1>11. ASSUME NEW n \in Listener, NEW t \in Thread, FromExport(n, t) PROVE ScanType'
  BY <1>0, <1>11 DEF FromExport, scanner
<1>12. CASE Elsewhere
  BY <1>0, <1>12, ElsewhereFacts
<1> QED
  BY Steps, <1>2, <1>3, <1>4, <1>5, <1>6, <1>7, <1>8, <1>9, <1>10, <1>11, <1>12

\* What a step of run n does to the runs: the others stay as they are.
Others(n) == \A m \in Listener \ {n} : export'[m] = export[m]

LEMMA ReconnectStep ==
  ASSUME PublishTypeInv, NEW g \in Caller, Reconnect(g)
  PROVE  /\ created + 1 \in Listener /\ created' = created + 1
         /\ export' \in [Listener -> Run] /\ Others(created + 1)
         /\ export'[created + 1].pc = "copy" /\ Newest'.pc = "copy"
         /\ cancelled' \subseteq cancelled \cup {created}
<1>1. created' = created + 1 /\ created + 1 \in Listener
  BY PublishAssumption DEF Reconnect, PublishTypeInv, ListType, Listener
<1>2. [pc |-> "copy", by |-> g] \in Copying
  BY DEF Copying
<1>3. export' = [export EXCEPT ![created + 1] = [pc |-> "copy", by |-> g]]
  BY DEF Reconnect
<1>4. export \in [Listener -> Run]
  BY DEF PublishTypeInv, ExportType
<1>5. export' \in [Listener -> Run] /\ Others(created + 1) /\ export'[created + 1] = [pc |-> "copy", by |-> g]
  BY <1>1, <1>2, <1>3, <1>4 DEF Run, Others
<1>6. cancelled' \subseteq cancelled \cup {created}
  BY DEF Reconnect
<1> QED
  BY <1>1, <1>5, <1>6 DEF Newest

LEMMA RegisterStep ==
  ASSUME PublishTypeInv, NEW n \in Listener, Register(n)
  PROVE  \E c \in n .. created :
           /\ export' \in [Listener -> Run] /\ Others(n)
           /\ export[n].pc = "copy" /\ export'[n].pc = "loop" /\ export'[n].ctx = c
           /\ export'[n].todo = {p \in Path : fileCache[p] # None} /\ export'[n].cpy = fileCache
           /\ listeners' = Append(listeners, c)
<1>1. PICK c \in n .. created :
        listeners' = Append(listeners, c) /\ export' = [export EXCEPT ![n] = Snapshot(n, c)]
  BY DEF Register
<1>2. export \in [Listener -> Run] /\ export[n] \in Run
  BY DEF PublishTypeInv, ExportType
<1>3. export[n].pc = "copy" /\ export[n] \in Copying
  BY <1>2, RunFacts DEF Register
<1>4. export[n].by \in Caller
  BY <1>3 DEF Copying
<1>5. fileCache \in [Path -> Infos] /\ c \in Nat
  BY DEF PublishTypeInv, CacheType, Listener
<1>6. Snapshot(n, c) \in Exports
  BY <1>4, <1>5 DEF Snapshot, Exports
<1>7. export' \in [Listener -> Run] /\ Others(n) /\ export'[n] = Snapshot(n, c)
  BY <1>1, <1>2, <1>6 DEF Run, Others
<1> QED
  BY <1>1, <1>3, <1>7 DEF Snapshot

LEMMA ExportStep ==
  ASSUME PublishTypeInv, NEW n \in Listener, NEW p \in Path, Export(n, p)
  PROVE  /\ export' \in [Listener -> Run] /\ Others(n)
         /\ export[n].pc = "loop" /\ p \in export[n].todo
         /\ export'[n].pc = "send" /\ export'[n].path = p /\ export'[n].ctx = export[n].ctx
         /\ export'[n].todo = export[n].todo \ {p} /\ export'[n].cpy = export[n].cpy
         /\ export[n].cpy[p] \in Infos
<1>1. export \in [Listener -> Run] /\ export[n] \in Run
  BY DEF PublishTypeInv, ExportType
<1>2. export[n].pc = "loop" /\ export[n] \in Exports /\ p \in export[n].todo
  BY <1>1, RunFacts DEF Export
<1> DEFINE r == [pc |-> "send", by |-> export[n].by, ctx |-> export[n].ctx,
                 todo |-> export[n].todo \ {p}, cpy |-> export[n].cpy, path |-> p]
<1>3. r \in Sending
  BY <1>2 DEF Exports, Sending
<1>4. export' = [export EXCEPT ![n] = r]
  BY DEF Export
<1>5. /\ r.pc = "send" /\ r.path = p /\ r.ctx = export[n].ctx
      /\ r.todo = export[n].todo \ {p} /\ r.cpy = export[n].cpy
  OBVIOUS
<1> HIDE DEF r
<1>6. export' \in [Listener -> Run] /\ Others(n) /\ export'[n] = r
  BY <1>1, <1>3, <1>4 DEF Run, Others
<1>7. export[n].cpy[p] \in Infos
  BY <1>2 DEF Exports
<1> QED
  BY <1>2, <1>5, <1>6, <1>7

LEMMA FromExportStep ==
  ASSUME PublishTypeInv, NEW n \in Listener, NEW t \in Thread, FromExport(n, t)
  PROVE  /\ export' \in [Listener -> Run] /\ Others(n)
         /\ export[n].pc = "send" /\ export[n].path \in Path
         /\ export'[n].pc = "loop" /\ export'[n].ctx = export[n].ctx
         /\ export'[n].todo = export[n].todo /\ export'[n].cpy = export[n].cpy
         /\ Hand(t, export[n].path, None, n)
<1>1. export \in [Listener -> Run] /\ export[n] \in Run
  BY DEF PublishTypeInv, ExportType
<1>2. export[n].pc = "send" /\ export[n] \in Sending
  BY <1>1, RunFacts DEF FromExport
<1> DEFINE r == [pc |-> "loop", by |-> export[n].by, ctx |-> export[n].ctx,
                 todo |-> export[n].todo, cpy |-> export[n].cpy]
<1>3. r \in Exports
  BY <1>2 DEF Exports, Sending
<1>4. export' = [export EXCEPT ![n] = r] /\ Hand(t, export[n].path, None, n)
  BY DEF FromExport
<1>5. r.pc = "loop" /\ r.ctx = export[n].ctx /\ r.todo = export[n].todo /\ r.cpy = export[n].cpy
  OBVIOUS
<1> HIDE DEF r
<1>6. export' \in [Listener -> Run] /\ Others(n) /\ export'[n] = r
  BY <1>1, <1>3, <1>4 DEF Run, Others
<1>7. export[n].path \in Path
  BY <1>2 DEF Sending
<1> QED
  BY <1>2, <1>4, <1>5, <1>6, <1>7

LEMMA ExportDoneStep ==
  ASSUME PublishTypeInv, NEW n \in Listener, ExportDone(n)
  PROVE  /\ export' \in [Listener -> Run] /\ Others(n)
         /\ export[n].pc = "loop" /\ export'[n].pc = "rest"
         /\ export[n].todo = {} \/ export[n].ctx \in cancelled
  BY DEF PublishTypeInv, ExportType, ExportDone, Run, Others, Resting

LEMMA NextExportType == PublishTypeInv /\ [PublishNext]_pvars => ExportType'
<1> SUFFICES ASSUME PublishTypeInv, [PublishNext]_pvars PROVE ExportType'
  OBVIOUS
<1>0. ASSUME export' = export PROVE ExportType'
  BY <1>0 DEF PublishTypeInv, ExportType
<1>1. CASE Scanning
  BY <1>0, <1>1, ScanningFacts
<1>2. ASSUME NEW p \in Path, NEW h \in Infos, Set(p, h) PROVE ExportType'
  BY <1>0, <1>2, SetFacts
<1>3. ASSUME NEW g \in Caller, Reconnect(g) PROVE ExportType'
  BY <1>3, ReconnectStep DEF ExportType
<1>4. ASSUME NEW n \in Listener, Register(n) PROVE ExportType'
  BY <1>4, RegisterStep DEF ExportType
<1>5. ASSUME NEW n \in Listener, ExportDone(n) PROVE ExportType'
  BY <1>5, ExportDoneStep DEF ExportType
<1>6. ASSUME NEW n \in Listener, NEW p \in Path, Export(n, p) PROVE ExportType'
  BY <1>6, ExportStep DEF ExportType
<1>7. ASSUME NEW n \in Listener, NEW t \in Thread, FromExport(n, t) PROVE ExportType'
  BY <1>7, FromExportStep DEF ExportType
<1>8. CASE Elsewhere
  BY <1>0, <1>8, ElsewhereFacts
<1> QED
  BY Steps, <1>1, <1>2, <1>3, <1>4, <1>5, <1>6, <1>7, <1>8 DEF Scanning

LEMMA NextCacheType == PublishTypeInv /\ [PublishNext]_pvars => CacheType'
<1> SUFFICES ASSUME PublishTypeInv, [PublishNext]_pvars PROVE CacheType'
  OBVIOUS
<1>0. ASSUME fileCache' = fileCache PROVE CacheType'
  BY <1>0 DEF PublishTypeInv, CacheType
<1>1. CASE Scanning
  BY <1>0, <1>1, ScanningFacts
<1>2. ASSUME NEW p \in Path, NEW h \in Infos, Set(p, h) PROVE CacheType'
  BY <1>2, SetStep DEF PublishTypeInv, CacheType
<1>3. ASSUME NEW g \in Caller, Reconnect(g) PROVE CacheType'
  BY <1>0, <1>3 DEF Reconnect, scanner
<1>4. ASSUME NEW n \in Listener, Register(n) \/ ExportDone(n) PROVE CacheType'
  BY <1>0, <1>4 DEF Register, ExportDone, scanner
<1>5. ASSUME NEW n \in Listener, NEW p \in Path, Export(n, p) PROVE CacheType'
  BY <1>0, <1>5 DEF Export, scanner
<1>6. ASSUME NEW n \in Listener, NEW t \in Thread, FromExport(n, t) PROVE CacheType'
  BY <1>0, <1>6 DEF FromExport, scanner
<1>7. CASE Elsewhere
  BY <1>0, <1>7, ElsewhereFacts
<1> QED
  BY Steps, <1>1, <1>2, <1>3, <1>4, <1>5, <1>6, <1>7 DEF Scanning

LEMMA NextListType == PublishTypeInv /\ [PublishNext]_pvars => ListType'
<1> SUFFICES ASSUME PublishTypeInv, [PublishNext]_pvars PROVE ListType'
  OBVIOUS
<1>0. ASSUME UNCHANGED <<listeners, created>> PROVE ListType'
  BY <1>0 DEF PublishTypeInv, ListType
<1>1. CASE StoreSlice
  BY <1>1, StoreStep DEF StoreSlice, PublishTypeInv, ListType
<1>2. CASE DropListener \/ CallListener \/ SetDone
  BY <1>0, <1>2 DEF DropListener, CallListener, SetDone, lists
<1>3. ASSUME NEW t \in Thread, FromScanner(t) PROVE ListType'
  BY <1>0, <1>3 DEF FromScanner, lists
<1>4. ASSUME NEW p \in Path, NEW h \in Infos, Set(p, h) PROVE ListType'
  BY <1>0, <1>4, SetFacts
<1>5. ASSUME NEW g \in Caller, Reconnect(g) PROVE ListType'
  <2>1. created' \in Listener
    BY <1>5, ReconnectStep
  <2> QED
    BY <1>5, <2>1 DEF Reconnect, PublishTypeInv, ListType
<1>6. ASSUME NEW n \in Listener, Register(n) PROVE ListType'
  <2>1. PICK c \in n .. created : listeners' = Append(listeners, c)
    BY <1>6, RegisterStep
  <2>2. c \in Nat
    BY DEF Listener
  <2> QED
    BY <1>6, <2>1, <2>2 DEF Register, PublishTypeInv, ListType
<1>7. ASSUME NEW n \in Listener, ExportDone(n) PROVE ListType'
  BY <1>0, <1>7 DEF ExportDone, lists
<1>8. ASSUME NEW n \in Listener, NEW p \in Path, Export(n, p) PROVE ListType'
  BY <1>0, <1>8 DEF Export, lists
<1>9. ASSUME NEW n \in Listener, NEW t \in Thread, FromExport(n, t) PROVE ListType'
  BY <1>0, <1>9 DEF FromExport, lists
<1>10. CASE Elsewhere
  BY <1>0, <1>10, ElsewhereFacts
<1> QED
  BY Steps, <1>1, <1>2, <1>3, <1>4, <1>5, <1>6, <1>7, <1>8, <1>9, <1>10

LEMMA NextIndexType == PublishTypeInv /\ [PublishNext]_pvars => (IndexType /\ FiType)'
<1> SUFFICES ASSUME PublishTypeInv, [PublishNext]_pvars PROVE (IndexType /\ FiType)'
  OBVIOUS
<1>0. ASSUME UNCHANGED <<hashToPath, fi>> PROVE (IndexType /\ FiType)'
  BY <1>0 DEF PublishTypeInv, IndexType, FiType
<1>1. CASE CallListener
  <2>1. scan.path \in Path
    BY <1>1, CallStep, ScanFacts DEF PublishTypeInv
  <2>2. hashToPath' \in [Hash -> SUBSET Path]
    BY <1>1, <2>1, IndexedType DEF CallListener, PublishTypeInv
  <2> QED
    BY <1>1, <2>2 DEF CallListener, PublishTypeInv, IndexType, FiType
<1>2. CASE DropListener \/ StoreSlice \/ SetDone
  BY <1>0, <1>2 DEF DropListener, StoreSlice, SetDone
<1>3. ASSUME NEW t \in Thread, FromScanner(t) PROVE (IndexType /\ FiType)'
  BY <1>0, <1>3 DEF FromScanner
<1>4. ASSUME NEW p \in Path, NEW h \in Infos, Set(p, h) PROVE (IndexType /\ FiType)'
  BY <1>0, <1>4, SetFacts
<1>5. ASSUME NEW g \in Caller, Reconnect(g) PROVE (IndexType /\ FiType)'
  BY <1>0, <1>5 DEF Reconnect
<1>6. ASSUME NEW n \in Listener, Register(n) \/ ExportDone(n) PROVE (IndexType /\ FiType)'
  BY <1>0, <1>6 DEF Register, ExportDone
<1>7. ASSUME NEW n \in Listener, NEW p \in Path, Export(n, p) PROVE (IndexType /\ FiType)'
  <2>1. export[n].cpy[p] \in Infos
    BY <1>7, ExportStep
  <2>2. FiType'
    BY <1>7, <2>1 DEF Export, PublishTypeInv, FiType
  <2>3. IndexType'
    BY <1>7, IndexedType DEF Export, PublishTypeInv, IndexType
  <2> QED
    BY <2>2, <2>3
<1>8. ASSUME NEW n \in Listener, NEW t \in Thread, FromExport(n, t) PROVE (IndexType /\ FiType)'
  BY <1>0, <1>8 DEF FromExport
<1>9. CASE Elsewhere
  BY <1>0, <1>9, ElsewhereFacts
<1> QED
  BY Steps, <1>1, <1>2, <1>3, <1>4, <1>5, <1>6, <1>7, <1>8, <1>9

\* The request of the scanner and of an export.
LEMMA FromScannerHands ==
  ASSUME PublishTypeInv, NEW t \in Thread, FromScanner(t)
  PROVE  Hand(t, scan.path, scan.info, 0) /\ scan.path \in Path /\ scan.info \in Infos /\ 0 \in 0 .. MaxListener
  BY FromStep, ScanFacts, PublishAssumption DEF FromScanner, PublishTypeInv

LEMMA FromExportHands ==
  ASSUME PublishTypeInv, NEW n \in Listener, NEW t \in Thread, FromExport(n, t)
  PROVE  Hand(t, export[n].path, None, n) /\ export[n].path \in Path /\ None \in Infos /\ n \in 0 .. MaxListener
<1>1. Hand(t, export[n].path, None, n) /\ export[n].path \in Path
  BY FromExportStep
<1>2. None \in Infos /\ n \in 0 .. MaxListener
  BY DEF Infos, Listener
<1> QED
  BY <1>1, <1>2

LEMMA NextRequestType == PublishTypeInv /\ [PublishNext]_pvars => (RequestType /\ PublishType /\ BesideType)'
<1> SUFFICES ASSUME PublishTypeInv, [PublishNext]_pvars PROVE (RequestType /\ PublishType /\ BesideType)'
  OBVIOUS
<1> DEFINE Goal == (RequestType /\ PublishType /\ BesideType)'
<1>0. ASSUME UNCHANGED <<request, published, beside>> PROVE Goal
  BY <1>0 DEF PublishTypeInv, RequestType, PublishType, BesideType
<1>1. CASE DropListener \/ StoreSlice \/ CallListener \/ SetDone
  BY <1>0, <1>1 DEF DropListener, StoreSlice, CallListener, SetDone, threads, master
<1>2. ASSUME NEW t \in Thread, FromScanner(t) PROVE Goal
  <2>1. RequestType' /\ BesideType'
    BY <1>2, FromScannerHands, HandFacts
  <2> QED
    BY <1>2, <2>1 DEF FromScanner, master, PublishTypeInv, PublishType
<1>3. ASSUME NEW p \in Path, NEW h \in Infos, Set(p, h) PROVE Goal
  BY <1>0, <1>3, SetFacts
<1>4. ASSUME NEW g \in Caller, Reconnect(g) PROVE Goal
  BY <1>0, <1>4 DEF Reconnect
<1>5. ASSUME NEW n \in Listener, Register(n) \/ ExportDone(n) PROVE Goal
  BY <1>0, <1>5 DEF Register, ExportDone, threads, master
<1>6. ASSUME NEW n \in Listener, NEW p \in Path, Export(n, p) PROVE Goal
  BY <1>0, <1>6 DEF Export, threads, master
<1>7. ASSUME NEW n \in Listener, NEW t \in Thread, FromExport(n, t) PROVE Goal
  <2>1. RequestType' /\ BesideType'
    BY <1>7, FromExportHands, HandFacts
  <2> QED
    BY <1>7, <2>1 DEF FromExport, master, PublishTypeInv, PublishType
<1>8. ASSUME NEW t \in Thread, Send(t) PROVE Goal
  <2>1. request[t] \in Request
    BY <1>8 DEF Send, PublishTypeInv, RequestType
  <2>2. InfoOf(request[t]) \in Infos
    BY <2>1 DEF InfoOf, Request, PublishTypeInv, FiType, Listener, Infos
  <2>3. PublishType'
    BY <1>8, <2>1, <2>2 DEF Send, PublishTypeInv, PublishType, Request
  <2>4. RequestType' /\ BesideType'
    BY <1>8 DEF Send, Idle, PublishTypeInv, RequestType, BesideType
  <2> QED
    BY <2>3, <2>4
<1>9. ASSUME NEW t \in Thread, Fail(t) PROVE Goal
  BY <1>9 DEF Fail, Idle, PublishTypeInv, RequestType, PublishType, BesideType
<1>10. CASE Cut
  BY <1>10 DEF Cut, threads, Nothing, Infos, PublishTypeInv, RequestType, PublishType, BesideType
<1>11. ASSUME NEW g \in Caller, DialOnly(g) PROVE Goal
  BY <1>0, <1>11 DEF DialOnly
<1>12. CASE UNCHANGED pvars
  BY <1>0, <1>12 DEF pvars, threads, master
<1>13. CASE Elsewhere
  BY <1>8, <1>9, <1>10, <1>11, <1>12, <1>13 DEF Elsewhere
<1> QED
  BY Steps, <1>1, <1>2, <1>3, <1>4, <1>5, <1>6, <1>7, <1>13

LEMMA NextTypes == PublishTypeInv /\ [PublishNext]_pvars => PublishTypeInv'
  BY NextScanType, NextExportType, NextCacheType, NextListType, NextIndexType, NextRequestType
     DEF PublishTypeInv

-----------------------------------------------------------------------------
\* The list and the last listener.  Only the removal of a listener and the
\* registration of one change the list, and only a reconnect makes another
\* listener the last one.
Registering == \E n \in Listener : Register(n)
Reconnecting == \E g \in Caller : Reconnect(g)

LEMMA ListKept ==
  ASSUME PublishTypeInv, [PublishNext]_pvars, ~DropListener, ~Registering, ~Reconnecting
  PROVE  List' = List /\ created' = created
<1> DEFINE Goal == List' = List /\ created' = created
<1>1. CASE StoreSlice
  BY <1>1, StoreStep DEF List, StoreSlice
<1>2. CASE CallListener
  BY <1>2, CallStep DEF List, CallListener, lists
<1>3. CASE SetDone
  BY <1>3 DEF List, SetDone, lists, Resting
<1>4. ASSUME NEW t \in Thread, FromScanner(t) PROVE Goal
  BY <1>4, FromStep DEF List, FromScanner, lists
<1>5. ASSUME NEW p \in Path, NEW h \in Infos, Set(p, h) PROVE Goal
  BY <1>5, SetStep DEF List, Set, lists
<1>6. ASSUME scan' = scan, listeners' = listeners, created' = created PROVE Goal
  BY <1>6 DEF List
<1>7. ASSUME NEW n \in Listener, ExportDone(n) PROVE Goal
  BY <1>6, <1>7 DEF ExportDone, scanner, lists
<1>8. ASSUME NEW n \in Listener, NEW p \in Path, Export(n, p) PROVE Goal
  BY <1>6, <1>8 DEF Export, scanner, lists
<1>9. ASSUME NEW n \in Listener, NEW t \in Thread, FromExport(n, t) PROVE Goal
  BY <1>6, <1>9 DEF FromExport, scanner, lists
<1>10. CASE Elsewhere
  BY <1>6, <1>10, ElsewhereFacts
<1> QED
  BY Steps, <1>1, <1>2, <1>3, <1>4, <1>5, <1>7, <1>8, <1>9, <1>10 DEF Registering, Reconnecting

LEMMA DropKeeps ==
  ASSUME PublishTypeInv, DropListener, created \notin cancelled
  PROVE  /\ Present => Present'
         /\ Ahead => Ahead'
         /\ created' = created
<1>1. /\ scan'.pc = "drop" /\ scan'.i = scan.i /\ scan'.kept = Without(listeners, scan.i)
      /\ scan.i \in 1 .. Len(listeners) /\ scan.pc = "loop"
  BY DropStep
<1>2. List = listeners /\ List' = Without(listeners, scan.i) /\ created' = created
  BY <1>1 DEF List, DropListener, lists
<1>3. listeners \in Seq(Nat) /\ DOMAIN listeners = 1 .. Len(listeners)
  BY LenProperties DEF PublishTypeInv, ListType
<1>4. listeners[scan.i] # created
  BY DEF DropListener
<1>5. ASSUME NEW j \in 1 .. Len(listeners), listeners[j] = created
      PROVE  \E k \in DOMAIN List' : List'[k] = created' /\ (j >= scan.i => k >= scan'.i)
  <2>1. \E k \in DOMAIN Without(listeners, scan.i) :
          Without(listeners, scan.i)[k] = created /\ (j >= scan.i => k >= scan.i)
    BY <1>1, <1>3, <1>4, <1>5, StillThere
  <2> QED
    BY <1>1, <1>2, <2>1
<1>6. Present => Present'
  BY <1>2, <1>3, <1>5 DEF Present
<1>7. Ahead => Ahead'
  BY <1>1, <1>2, <1>3, <1>5 DEF Ahead
<1> QED
  BY <1>2, <1>6, <1>7

\* A registration appends: what is in the list stays where it is.
LEMMA RegisterKeeps ==
  ASSUME PublishTypeInv, NEW n \in Listener, Register(n), ~overtaken'
  PROVE  /\ Present => Present'
         /\ Ahead => Ahead'
         /\ n = created => Present'
         /\ created' = created /\ scan' = scan
<1>1. scan.pc # "drop" /\ scan' = scan /\ created' = created
  BY DEF Register, scanner
<1>2. PICK c \in n .. created : listeners' = Append(listeners, c)
  BY RegisterStep
<1>3. List = listeners /\ List' = Append(listeners, c)
  BY <1>1, <1>2 DEF List
<1>4. listeners \in Seq(Nat) /\ Len(listeners) \in Nat /\ c \in Nat /\ DOMAIN listeners = 1 .. Len(listeners)
  BY LenProperties DEF PublishTypeInv, ListType, Listener
<1>5. /\ DOMAIN Append(listeners, c) = 1 .. (Len(listeners) + 1)
      /\ Append(listeners, c)[Len(listeners) + 1] = c
      /\ \A j \in 1 .. Len(listeners) : Append(listeners, c)[j] = listeners[j]
  BY <1>4
<1>6. \A j \in DOMAIN List : j \in DOMAIN List' /\ List'[j] = List[j]
  BY <1>3, <1>4, <1>5
<1>7. (Present => Present') /\ (Ahead => Ahead')
  BY <1>1, <1>6 DEF Present, Ahead
<1>8. ASSUME n = created PROVE Present'
  <2>1. c = created
    BY <1>8 DEF PublishTypeInv, ListType, Listener
  <2>2. Len(listeners) + 1 \in DOMAIN List' /\ List'[Len(listeners) + 1] = created'
    BY <1>1, <1>3, <1>4, <1>5, <2>1
  <2> QED
    BY <2>2 DEF Present
<1> QED
  BY <1>1, <1>7, <1>8

-----------------------------------------------------------------------------
\* The parts of the inductive invariant.
LEMMA NextAnnounceInv == PublishTypeInv /\ AnnounceInv /\ [PublishNext]_pvars => AnnounceInv'
<1> SUFFICES ASSUME PublishTypeInv, AnnounceInv, [PublishNext]_pvars PROVE AnnounceInv'
  OBVIOUS
<1>0. ASSUME scan.pc # "rest", SameFile, fileCache' = fileCache PROVE AnnounceInv'
  BY <1>0 DEF AnnounceInv, SameFile
<1>1. CASE DropListener
  BY <1>0, <1>1, DropStep DEF DropListener
<1>2. CASE StoreSlice
  BY <1>0, <1>2, StoreStep DEF StoreSlice
<1>3. CASE CallListener
  BY <1>0, <1>3, CallStep DEF CallListener
<1>4. CASE SetDone
  BY <1>4 DEF SetDone, AnnounceInv, Resting
<1>5. ASSUME NEW t \in Thread, FromScanner(t) PROVE AnnounceInv'
  BY <1>0, <1>5, FromStep DEF FromScanner
<1>6. ASSUME NEW p \in Path, NEW h \in Infos, Set(p, h) PROVE AnnounceInv'
  BY <1>6, SetStep DEF AnnounceInv, PublishTypeInv, CacheType
<1>7. ASSUME UNCHANGED <<scan, fileCache>> PROVE AnnounceInv'
  BY <1>7 DEF AnnounceInv
<1>8. ASSUME NEW g \in Caller, Reconnect(g) PROVE AnnounceInv'
  BY <1>7, <1>8 DEF Reconnect, scanner
<1>9. ASSUME NEW n \in Listener, Register(n) \/ ExportDone(n) PROVE AnnounceInv'
  BY <1>7, <1>9 DEF Register, ExportDone, scanner
<1>10. ASSUME NEW n \in Listener, NEW p \in Path, Export(n, p) PROVE AnnounceInv'
  BY <1>7, <1>10 DEF Export, scanner
<1>11. ASSUME NEW n \in Listener, NEW t \in Thread, FromExport(n, t) PROVE AnnounceInv'
  BY <1>7, <1>11 DEF FromExport, scanner
<1>12. CASE Elsewhere
  BY <1>7, <1>12, ElsewhereFacts
<1> QED
  BY Steps, <1>1, <1>2, <1>3, <1>4, <1>5, <1>6, <1>8, <1>9, <1>10, <1>11, <1>12

LEMMA NextLiveInv == PublishTypeInv /\ LiveInv /\ [PublishNext]_pvars => LiveInv'
<1> SUFFICES ASSUME PublishTypeInv, LiveInv, [PublishNext]_pvars PROVE LiveInv'
  OBVIOUS
<1> DEFINE Cancels == cancelled \subseteq 1 .. (created - 1)
           Runs == \A n \in Listener : export[n].pc # "rest" => 1 < n /\ n <= created
           Own == Newest.pc \in {"loop", "send"} => Newest.ctx = created
           There == ~overtaken /\ Newest.pc # "copy" => Present
<1>0. Cancels /\ Runs /\ Own /\ There
  BY DEF LiveInv
<1>1. ASSUME Cancels', Runs', Own', There' PROVE LiveInv'
  BY <1>1 DEF LiveInv
<1>2. created \in Listener /\ created \in Nat /\ created >= 1
  BY DEF PublishTypeInv, ListType, Listener
<1> HIDE DEF Cancels, Runs, Own, There
<1>3. ASSUME UNCHANGED <<cancelled, created, overtaken>>, Present => Present', NEW n \in Listener, Others(n),
             export[n].pc \in {"loop", "send"}, export'[n].pc \in {"rest", "loop", "send"},
             export'[n].pc # "rest" => export'[n].ctx = export[n].ctx
      PROVE  LiveInv'
  <2>1. Cancels'
    BY <1>0, <1>3 DEF Cancels
  <2>2. Runs'
    BY <1>0, <1>3 DEF Runs, Others
  <2>3. Own'
    BY <1>0, <1>2, <1>3 DEF Own, Newest, Others
  <2>4. There'
    BY <1>0, <1>2, <1>3 DEF There, Newest, Others
  <2> QED
    BY <1>1, <2>1, <2>2, <2>3, <2>4
<1>4. ASSUME UNCHANGED <<cancelled, created, overtaken, export>>,
             Newest.pc # "copy" /\ Present => Present'
      PROVE  LiveInv'
  <2>1. Cancels' /\ Runs' /\ Own' /\ There'
    BY <1>0, <1>4 DEF Cancels, Runs, Own, There, Newest
  <2> QED
    BY <1>1, <2>1
<1>5. CASE DropListener
  <2>1. UNCHANGED <<cancelled, created, overtaken, export>>
    BY <1>5 DEF DropListener, lists
  <2>2. created \notin cancelled
    BY <1>0, <1>2 DEF Cancels
  <2> QED
    BY <1>4, <1>5, <2>1, <2>2, DropKeeps
<1>6. ASSUME NEW g \in Caller, Reconnect(g) PROVE LiveInv'
  <2>1. /\ created' = created + 1 /\ Others(created + 1) /\ Newest'.pc = "copy"
        /\ cancelled' \subseteq cancelled \cup {created}
    BY <1>6, ReconnectStep
  <2>2. Cancels'
    BY <1>0, <1>2, <2>1 DEF Cancels
  <2>3. Runs'
    <3> SUFFICES ASSUME NEW n \in Listener, export'[n].pc # "rest" PROVE 1 < n /\ n <= created'
      BY DEF Runs
    <3>1. CASE n = created + 1
      BY <1>2, <2>1, <3>1
    <3>2. CASE n # created + 1
      <4>1. export[n].pc # "rest"
        BY <2>1, <3>2 DEF Others
      <4> QED
        BY <1>0, <1>2, <2>1, <4>1 DEF Runs, Listener
    <3> QED
      BY <3>1, <3>2
  <2>4. Own' /\ There'
    BY <2>1 DEF Own, There
  <2> QED
    BY <1>1, <2>2, <2>3, <2>4
<1>7. ASSUME NEW n \in Listener, Register(n) PROVE LiveInv'
  <2>1. PICK c \in n .. created :
          Others(n) /\ export[n].pc = "copy" /\ export'[n].pc = "loop" /\ export'[n].ctx = c
    BY <1>7, RegisterStep
  <2>2. UNCHANGED <<cancelled, created>> /\ (~overtaken' => ~overtaken)
    BY <1>7 DEF Register
  <2>3. Cancels'
    BY <1>0, <2>2 DEF Cancels
  <2>4. Runs'
    BY <1>0, <2>1, <2>2 DEF Runs, Others
  <2>5. Own'
    <3>1. n = created => c = created
      BY <1>2
    <3> QED
      BY <1>0, <1>2, <2>1, <2>2, <3>1 DEF Own, Newest, Others
  <2>6. There'
    <3> SUFFICES ASSUME ~overtaken', Newest'.pc # "copy" PROVE Present'
      BY DEF There
    <3>1. CASE n = created
      BY <1>7, <3>1, RegisterKeeps
    <3>2. CASE n # created
      <4>1. Newest' = Newest
        BY <1>2, <2>1, <2>2, <3>2 DEF Newest, Others
      <4>2. Present
        BY <1>0, <2>2, <4>1 DEF There
      <4> QED
        BY <1>7, <4>2, RegisterKeeps
    <3> QED
      BY <3>1, <3>2
  <2> QED
    BY <1>1, <2>3, <2>4, <2>5, <2>6
<1>8. ASSUME ~DropListener, ~Registering, ~Reconnecting PROVE LiveInv'
  <2>1. Present' <=> Present
    BY <1>8, ListKept DEF Present
  <2>2. CASE Scanning
    BY <1>4, <2>1, <2>2, ScanningFacts
  <2>3. ASSUME NEW p \in Path, NEW h \in Infos, Set(p, h) PROVE LiveInv'
    BY <1>4, <2>1, <2>3, SetFacts
  <2>4. ASSUME NEW n \in Listener, ExportDone(n) PROVE LiveInv'
    <3>1. UNCHANGED <<cancelled, created, overtaken>>
      BY <2>4 DEF ExportDone, lists
    <3> QED
      BY <1>3, <2>1, <2>4, <3>1, ExportDoneStep
  <2>5. ASSUME NEW n \in Listener, NEW p \in Path, Export(n, p) PROVE LiveInv'
    <3>1. UNCHANGED <<cancelled, created, overtaken>>
      BY <2>5 DEF Export, lists
    <3> QED
      BY <1>3, <2>1, <2>5, <3>1, ExportStep
  <2>6. ASSUME NEW n \in Listener, NEW t \in Thread, FromExport(n, t) PROVE LiveInv'
    <3>1. UNCHANGED <<cancelled, created, overtaken>>
      BY <2>6 DEF FromExport, lists
    <3> QED
      BY <1>3, <2>1, <2>6, <3>1, FromExportStep
  <2>7. CASE Elsewhere
    BY <1>4, <2>1, <2>7, ElsewhereFacts
  <2> QED
    BY Steps, <1>8, <2>2, <2>3, <2>4, <2>5, <2>6, <2>7 DEF Scanning, Registering, Reconnecting
<1> QED
  BY <1>5, <1>6, <1>7, <1>8 DEF Registering, Reconnecting

LEMMA NextFileInv == PublishTypeInv /\ FileInv /\ [PublishNext]_pvars => FileInv'
<1> SUFFICES ASSUME PublishTypeInv, FileInv, [PublishNext]_pvars PROVE FileInv'
  OBVIOUS
<1> DEFINE Files(n) == export[n].pc \in {"loop", "send"} => \A p \in export[n].todo : export[n].cpy[p] # None
           Sent(n) == export[n].pc = "send" => fi[n] # None
           Pointers == \A t \in Thread : request[t] # None /\ request[t].of # 0 => fi[request[t].of] # None
<1>0. (\A n \in Listener : Files(n) /\ Sent(n)) /\ Pointers
  BY DEF FileInv
<1>1. ASSUME \A n \in Listener : Files(n)' /\ Sent(n)', Pointers' PROVE FileInv'
  BY <1>1 DEF FileInv
<1> HIDE DEF Files, Sent, Pointers
<1>2. ASSUME NEW n \in Listener, UNCHANGED <<export[n], fi[n]>> PROVE Files(n)' /\ Sent(n)'
  BY <1>0, <1>2 DEF Files, Sent
<1>3. ASSUME UNCHANGED <<export, fi>> PROVE \A n \in Listener : Files(n)' /\ Sent(n)'
  BY <1>2, <1>3
<1>4. ASSUME UNCHANGED <<request, fi>> PROVE Pointers'
  BY <1>0, <1>4 DEF Pointers
<1>5. ASSUME NEW n \in Listener, Others(n), fi' = fi, Files(n)', Sent(n)'
      PROVE  \A m \in Listener : Files(m)' /\ Sent(m)'
  <2> SUFFICES ASSUME NEW m \in Listener PROVE Files(m)' /\ Sent(m)'
    OBVIOUS
  <2>1. CASE m = n
    BY <1>5, <2>1
  <2>2. CASE m # n
    BY <1>2, <1>5, <2>2 DEF Others
  <2> QED
    BY <2>1, <2>2
<1>6. ASSUME NEW t \in Thread, request'[t] = None, \A u \in Thread \ {t} : request'[u] = request[u], fi' = fi
      PROVE  Pointers'
  BY <1>0, <1>6 DEF Pointers
<1>7. CASE DropListener \/ StoreSlice \/ CallListener \/ SetDone
  BY <1>1, <1>3, <1>4, <1>7 DEF DropListener, StoreSlice, CallListener, SetDone, threads
<1>8. ASSUME NEW t \in Thread, FromScanner(t) PROVE FileInv'
  <2>1. UNCHANGED <<export, fi>>
    BY <1>8 DEF FromScanner
  <2>2. request'[t].of = 0 /\ \A u \in Thread \ {t} : request'[u] = request[u]
    BY <1>8, FromScannerHands, HandFacts
  <2>3. Pointers'
    BY <1>0, <2>1, <2>2 DEF Pointers
  <2> QED
    BY <1>1, <1>3, <2>1, <2>3
<1>9. ASSUME NEW p \in Path, NEW h \in Infos, Set(p, h) PROVE FileInv'
  BY <1>1, <1>3, <1>4, <1>9, SetFacts
<1>10. ASSUME NEW g \in Caller, Reconnect(g) PROVE FileInv'
  <2>1. UNCHANGED <<fi, request>>
    BY <1>10 DEF Reconnect
  <2>2. PICK n \in Listener : Others(n) /\ export'[n].pc = "copy"
    BY <1>10, ReconnectStep
  <2>3. Files(n)' /\ Sent(n)'
    BY <2>2 DEF Files, Sent
  <2> QED
    BY <1>1, <1>4, <1>5, <2>1, <2>2, <2>3
<1>11. ASSUME NEW n \in Listener, Register(n) PROVE FileInv'
  <2>1. UNCHANGED <<fi, request>>
    BY <1>11 DEF Register, threads
  <2>2. /\ Others(n) /\ export'[n].pc = "loop"
        /\ export'[n].todo = {p \in Path : fileCache[p] # None} /\ export'[n].cpy = fileCache
    BY <1>11, RegisterStep
  <2>3. Files(n)' /\ Sent(n)'
    BY <2>2 DEF Files, Sent
  <2> QED
    BY <1>1, <1>4, <1>5, <2>1, <2>2, <2>3
<1>12. ASSUME NEW n \in Listener, ExportDone(n) PROVE FileInv'
  <2>1. UNCHANGED <<fi, request>>
    BY <1>12 DEF ExportDone
  <2>2. Others(n) /\ export'[n].pc = "rest"
    BY <1>12, ExportDoneStep
  <2>3. Files(n)' /\ Sent(n)'
    BY <2>2 DEF Files, Sent
  <2> QED
    BY <1>1, <1>4, <1>5, <2>1, <2>2, <2>3
<1>13. ASSUME NEW n \in Listener, NEW p \in Path, Export(n, p) PROVE FileInv'
  <2>1. /\ Others(n) /\ export[n].pc = "loop" /\ export'[n].pc = "send" /\ p \in export[n].todo
        /\ export'[n].todo = export[n].todo \ {p} /\ export'[n].cpy = export[n].cpy
    BY <1>13, ExportStep
  <2>2. export[n].cpy[p] # None
    BY <1>0, <2>1 DEF Files
  <2>3. fi \in [Listener -> Infos] /\ fi' = [fi EXCEPT ![n] = export[n].cpy[p]] /\ request' = request
    BY <1>13 DEF PublishTypeInv, FiType, Export, threads
  <2>4. fi'[n] # None /\ \A m \in Listener \ {n} : fi'[m] = fi[m]
    BY <2>2, <2>3
  <2>5. Files(n)' /\ Sent(n)'
    BY <1>0, <2>1, <2>4 DEF Files, Sent
  <2>6. \A m \in Listener \ {n} : Files(m)' /\ Sent(m)'
    BY <1>2, <2>1, <2>4 DEF Others
  <2>7. \A t \in Thread : request[t] # None /\ request[t].of # 0 => request[t].of \in Listener
    BY DEF PublishTypeInv, RequestType, Request, Listener
  <2>8. Pointers'
    BY <1>0, <2>3, <2>4, <2>7 DEF Pointers
  <2> QED
    BY <1>1, <2>5, <2>6, <2>8
<1>14. ASSUME NEW n \in Listener, NEW t \in Thread, FromExport(n, t) PROVE FileInv'
  <2>1. /\ Others(n) /\ export[n].pc = "send" /\ export'[n].pc = "loop"
        /\ export'[n].todo = export[n].todo /\ export'[n].cpy = export[n].cpy
    BY <1>14, FromExportStep
  <2>2. fi' = fi
    BY <1>14 DEF FromExport
  <2>3. Files(n)' /\ Sent(n)'
    BY <1>0, <2>1 DEF Files, Sent
  <2>4. request'[t].of = n /\ \A u \in Thread \ {t} : request'[u] = request[u]
    BY <1>14, FromExportHands, HandFacts
  <2>5. fi[n] # None
    BY <1>0, <2>1 DEF Sent
  <2>6. Pointers'
    BY <1>0, <2>2, <2>4, <2>5 DEF Pointers
  <2> QED
    BY <1>1, <1>5, <2>1, <2>2, <2>3, <2>6
<1>15. ASSUME NEW t \in Thread, Send(t) \/ Fail(t) PROVE FileInv'
  <2>1. request'[t] = None /\ \A u \in Thread \ {t} : request'[u] = request[u]
    BY <1>15 DEF Send, Fail, Idle, PublishTypeInv, RequestType
  <2>2. UNCHANGED <<export, fi>>
    BY <1>15 DEF Send, Fail, Idle
  <2> QED
    BY <1>1, <1>3, <1>6, <2>1, <2>2
<1>16. ASSUME NEW g \in Caller, DialOnly(g) PROVE FileInv'
  BY <1>1, <1>3, <1>4, <1>16 DEF DialOnly
<1>17. CASE Cut \/ UNCHANGED pvars
  BY <1>1, <1>3, <1>4, <1>17 DEF Cut, pvars, threads
<1> QED
  BY Steps, <1>7, <1>8, <1>9, <1>10, <1>11, <1>12, <1>13, <1>14, <1>15, <1>16, <1>17 DEF Elsewhere

-----------------------------------------------------------------------------
\* A step that does not pass the last listener: ToCall goes on.
LEMMA ToCallKept ==
  ASSUME PublishTypeInv, LiveInv, [PublishNext]_pvars, ~overtaken',
         NEW p \in Path, ToCall(p), ~CallListener, ~Reconnecting
  PROVE  ToCall(p)'
<1>1. scan.pc \in {"loop", "drop"} /\ scan.path = p /\ Ahead
  BY DEF ToCall
<1>2. CASE DropListener
  <2>1. scan'.pc = "drop" /\ scan'.path = p
    BY <1>1, <1>2, DropStep DEF SameFile
  <2>2. created \notin cancelled
    BY DEF LiveInv, PublishTypeInv, ListType, Listener
  <2> QED
    BY <1>1, <1>2, <2>1, <2>2, DropKeeps DEF ToCall
<1>3. ASSUME NEW n \in Listener, Register(n) PROVE ToCall(p)'
  BY <1>1, <1>3, RegisterKeeps DEF ToCall
<1>4. ASSUME ~DropListener, ~Registering PROVE ToCall(p)'
  <2>1. List' = List /\ created' = created
    BY <1>4, ListKept
  <2>2. ASSUME scan'.i = scan.i, scan'.pc \in {"loop", "drop"}, scan'.path = p PROVE ToCall(p)'
    BY <1>1, <2>1, <2>2 DEF ToCall, Ahead
  <2>3. CASE StoreSlice
    BY <1>1, <2>2, <2>3, StoreStep DEF SameFile
  <2>4. CASE SetDone
    <3>1. scan.pc = "loop" /\ scan.i > Len(listeners) /\ List = listeners
      BY <2>4 DEF SetDone, List
    <3>2. listeners \in Seq(Nat) /\ scan.i \in Nat
      BY <3>1, ScanFacts DEF PublishTypeInv, ListType
    <3>3. DOMAIN listeners = 1 .. Len(listeners) /\ Len(listeners) \in Nat
      BY <3>2, LenProperties
    <3>4. ~Ahead
      BY <3>1, <3>2, <3>3 DEF Ahead
    <3> QED
      BY <1>1, <3>4
  <2>5. CASE scan' = scan
    BY <1>1, <2>2, <2>5
  <2>6. CASE Elsewhere
    BY <2>5, <2>6, ElsewhereFacts
  <2>7. \/ StoreSlice \/ SetDone \/ Elsewhere \/ scan' = scan
    BY Steps, <1>1, <1>4 DEF Registering, Reconnecting, FromScanner, Set, ExportDone, Export, FromExport, scanner
  <2> QED
    BY <2>3, <2>4, <2>5, <2>6, <2>7
<1> QED
  BY <1>2, <1>3, <1>4 DEF Registering

\* A change is announced to the last listener, which is in the list somewhere.
LEMMA SetToCall ==
  ASSUME PublishTypeInv, LiveInv, ~overtaken, Newest.pc # "copy",
         NEW p \in Path, NEW h \in Infos, Set(p, h)
  PROVE  ToCall(p)'
<1>1. scan.pc = "rest" /\ scan'.pc = "loop" /\ scan'.i = 1 /\ scan'.path = p
  BY SetStep
<1>2. listeners' = listeners /\ created' = created
  BY SetFacts
<1>3. List = listeners /\ List' = listeners
  BY <1>1, <1>2 DEF List
<1>4. \E j \in DOMAIN listeners : listeners[j] = created
  BY <1>3 DEF LiveInv, Present
<1>5. DOMAIN listeners = 1 .. Len(listeners) /\ Len(listeners) \in Nat
  BY LenProperties DEF PublishTypeInv, ListType
<1>6. Ahead'
  BY <1>1, <1>2, <1>3, <1>4, <1>5 DEF Ahead
<1> QED
  BY <1>1, <1>6 DEF ToCall

\* A callback files the path it is about under the hash, and no other one.
LEMMA IndexedFacts ==
  ASSUME IndexType, NEW p \in Path, NEW h, NEW old,
         hashToPath' = Indexed(p, h, old), NEW x \in Hash
  PROVE  /\ p \in hashToPath'[x] <=> x = h \/ (x # old /\ p \in hashToPath[x])
         /\ \A q \in Path \ {p} : q \in hashToPath'[x] <=> q \in hashToPath[x]
  BY DEF Indexed, IndexType

LEMMA OvertakenStays ==
  ASSUME [PublishNext]_pvars, ~overtaken'
  PROVE  ~overtaken
<1>1. ASSUME overtaken' = overtaken PROVE ~overtaken
  BY <1>1
<1>2. CASE Scanning
  BY <1>1, <1>2, ScanningFacts
<1>3. CASE Elsewhere
  BY <1>1, <1>3, ElsewhereFacts
<1> QED
  BY Steps, <1>2, <1>3 DEF Scanning, Set, Reconnect, Register, ExportDone, Export, FromExport, lists

\* A step of another run than the newest leaves the newest as it is.
LEMMA NewestKept ==
  ASSUME PublishTypeInv, NEW n \in Listener, Others(n), n # created, created' = created
  PROVE  Newest' = Newest
  BY DEF Newest, Others, PublishTypeInv, ListType

\* A run that ends, and is the newest, has exported everything.
LEMMA NewestEnds ==
  ASSUME PublishTypeInv, LiveInv, ExportDone(created)
  PROVE  Newest.pc = "loop" /\ Newest.todo = {}
<1>1. created \in Listener /\ created \notin cancelled
  BY DEF LiveInv, PublishTypeInv, ListType, Listener
<1>2. Newest.pc = "loop" /\ (Newest.todo = {} \/ Newest.ctx \in cancelled)
  BY DEF ExportDone, Newest
<1> QED
  BY <1>1, <1>2 DEF LiveInv

LEMMA NextIndexInv ==
  PublishTypeInv /\ AnnounceInv /\ LiveInv /\ IndexInv /\ [PublishNext]_pvars => IndexInv'
<1> SUFFICES ASSUME PublishTypeInv, AnnounceInv, LiveInv, IndexInv, [PublishNext]_pvars, ~overtaken',
                    NEW p \in Path, fileCache'[p] # None
             PROVE  Filed(p)'
  BY DEF IndexInv
<1>0. ~overtaken /\ (fileCache[p] # None => Filed(p))
  BY OvertakenStays DEF IndexInv
<1>1. fileCache \in [Path -> Infos] /\ IndexType /\ created \in Listener
  BY DEF PublishTypeInv, CacheType, ListType
<1>2. CASE CallListener
  <2>1. UNCHANGED <<fileCache, export, created>> /\ scan.pc = "loop" /\ scan.path \in Path
    BY <1>2, CallStep, ScanFacts DEF CallListener, PublishTypeInv, lists
  <2>2. scan.info = fileCache[scan.path] /\ hashToPath' = Indexed(scan.path, scan.info, scan.old)
    BY <1>2, <2>1 DEF AnnounceInv, CallListener
  <2>3. fileCache[p] \in Hash /\ Newest' = Newest
    BY <1>1, <2>1 DEF Infos, Newest
  <2>4. CASE p = scan.path
    <3>1. p \in hashToPath'[fileCache[p]]
      BY <1>1, <2>1, <2>2, <2>3, <2>4, IndexedFacts
    <3> QED
      BY <2>1, <3>1 DEF Filed
  <2>5. CASE p # scan.path
    <3>1. p \in hashToPath[fileCache[p]] => p \in hashToPath'[fileCache[p]]
      BY <1>1, <2>1, <2>2, <2>3, <2>5, IndexedFacts
    <3>2. ~ToCall(p)
      BY <2>5 DEF ToCall
    <3> QED
      BY <1>0, <2>1, <2>3, <3>1, <3>2 DEF Filed
  <2> QED
    BY <2>4, <2>5
<1>3. ASSUME NEW g \in Caller, Reconnect(g) PROVE Filed(p)'
  BY <1>3, ReconnectStep DEF Filed
<1>4. ASSUME ~CallListener, ~Reconnecting PROVE Filed(p)'
  <2>1. ASSUME ToCall(p) PROVE Filed(p)'
    <3>1. ToCall(p)'
      BY <1>4, <2>1, ToCallKept
    <3> QED
      BY <3>1 DEF Filed
  <2>2. ASSUME UNCHANGED <<fileCache, hashToPath>>, Newest' = Newest PROVE Filed(p)'
    BY <1>0, <2>1, <2>2 DEF Filed
  <2>3. ASSUME UNCHANGED <<fileCache, hashToPath, export, created>> PROVE Filed(p)'
    BY <2>2, <2>3 DEF Newest
  <2>4. ASSUME NEW n \in Listener, Register(n) PROVE Filed(p)'
    <3>1. UNCHANGED <<fileCache, hashToPath, created>>
      BY <2>4 DEF Register, scanner
    <3>2. /\ Others(n) /\ export'[n].pc = "loop"
          /\ export'[n].todo = {q \in Path : fileCache[q] # None} /\ export'[n].cpy = fileCache
      BY <2>4, RegisterStep
    <3>3. CASE n = created
      BY <3>1, <3>2, <3>3 DEF Filed, Newest
    <3>4. CASE n # created
      BY <2>2, <3>1, <3>2, <3>4, NewestKept
    <3> QED
      BY <3>3, <3>4
  <2>5. ASSUME NEW q \in Path, NEW h \in Infos, Set(q, h) PROVE Filed(p)'
    <3>1. UNCHANGED <<hashToPath, export, created>> /\ Newest' = Newest
      BY <2>5, SetFacts DEF Newest
    <3>2. CASE Newest.pc = "copy"
      BY <3>1, <3>2 DEF Filed
    <3>3. CASE p = q /\ Newest.pc # "copy"
      <4>1. ToCall(p)'
        BY <1>0, <2>5, <3>3, SetToCall
      <4> QED
        BY <4>1 DEF Filed
    <3>4. CASE p # q
      <4>1. fileCache'[p] = fileCache[p]
        BY <1>1, <2>5, <3>4, SetStep
      <4> QED
        BY <1>0, <2>1, <3>1, <4>1 DEF Filed
    <3> QED
      BY <3>2, <3>3, <3>4
  <2>6. ASSUME NEW n \in Listener, NEW q \in Path, Export(n, q) PROVE Filed(p)'
    <3>1. /\ Others(n) /\ export[n].pc = "loop" /\ export'[n].pc = "send" /\ q \in export[n].todo
          /\ export'[n].todo = export[n].todo \ {q} /\ export'[n].cpy = export[n].cpy
      BY <2>6, ExportStep
    <3>2. UNCHANGED <<fileCache, created>> /\ hashToPath' = Indexed(q, export[n].cpy[q], None)
      BY <2>6 DEF Export, scanner, lists
    <3>3. fileCache[p] \in Hash /\ fileCache[p] # None
      BY <1>1, <3>2 DEF Infos
    <3>4. p \in hashToPath[fileCache[p]] => p \in hashToPath'[fileCache[p]]
      BY <1>1, <3>2, <3>3, IndexedFacts
    <3>5. CASE n # created
      <4>1. Newest' = Newest
        BY <3>1, <3>2, <3>5, NewestKept
      <4> QED
        BY <1>0, <2>1, <3>2, <3>3, <3>4, <4>1 DEF Filed
    <3>6. CASE n = created /\ p = q /\ export[n].cpy[p] = fileCache[p]
      <4>1. p \in hashToPath'[fileCache[p]]
        BY <1>1, <3>2, <3>3, <3>6, IndexedFacts
      <4> QED
        BY <3>2, <4>1 DEF Filed
    <3>7. CASE n = created /\ (p # q \/ export[n].cpy[p] # fileCache[p])
      <4>1. /\ Newest.pc = "loop" /\ Newest'.pc = "send" /\ Newest'.todo = Newest.todo \ {q}
            /\ Newest'.cpy = Newest.cpy
        BY <3>1, <3>2, <3>7 DEF Newest
      <4>2. p # q \/ Newest.cpy[p] # fileCache[p]
        BY <3>7 DEF Newest
      <4> QED
        BY <1>0, <2>1, <3>2, <3>3, <3>4, <4>1, <4>2 DEF Filed
    <3> QED
      BY <3>5, <3>6, <3>7
  <2>7. ASSUME NEW n \in Listener, NEW t \in Thread, FromExport(n, t) PROVE Filed(p)'
    <3>1. UNCHANGED <<fileCache, hashToPath, created>>
      BY <2>7 DEF FromExport, scanner, lists
    <3>2. /\ Others(n) /\ export[n].pc = "send" /\ export'[n].pc = "loop"
          /\ export'[n].todo = export[n].todo /\ export'[n].cpy = export[n].cpy
      BY <2>7, FromExportStep
    <3>3. CASE n = created
      <4>1. /\ Newest.pc = "send" /\ Newest'.pc = "loop" /\ Newest'.todo = Newest.todo
            /\ Newest'.cpy = Newest.cpy
        BY <3>1, <3>2, <3>3 DEF Newest
      <4> QED
        BY <1>0, <2>1, <3>1, <4>1 DEF Filed
    <3>4. CASE n # created
      BY <2>2, <3>1, <3>2, <3>4, NewestKept
    <3> QED
      BY <3>3, <3>4
  <2>8. ASSUME NEW n \in Listener, ExportDone(n) PROVE Filed(p)'
    <3>1. UNCHANGED <<fileCache, hashToPath, created>> /\ Others(n)
      BY <2>8, ExportDoneStep DEF ExportDone, scanner, lists
    <3>2. CASE n = created
      BY <1>0, <2>1, <2>8, <3>1, <3>2, NewestEnds DEF Filed
    <3>3. CASE n # created
      BY <2>2, <3>1, <3>3, NewestKept
    <3> QED
      BY <3>2, <3>3
  <2>9. CASE DropListener \/ StoreSlice \/ SetDone
    BY <2>3, <2>9 DEF DropListener, StoreSlice, SetDone, lists
  <2>10. ASSUME NEW t \in Thread, FromScanner(t) PROVE Filed(p)'
    BY <2>3, <2>10 DEF FromScanner, lists
  <2>11. CASE Elsewhere
    BY <2>3, <2>11, ElsewhereFacts
  <2> QED
    BY Steps, <1>4, <2>4, <2>5, <2>6, <2>7, <2>8, <2>9, <2>10, <2>11 DEF Reconnecting
<1> QED
  BY <1>2, <1>3, <1>4 DEF Reconnecting

\* The part of the inductive invariant that all the theorems need.
Base == PublishTypeInv /\ AnnounceInv /\ LiveInv /\ FileInv

LEMMA InitBase == PublishInit => Base
<1> SUFFICES ASSUME PublishInit PROVE Base
  OBVIOUS
<1>1. PublishTypeInv
  BY InitTypes
<1>2. /\ scan.pc = "rest" /\ listeners = <<1>> /\ created = 1 /\ cancelled = {}
      /\ \A n \in Listener : export[n].pc = "rest"
  BY DEF PublishInit, Resting
<1>3. Newest.pc = "rest"
  BY <1>1, <1>2 DEF Newest, PublishTypeInv, ListType
<1>4. LiveInv
  <2>1. List = <<1>>
    BY <1>2 DEF List
  <2>2. 1 \in DOMAIN <<1>> /\ <<1>>[1] = 1
    OBVIOUS
  <2> QED
    BY <1>2, <1>3, <2>1, <2>2 DEF LiveInv, Present
<1>5. \A t \in Thread : request[t] = None
  BY DEF PublishInit
<1>6. AnnounceInv /\ FileInv
  BY <1>2, <1>5 DEF AnnounceInv, FileInv
<1> QED
  BY <1>1, <1>4, <1>6 DEF Base

LEMMA NextBase == Base /\ [PublishNext]_pvars => Base'
  BY NextTypes, NextAnnounceInv, NextLiveInv, NextFileInv DEF Base

\* A peer finds every file it has in its index, for any number of threads, of
\* changes and of reconnects, also several at once: a change that the scanner
\* announces while listeners are removed, cancelled and registered reaches the
\* last listener or is in the copy that it gets
\* (src/filescanner/filescanner.go: set, ContinuousExport; src/server.go: SetFile).
THEOREM IndexAlwaysComplete == PublishSpec => []IndexComplete
<1>1. PublishInit => IndexInv
  BY DEF PublishInit, IndexInv, Nothing
<1>2. Base /\ IndexInv /\ [PublishNext]_pvars => IndexInv'
  BY NextIndexInv DEF Base
<1>3. Base /\ IndexInv => IndexComplete
  <2> SUFFICES ASSUME Base, IndexInv, ~overtaken, Handled, NEW p \in Path, fileCache[p] # None
               PROVE  p \in hashToPath[fileCache[p]]
    BY DEF IndexComplete
  <2>1. Filed(p)
    BY DEF IndexInv
  <2>2. Newest.pc = "rest" /\ scan.pc = "rest"
    BY DEF Handled, Newest, Base, PublishTypeInv, ListType
  <2> QED
    BY <2>1, <2>2 DEF Filed, ToCall
<1> QED
  BY InitBase, NextBase, <1>1, <1>2, <1>3, PTL DEF PublishSpec

-----------------------------------------------------------------------------
\* What the master knows of p and is going to be told.
LEMMA PendingHand ==
  ASSUME PublishTypeInv, NEW s \in Thread, NEW q \in Path, NEW h \in Infos, NEW n \in 0 .. MaxListener,
         Hand(s, q, h, n)
  PROVE  /\ Pending(q)' = Pending(q) \cup {s}
         /\ \A p \in Path \ {q} : Pending(p)' = Pending(p)
         /\ s \notin Pending(q)
<1>1. /\ request[s] = None /\ request'[s] # None /\ request'[s].path = q
      /\ \A u \in Thread \ {s} : request'[u] = request[u]
  BY HandFacts
<1>2. \A u \in Thread : u \in Pending(q)' <=> u \in Pending(q) \/ u = s
  BY <1>1 DEF Pending
<1>3. ASSUME NEW p \in Path \ {q}, NEW u \in Thread PROVE u \in Pending(p)' <=> u \in Pending(p)
  BY <1>1 DEF Pending
<1>4. s \notin Pending(q)
  BY <1>1 DEF Pending
<1>5. \A p \in Path : Pending(p)' \subseteq Thread /\ Pending(p) \subseteq Thread
  BY DEF Pending
<1>6. Pending(q)' = Pending(q) \cup {s}
  BY <1>2, <1>5
<1>7. \A p \in Path \ {q} : Pending(p)' = Pending(p)
  BY <1>3, <1>5
<1> QED
  BY <1>4, <1>6, <1>7

LEMMA ReachesKept ==
  ASSUME UNCHANGED <<request, fi, published>>, NEW p \in Path
  PROVE  Reaches(p)' <=> Reaches(p)
  BY DEF Reaches, Pending, InfoOf

\* A file that is handed to a thread while no deletion of it is under way.
LEMMA HandReaches ==
  ASSUME PublishTypeInv, NEW s \in Thread, NEW q \in Path, NEW h \in Infos, NEW n \in 0 .. MaxListener,
         Hand(s, q, h, n), UNCHANGED <<fi, published>>,
         (IF n = 0 THEN h ELSE fi[n]) # None, None \notin beside'[q]
  PROVE  Reaches(q)'
<1>1. /\ request'[s].info = h /\ request'[s].of = n
      /\ \A u \in Thread \ {s} : request'[u] = request[u]
      /\ beside'[q] = {InfoOf(request[u]) : u \in Pending(q)}
  BY HandFacts
<1>2. Pending(q)' = Pending(q) \cup {s} /\ s \notin Pending(q) /\ Pending(q) \subseteq Thread
  BY PendingHand DEF Pending
<1>3. InfoOf(request[s])' # None
  BY <1>1 DEF InfoOf
<1>4. ASSUME NEW u \in Pending(q) PROVE InfoOf(request[u])' # None
  <2>1. InfoOf(request[u]) # None
    BY <1>1
  <2>2. request'[u] = request[u]
    BY <1>1, <1>2
  <2> QED
    BY <2>1, <2>2 DEF InfoOf
<1> QED
  BY <1>2, <1>3, <1>4 DEF Reaches

LEMMA HandOther ==
  ASSUME PublishTypeInv, NEW s \in Thread, NEW q \in Path, NEW h \in Infos, NEW n \in 0 .. MaxListener,
         Hand(s, q, h, n), UNCHANGED <<fi, published>>, NEW p \in Path \ {q}, Reaches(p)
  PROVE  Reaches(p)'
<1>1. Pending(p)' = Pending(p) /\ Pending(p) \subseteq Thread
  BY PendingHand DEF Pending
<1>2. request[s] = None /\ \A u \in Thread \ {s} : request'[u] = request[u]
  BY HandFacts
<1>3. ASSUME NEW u \in Pending(p) PROVE InfoOf(request[u])' # None
  <2>1. InfoOf(request[u]) # None /\ u \in Thread /\ u # s
    BY <1>1, <1>2 DEF Reaches, Pending
  <2> QED
    BY <1>2, <2>1 DEF InfoOf
<1> QED
  BY <1>1, <1>3 DEF Reaches

\* What sending does to the requests and to the master.
LEMMA SendFacts ==
  ASSUME PublishTypeInv, NEW s \in Thread, Send(s), session = "up"
  PROVE  /\ request[s].path \in Path /\ s \in Pending(request[s].path)
         /\ \A u \in Thread \ {s} : request'[u] = request[u]
         /\ \A p \in Path : Pending(p)' = Pending(p) \ {s}
         /\ published'[request[s].path] = InfoOf(request[s])
         /\ \A p \in Path \ {request[s].path} : published'[p] = published[p] /\ s \notin Pending(p)
<1>1. request[s] # None /\ request[s].path \in Path /\ s \in Pending(request[s].path)
  BY DEF Send, PublishTypeInv, RequestType, Request, Pending
<1>2. request'[s] = None /\ \A u \in Thread \ {s} : request'[u] = request[u]
  BY DEF Send, Idle, PublishTypeInv, RequestType
<1>3. ASSUME NEW p \in Path PROVE Pending(p)' = Pending(p) \ {s}
  <2>1. \A u \in Thread : u \in Pending(p)' <=> u \in Pending(p) \ {s}
    BY <1>2 DEF Pending
  <2>2. Pending(p)' \subseteq Thread /\ Pending(p) \subseteq Thread
    BY DEF Pending
  <2> QED
    BY <2>1, <2>2
<1>4. published' = [published EXCEPT ![request[s].path] = InfoOf(request[s])] /\ published \in [Path -> Infos]
  BY DEF Send, PublishTypeInv, PublishType
<1>5. \A p \in Path \ {request[s].path} : s \notin Pending(p)
  BY DEF Pending
<1> QED
  BY <1>1, <1>2, <1>3, <1>4, <1>5

LEMMA SentReaches ==
  ASSUME PublishTypeInv, NEW s \in Thread, Send(s), session = "up", NEW p \in Path, Reaches(p)
  PROVE  Reaches(p)'
<1>1. /\ request[s].path \in Path /\ s \in Pending(request[s].path)
      /\ \A u \in Thread \ {s} : request'[u] = request[u]
      /\ Pending(p)' = Pending(p) \ {s}
      /\ published'[request[s].path] = InfoOf(request[s])
      /\ p # request[s].path => published'[p] = published[p] /\ s \notin Pending(p)
  BY SendFacts
<1>2. fi' = fi /\ Pending(p) \subseteq Thread
  BY DEF Send, Idle, Pending
<1>3. ASSUME NEW u \in Pending(p)' PROVE InfoOf(request[u])' # None
  <2>1. InfoOf(request[u]) # None /\ request'[u] = request[u]
    BY <1>1, <1>2 DEF Reaches
  <2> QED
    BY <1>2, <2>1 DEF InfoOf
<1>4. CASE p = request[s].path
  <2>1. published'[p] # None
    BY <1>1, <1>4 DEF Reaches
  <2> QED
    BY <1>3, <2>1 DEF Reaches
<1>5. CASE p # request[s].path
  BY <1>1, <1>3, <1>5 DEF Reaches
<1> QED
  BY <1>4, <1>5

\* An export may change what a request points to, but to another file.
LEMMA PointerReaches ==
  ASSUME PublishTypeInv, FileInv', NEW n \in Listener, NEW q \in Path, Export(n, q), NEW p \in Path, Reaches(p)
  PROVE  Reaches(p)'
<1>1. request' = request /\ published' = published
  BY DEF Export, threads, master
<1>2. Pending(p)' = Pending(p) /\ Pending(p) \subseteq Thread
  BY <1>1 DEF Pending
<1>3. ASSUME NEW u \in Pending(p) PROVE InfoOf(request[u])' # None
  <2>1. request'[u] # None /\ u \in Thread /\ request'[u] = request[u] /\ InfoOf(request[u]) # None
    BY <1>1, <1>2 DEF Pending, Reaches
  <2>2. request'[u].of # 0 => fi'[request'[u].of] # None
    BY <2>1 DEF FileInv
  <2> QED
    BY <2>1, <2>2 DEF InfoOf
<1> QED
  BY <1>1, <1>2, <1>3 DEF Reaches

LEMMA SessionKept ==
  ASSUME [PublishNext]_pvars, ~Reconnecting, session' = "up"
  PROVE  session = "up" /\ ~Cut /\ (\A g \in Caller : ~DialOnly(g)) /\ (\A t \in Thread : ~Fail(t))
<1>1. ~Cut /\ (\A g \in Caller : ~DialOnly(g))
  BY DEF Cut, DialOnly
<1>2. session = "up"
  <2>1. CASE Scanning
    BY <2>1, ScanningFacts
  <2>2. CASE Elsewhere
    BY <1>1, <2>2 DEF Elsewhere, Send, Fail, Idle, pvars, master
  <2> QED
    BY Steps, <2>1, <2>2 DEF Scanning, Reconnecting, Set, Register, ExportDone, Export, FromExport, master
<1> QED
  BY <1>1, <1>2 DEF Fail

LEMMA NextKnownInv == Base /\ KnownInv /\ [PublishNext]_pvars => KnownInv'
<1> SUFFICES ASSUME Base, KnownInv, [PublishNext]_pvars, ~overtaken', session' = "up",
                    NEW p \in Path, fileCache'[p] # None, None \notin beside'[p]
             PROVE  Told(p)'
  BY DEF KnownInv
<1>0. ~overtaken /\ (session = "up" /\ fileCache[p] # None /\ None \notin beside[p] => Told(p))
  BY OvertakenStays DEF KnownInv
<1>1. /\ PublishTypeInv /\ AnnounceInv /\ LiveInv /\ FileInv /\ FileInv'
      /\ fileCache \in [Path -> Infos] /\ created \in Listener
  BY NextBase DEF Base, PublishTypeInv, CacheType, ListType
<1>2. ASSUME NEW g \in Caller, Reconnect(g) PROVE Told(p)'
  BY <1>1, <1>2, ReconnectStep DEF Told
<1>3. ASSUME ~Reconnecting PROVE Told(p)'
  <2>0. session = "up"
    BY <1>3, SessionKept
  <2>1. ASSUME ToCall(p), ~CallListener PROVE Told(p)'
    <3>1. ToCall(p)'
      BY <1>1, <1>3, <2>1, ToCallKept
    <3> QED
      BY <3>1 DEF Told
  <2>2. ASSUME UNCHANGED <<fileCache, scan>>, beside'[p] = beside[p], Newest' = Newest, Reaches(p) => Reaches(p)',
               ~CallListener
        PROVE  Told(p)'
    BY <1>0, <2>0, <2>1, <2>2 DEF Told
  <2>3. CASE CallListener
    <3>1. scan'.pc = "send" /\ scan'.path = scan.path /\ scan.pc = "loop"
      BY <1>1, <2>3, CallStep DEF SameFile
    <3>2. UNCHANGED <<fileCache, export, created, beside>> /\ UNCHANGED <<request, fi, published>>
      BY <2>3 DEF CallListener, lists, threads, master
    <3>3. CASE p = scan.path
      BY <3>1, <3>3 DEF Told
    <3>4. CASE p # scan.path
      BY <1>0, <2>0, <3>1, <3>2, <3>4, ReachesKept DEF Told, ToCall, Newest
    <3> QED
      BY <3>3, <3>4
  <2>4. CASE ~CallListener /\ (DropListener \/ StoreSlice \/ SetDone)
    <3>1. /\ scan.pc # "send" /\ UNCHANGED <<fileCache, export, created, beside>>
          /\ UNCHANGED <<request, fi, published>> /\ ~CallListener
      BY <2>4 DEF DropListener, StoreSlice, SetDone, lists, threads, master
    <3>2. Newest' = Newest
      BY <3>1 DEF Newest
    <3> QED
      BY <1>0, <2>0, <2>1, <3>1, <3>2, ReachesKept DEF Told
  <2>5. ASSUME NEW t \in Thread, FromScanner(t) PROVE Told(p)'
    <3>1. UNCHANGED <<fileCache, export, created, fi, published>> /\ scan.pc = "send" /\ scan.info = fileCache[scan.path]
      BY <1>1, <2>5 DEF FromScanner, AnnounceInv, lists, master
    <3>2. Hand(t, scan.path, scan.info, 0) /\ scan.path \in Path /\ scan.info \in Infos /\ 0 \in 0 .. MaxListener
      BY <1>1, <2>5, FromScannerHands
    <3>3. CASE p = scan.path
      <4>1. Reaches(p)'
        BY <1>1, <3>1, <3>2, <3>3, HandReaches
      <4> QED
        BY <4>1 DEF Told
    <3>4. CASE p # scan.path
      <4>1. beside'[p] = beside[p]
        BY <1>1, <3>2, <3>4, HandFacts
      <4>2. Reaches(p) => Reaches(p)'
        BY <1>1, <3>1, <3>2, <3>4, HandOther
      <4> QED
        BY <1>0, <2>0, <3>1, <3>4, <4>1, <4>2 DEF Told, ToCall, Newest
    <3> QED
      BY <3>3, <3>4
  <2>6. ASSUME NEW q \in Path, NEW h \in Infos, Set(q, h) PROVE Told(p)'
    <3>1. /\ UNCHANGED <<export, created, beside>> /\ UNCHANGED <<request, fi, published>>
          /\ Newest' = Newest /\ scan.pc = "rest"
      BY <1>1, <2>6, SetFacts, SetStep DEF Newest
    <3>2. CASE Newest.pc = "copy"
      BY <3>1, <3>2 DEF Told
    <3>3. CASE p = q /\ Newest.pc # "copy"
      <4>1. ToCall(p)'
        BY <1>0, <1>1, <2>6, <3>3, SetToCall
      <4> QED
        BY <4>1 DEF Told
    <3>4. CASE p # q
      <4>1. fileCache'[p] = fileCache[p]
        BY <1>1, <2>6, <3>4, SetStep
      <4> QED
        BY <1>0, <2>0, <3>1, <4>1, ReachesKept DEF Told, ToCall
    <3> QED
      BY <3>2, <3>3, <3>4
  <2>7. ASSUME NEW n \in Listener, Register(n) PROVE Told(p)'
    <3>1. /\ UNCHANGED <<fileCache, scan, created, beside>> /\ UNCHANGED <<request, fi, published>>
      BY <2>7 DEF Register, scanner, threads, master
    <3>2. Others(n) /\ export'[n].pc = "loop" /\ export'[n].todo = {q \in Path : fileCache[q] # None}
      BY <1>1, <2>7, RegisterStep
    <3>3. CASE n = created
      <4>1. Newest'.pc = "loop" /\ p \in Newest'.todo
        BY <3>1, <3>2, <3>3 DEF Newest
      <4> QED
        BY <4>1 DEF Told
    <3>4. CASE n # created
      <4>1. Newest' = Newest
        BY <1>1, <3>1, <3>2, <3>4, NewestKept
      <4>2. ~CallListener
        BY <1>1, <2>7, <3>1, CallStep
      <4> QED
        BY <2>2, <3>1, <4>1, <4>2, ReachesKept
    <3> QED
      BY <3>3, <3>4
  <2>8. ASSUME NEW n \in Listener, NEW q \in Path, Export(n, q) PROVE Told(p)'
    <3>1. /\ Others(n) /\ export[n].pc = "loop" /\ export'[n].pc = "send" /\ export'[n].path = q
          /\ export'[n].todo = export[n].todo \ {q}
      BY <1>1, <2>8, ExportStep
    <3>2. UNCHANGED <<fileCache, scan, created, beside>>
      BY <2>8 DEF Export, scanner, lists, threads
    <3>3. Reaches(p) => Reaches(p)'
      BY <1>1, <2>8, PointerReaches
    <3>4. ~CallListener
      BY <1>1, <3>2, CallStep
    <3>5. CASE n # created
      <4>1. Newest' = Newest
        BY <1>1, <3>1, <3>2, <3>5, NewestKept
      <4> QED
        BY <2>2, <3>2, <3>3, <3>4, <4>1
    <3>6. CASE n = created
      <4>1. /\ Newest.pc = "loop" /\ Newest'.pc = "send" /\ Newest'.path = q
            /\ Newest'.todo = Newest.todo \ {q}
        BY <3>1, <3>2, <3>6 DEF Newest
      <4> QED
        BY <1>0, <2>0, <2>1, <3>2, <3>3, <3>4, <4>1 DEF Told
    <3> QED
      BY <3>5, <3>6
  <2>9. ASSUME NEW n \in Listener, NEW t \in Thread, FromExport(n, t) PROVE Told(p)'
    <3>1. UNCHANGED <<fileCache, scan, created, fi, published>>
      BY <2>9 DEF FromExport, scanner, lists, master
    <3>2. /\ Others(n) /\ export[n].pc = "send" /\ export'[n].pc = "loop"
          /\ export'[n].todo = export[n].todo
      BY <1>1, <2>9, FromExportStep
    <3>3. Hand(t, export[n].path, None, n) /\ export[n].path \in Path /\ None \in Infos /\ n \in 0 .. MaxListener
      BY <1>1, <2>9, FromExportHands
    <3>4. fi[n] # None /\ n # 0
      BY <1>1, <3>2 DEF FileInv, Listener
    <3>5. CASE p = export[n].path
      <4>1. Reaches(p)'
        BY <1>1, <3>1, <3>3, <3>4, <3>5, HandReaches
      <4> QED
        BY <4>1 DEF Told
    <3>6. CASE p # export[n].path
      <4>1. beside'[p] = beside[p]
        BY <1>1, <3>3, <3>6, HandFacts
      <4>2. Reaches(p) => Reaches(p)'
        BY <1>1, <3>1, <3>3, <3>6, HandOther
      <4>3. ~CallListener
        BY <1>1, <3>1, CallStep
      <4>4. CASE n # created
        <5>1. Newest' = Newest
          BY <1>1, <3>1, <3>2, <4>4, NewestKept
        <5> QED
          BY <2>2, <3>1, <4>1, <4>2, <4>3, <5>1
      <4>5. CASE n = created
        <5>1. Newest.pc = "send" /\ Newest.path # p /\ Newest'.pc = "loop" /\ Newest'.todo = Newest.todo
          BY <3>1, <3>2, <3>6, <4>5 DEF Newest
        <5> QED
          BY <1>0, <2>0, <2>1, <3>1, <4>1, <4>2, <4>3, <5>1 DEF Told
      <4> QED
        BY <4>4, <4>5
    <3> QED
      BY <3>5, <3>6
  <2>10. ASSUME NEW n \in Listener, ExportDone(n) PROVE Told(p)'
    <3>1. UNCHANGED <<fileCache, scan, created, beside>> /\ UNCHANGED <<request, fi, published>> /\ Others(n)
      BY <1>1, <2>10, ExportDoneStep DEF ExportDone, scanner, lists, master
    <3>2. ~CallListener
      BY <1>1, <3>1, CallStep
    <3>3. CASE n # created
      BY <1>1, <2>2, <3>1, <3>2, <3>3, NewestKept, ReachesKept
    <3>4. CASE n = created
      <4>1. Newest.pc = "loop" /\ Newest.todo = {}
        BY <1>1, <2>10, <3>4, NewestEnds
      <4> QED
        BY <1>0, <2>0, <2>1, <3>1, <3>2, <4>1, ReachesKept DEF Told
    <3> QED
      BY <3>3, <3>4
  <2>11. CASE Elsewhere
    <3>1. UNCHANGED <<fileCache, scan, beside>> /\ Newest' = Newest
      BY <2>11, ElsewhereFacts DEF Newest
    <3>2. ~CallListener
      BY <1>1, <3>1, CallStep
    <3>3. ASSUME NEW t \in Thread, Send(t) PROVE Told(p)'
      BY <1>1, <2>0, <2>2, <3>1, <3>2, <3>3, SentReaches
    <3>4. CASE UNCHANGED pvars
      BY <2>2, <3>1, <3>2, <3>4, ReachesKept DEF pvars, threads, master
    <3> QED
      BY <1>3, <2>11, <3>3, <3>4, SessionKept DEF Elsewhere
  <2> QED
    BY Steps, <1>3, <2>3, <2>4, <2>5, <2>6, <2>7, <2>8, <2>9, <2>10, <2>11 DEF Reconnecting
<1> QED
  BY <1>2, <1>3 DEF Reconnecting

\* For any number of threads, of changes and of reconnects by whichever
\* goroutines, the master that the peer is signed in to knows of every file the
\* peer has, but for a file whose last request overtook a deletion: a request
\* that was lost with a connection, or sent before the master forgot the peer, is
\* made up for by the export that follows (src/server.go: SetFile,
\* startSetFileThreads and the callback of a new connection).
THEOREM PublishedAlwaysAll == PublishSpec => []PublishedAll
<1>1. PublishInit => KnownInv
  BY DEF PublishInit, KnownInv, Nothing
<1>2. Base /\ KnownInv => PublishedAll
  <2> SUFFICES ASSUME Base, KnownInv, ~overtaken, Settled,
                      NEW p \in Path, fileCache[p] # None, None \notin beside[p]
               PROVE  published[p] # None
    BY DEF PublishedAll
  <2>1. Told(p)
    BY DEF KnownInv, Settled
  <2>2. Newest.pc = "rest" /\ scan.pc = "rest"
    BY DEF Settled, Handled, Newest, Base, PublishTypeInv, ListType
  <2>3. Reaches(p) /\ Pending(p) = {}
    BY <2>1, <2>2 DEF Told, ToCall, Settled, Pending
  <2> QED
    BY <2>3 DEF Reaches
<1> QED
  BY InitBase, NextBase, NextKnownInv, <1>1, <1>2, PTL DEF PublishSpec

-----------------------------------------------------------------------------
\* The time before the first reconnect: no run of the callback, and one listener.
LEMMA FirstBefore ==
  ASSUME Base, [PublishNext]_pvars, created' = 1
  PROVE  created = 1 /\ (Scanning \/ (\E p \in Path, h \in Infos : Set(p, h)) \/ Elsewhere)
<1>0. PublishTypeInv /\ LiveInv /\ created \in Nat /\ created >= 1
  BY DEF Base, PublishTypeInv, ListType, Listener
<1>1. \A g \in Caller : ~Reconnect(g)
  BY <1>0 DEF Reconnect
<1>2. created = 1
  <2>1. created' = created
    <3>1. CASE Scanning
      BY <3>1, ScanningFacts
    <3>2. CASE Elsewhere
      BY <3>2, ElsewhereFacts
    <3> QED
      BY Steps, <1>1, <3>1, <3>2 DEF Scanning, Set, Register, ExportDone, Export, FromExport, lists
  <2> QED
    BY <2>1
<1>3. \A n \in Listener : export[n].pc = "rest"
  BY <1>0, <1>2 DEF LiveInv, Listener
<1>4. \A n \in Listener : ~Register(n) /\ ~ExportDone(n)
  BY <1>3 DEF Register, ExportDone
<1>5. \A n \in Listener : (\A p \in Path : ~Export(n, p)) /\ (\A t \in Thread : ~FromExport(n, t))
  BY <1>3 DEF Export, FromExport
<1> QED
  BY Steps, <1>1, <1>2, <1>4, <1>5 DEF Scanning

\* The last request for p: what it says of p does not change with other steps.
LEMMA PublishedKept ==
  ASSUME NEW p \in Path, PublishedAs(p), UNCHANGED <<request, fi>>, beside'[p] = beside[p],
         published'[p] = published[p], Latest(p)' = Latest(p)
  PROVE  PublishedAs(p)'
<1>1. Pending(p)' = Pending(p) /\ \A t \in Thread : InfoOf(request[t])' = InfoOf(request[t])
  BY DEF Pending, InfoOf
<1> QED
  BY <1>1 DEF PublishedAs

LEMMA NextFirstInv == Base /\ FirstInv /\ [PublishNext]_pvars => FirstInv'
<1> SUFFICES ASSUME Base, FirstInv, [PublishNext]_pvars, created' = 1
             PROVE  /\ OneListener'
                    /\ \A h \in Hash, p \in Path : IndexedAs(h, p)'
                    /\ session' = "up" => \A p \in Path : PublishedAs(p)'
  BY DEF FirstInv
<1> DEFINE Goal == /\ OneListener'
                   /\ \A h \in Hash, p \in Path : IndexedAs(h, p)'
                   /\ session' = "up" => \A p \in Path : PublishedAs(p)'
<1>0. /\ OneListener
      /\ \A h \in Hash, p \in Path : IndexedAs(h, p)
      /\ session = "up" => \A p \in Path : PublishedAs(p)
  BY FirstBefore DEF FirstInv
<1>1. PublishTypeInv /\ AnnounceInv /\ fileCache \in [Path -> Infos] /\ IndexType
  BY DEF Base, PublishTypeInv, CacheType
<1>2. Len(listeners) = 1
  BY <1>0 DEF OneListener
<1>3. CASE DropListener \/ StoreSlice
  BY <1>0, <1>3 DEF OneListener, DropListener, StoreSlice
<1>4. CASE CallListener
  <2>1. /\ scan'.pc = "send" /\ scan'.path = scan.path /\ scan'.old = scan.old
        /\ scan.pc = "loop" /\ scan.path \in Path /\ scan.i \in Nat \ {0}
    BY <1>1, <1>4, CallStep, ScanFacts DEF SameFile, PublishTypeInv
  <2>2. Calling /\ ~Calling'
    BY <1>2, <1>4, <2>1 DEF Calling, CallListener
  <2>3. UNCHANGED <<fileCache, listeners, cancelled, beside>> /\ UNCHANGED <<request, fi, published, session>>
    BY <1>4 DEF CallListener, lists, threads, master
  <2>4. hashToPath' = Indexed(scan.path, scan.info, scan.old) /\ scan.info = fileCache[scan.path]
    BY <1>1, <1>4, <2>1 DEF CallListener, AnnounceInv
  <2>5. OneListener'
    BY <1>0, <2>1, <2>3 DEF OneListener
  <2>6. ASSUME NEW h \in Hash, NEW p \in Path PROVE IndexedAs(h, p)'
    <3>1. IndexedAs(h, p)
      BY <1>0
    <3>2. CASE p = scan.path
      <4>1. p \in hashToPath'[h] <=> h = scan.info \/ (h # scan.old /\ p \in hashToPath[h])
        BY <1>1, <2>1, <2>4, <3>2, IndexedFacts
      <4>2. p \in hashToPath[h] <=> h = scan.old
        BY <2>2, <3>1, <3>2 DEF IndexedAs
      <4> QED
        BY <2>2, <2>3, <2>4, <3>2, <4>1, <4>2 DEF IndexedAs
    <3>3. CASE p # scan.path
      <4>1. p \in hashToPath'[h] <=> p \in hashToPath[h]
        BY <1>1, <2>1, <2>4, <3>3, IndexedFacts
      <4> QED
        BY <2>2, <2>3, <3>1, <3>3, <4>1 DEF IndexedAs
    <3> QED
      BY <3>2, <3>3
  <2>7. ASSUME session' = "up", NEW p \in Path PROVE PublishedAs(p)'
    <3>1. PublishedAs(p) /\ Latest(p)' = Latest(p)
      BY <1>0, <2>1, <2>2, <2>3, <2>7 DEF Latest
    <3> QED
      BY <2>3, <3>1, PublishedKept
  <2> QED
    BY <2>5, <2>6, <2>7
<1>5. CASE SetDone
  <2>1. ~Calling /\ scan.pc # "send" /\ scan'.pc = "rest" /\ ~Calling'
    BY <1>2, <1>5 DEF SetDone, Calling, Resting
  <2>2. /\ UNCHANGED <<fileCache, hashToPath, listeners, cancelled, beside>>
        /\ UNCHANGED <<request, fi, published, session>>
    BY <1>5 DEF SetDone, lists, threads, master
  <2>3. OneListener'
    BY <1>0, <2>1, <2>2 DEF OneListener
  <2>4. ASSUME NEW h \in Hash, NEW p \in Path PROVE IndexedAs(h, p)'
    BY <1>0, <2>1, <2>2 DEF IndexedAs
  <2>5. ASSUME session' = "up", NEW p \in Path PROVE PublishedAs(p)'
    <3>1. PublishedAs(p) /\ Latest(p)' = Latest(p)
      BY <1>0, <2>1, <2>2, <2>5 DEF Latest
    <3> QED
      BY <2>2, <3>1, PublishedKept
  <2> QED
    BY <2>3, <2>4, <2>5
<1>6. ASSUME NEW s \in Thread, FromScanner(s) PROVE Goal
  <2>1. /\ scan.pc = "send" /\ scan'.pc = "loop" /\ scan'.i = scan.i + 1
        /\ scan.i \in Nat \ {0} /\ scan.info = fileCache[scan.path]
    BY <1>1, <1>6, FromStep, ScanFacts DEF PublishTypeInv, AnnounceInv
  <2>2. ~Calling /\ ~Calling'
    BY <2>1 DEF Calling
  <2>3. UNCHANGED <<fileCache, hashToPath, listeners, cancelled>> /\ UNCHANGED <<fi, published, session>>
    BY <1>6 DEF FromScanner, lists, master
  <2>4. OneListener'
    BY <1>0, <2>1, <2>3 DEF OneListener
  <2>5. ASSUME NEW h \in Hash, NEW p \in Path PROVE IndexedAs(h, p)'
    BY <1>0, <2>2, <2>3 DEF IndexedAs
  <2>6. ASSUME session' = "up", NEW p \in Path PROVE PublishedAs(p)'
    <3>1. Hand(s, scan.path, scan.info, 0) /\ scan.path \in Path /\ scan.info \in Infos /\ 0 \in 0 .. MaxListener
      BY <1>1, <1>6, FromScannerHands
    <3>2. PublishedAs(p) /\ Latest(p)' = fileCache[p]
      BY <1>0, <2>1, <2>2, <2>3, <2>6 DEF Latest
    <3>3. CASE p = scan.path
      <4> SUFFICES ASSUME beside'[p] = {} PROVE PublishedAs(p)'
        BY DEF PublishedAs
      <4>1. request'[s].info = scan.info /\ request'[s].of = 0 /\ beside'[p] = {InfoOf(request[u]) : u \in Pending(p)}
        BY <1>1, <3>1, <3>3, HandFacts
      <4>2. Pending(p) = {}
        BY <4>1
      <4>3. Pending(p)' = {s}
        BY <1>1, <3>1, <3>3, <4>2, PendingHand
      <4>4. InfoOf(request[s])' = fileCache[p]
        BY <2>1, <3>3, <4>1 DEF InfoOf
      <4> QED
        BY <3>2, <4>3, <4>4 DEF PublishedAs
    <3>4. CASE p # scan.path
      <4>1. beside'[p] = beside[p] /\ Pending(p)' = Pending(p)
        BY <1>1, <3>1, <3>4, HandFacts, PendingHand
      <4>2. Latest(p) = fileCache[p]
        BY <2>2, <3>4 DEF Latest
      <4>3. request[s] = None /\ \A u \in Thread \ {s} : request'[u] = request[u]
        BY <1>1, <3>1, HandFacts
      <4>4. ASSUME NEW t \in Thread, Pending(p) = {t} PROVE InfoOf(request[t])' = InfoOf(request[t])
        <5>1. t # s
          BY <4>3, <4>4 DEF Pending
        <5> QED
          BY <2>3, <4>3, <5>1 DEF InfoOf
      <4> QED
        BY <2>3, <3>2, <4>1, <4>2, <4>4 DEF PublishedAs
    <3> QED
      BY <3>3, <3>4
  <2> QED
    BY <2>4, <2>5, <2>6
<1>7. ASSUME NEW q \in Path, NEW x \in Infos, Set(q, x) PROVE Goal
  <2>1. /\ scan.pc = "rest" /\ scan'.pc = "loop" /\ scan'.i = 1 /\ scan'.path = q
        /\ scan'.old = fileCache[q]
    BY <1>1, <1>7, SetStep
  <2>2. ~Calling /\ Calling'
    BY <2>1 DEF Calling
  <2>3. UNCHANGED <<hashToPath, listeners, cancelled, beside>> /\ UNCHANGED <<request, fi, published, session>>
    BY <1>7, SetFacts
  <2>4. \A p \in Path \ {q} : fileCache'[p] = fileCache[p]
    BY <1>1, <1>7, SetStep
  <2>5. OneListener'
    BY <1>0, <2>1, <2>3 DEF OneListener
  <2>6. ASSUME NEW h \in Hash, NEW p \in Path PROVE IndexedAs(h, p)'
    BY <1>0, <2>1, <2>2, <2>3, <2>4 DEF IndexedAs
  <2>7. ASSUME session' = "up", NEW p \in Path PROVE PublishedAs(p)'
    <3>1. PublishedAs(p) /\ Latest(p)' = Latest(p)
      BY <1>0, <2>1, <2>2, <2>3, <2>4, <2>7 DEF Latest
    <3> QED
      BY <2>3, <3>1, PublishedKept
  <2> QED
    BY <2>5, <2>6, <2>7
<1>8. CASE Elsewhere
  <2>1. UNCHANGED <<scan, fileCache, hashToPath, listeners, cancelled, fi, beside>>
    BY <1>8, ElsewhereFacts
  <2>2. OneListener'
    BY <1>0, <2>1 DEF OneListener
  <2>3. Calling' <=> Calling
    BY <2>1 DEF Calling
  <2>4. ASSUME NEW h \in Hash, NEW p \in Path PROVE IndexedAs(h, p)'
    BY <1>0, <2>1, <2>3 DEF IndexedAs
  <2>5. ASSUME session' = "up", NEW p \in Path PROVE PublishedAs(p)'
    <3>1. ~Reconnecting
      BY <1>1, ReconnectStep, ElsewhereFacts, <1>8 DEF Reconnecting, PublishTypeInv, ListType, Listener
    <3>2. session = "up" /\ ~Cut /\ (\A g \in Caller : ~DialOnly(g)) /\ (\A t \in Thread : ~Fail(t))
      BY <2>5, <3>1, SessionKept
    <3>3. PublishedAs(p) /\ Latest(p)' = Latest(p)
      BY <1>0, <2>1, <2>3, <3>2 DEF Latest
    <3>4. CASE UNCHANGED pvars
      BY <2>1, <3>3, <3>4, PublishedKept DEF pvars, threads, master
    <3>5. ASSUME NEW s \in Thread, Send(s) PROVE PublishedAs(p)'
      <4> SUFFICES ASSUME beside[p] = {} PROVE PublishedAs(p)'
        BY <2>1 DEF PublishedAs
      <4>1. /\ \A u \in Thread \ {s} : request'[u] = request[u]
            /\ Pending(p)' = Pending(p) \ {s}
            /\ published'[request[s].path] = InfoOf(request[s])
            /\ p # request[s].path => published'[p] = published[p] /\ s \notin Pending(p)
        BY <1>1, <3>2, <3>5, SendFacts
      <4>2. CASE Pending(p) = {s} /\ InfoOf(request[s]) = Latest(p)
        <5>1. p = request[s].path /\ Pending(p)' = {}
          BY <4>1, <4>2
        <5> QED
          BY <3>3, <4>1, <4>2, <5>1 DEF PublishedAs
      <4>3. CASE s \notin Pending(p)
        <5>1. p # request[s].path
          BY <3>5, <4>3 DEF Send, Pending
        <5>2. \A t \in Thread : Pending(p) = {t} => InfoOf(request[t])' = InfoOf(request[t])
          BY <2>1, <4>1, <4>3 DEF InfoOf
        <5>3. Pending(p)' = Pending(p) /\ published'[p] = published[p]
          BY <4>1, <4>3, <5>1
        <5> QED
          BY <3>3, <5>2, <5>3 DEF PublishedAs
      <4> QED
        BY <3>3, <4>2, <4>3 DEF PublishedAs
    <3> QED
      BY <1>8, <3>2, <3>4, <3>5 DEF Elsewhere
  <2> QED
    BY <2>2, <2>4, <2>5
<1> QED
  BY FirstBefore, <1>3, <1>4, <1>5, <1>6, <1>7, <1>8 DEF Scanning

\* Until the first reconnect the index has every file under its present hash
\* and nothing else, whatever changes the scanner announces; and, with any number
\* of threads, the master has just what the cache has of every file whose last
\* change was handed over when the ones before it had been sent
\* (src/server.go: SetFile, startSetFileThreads).
THEOREM AlwaysExactAtFirst == PublishSpec => []ExactAtFirst
<1>1. PublishInit => FirstInv
  <2> SUFFICES ASSUME PublishInit PROVE FirstInv
    OBVIOUS
  <2>1. scan.pc = "rest" /\ ~Calling
    BY DEF PublishInit, Resting, Calling
  <2>2. \A p \in Path : fileCache[p] = None /\ published[p] = None
    BY DEF PublishInit, Nothing
  <2>3. \A p \in Path : Pending(p) = {}
    BY DEF PublishInit, Pending
  <2>4. OneListener
    BY <2>1 DEF PublishInit, OneListener
  <2>5. ASSUME NEW h \in Hash, NEW p \in Path PROVE IndexedAs(h, p)
    <3>1. hashToPath[h] = {} /\ h # None
      BY PublishAssumption DEF PublishInit
    <3> QED
      BY <2>1, <2>2, <3>1 DEF IndexedAs
  <2>6. ASSUME NEW p \in Path PROVE PublishedAs(p)
    BY <2>1, <2>2, <2>3 DEF PublishedAs, Latest
  <2> QED
    BY <2>4, <2>5, <2>6 DEF FirstInv
<1>2. Base /\ FirstInv => ExactAtFirst
  <2> SUFFICES ASSUME Base, FirstInv, created = 1, Handled
               PROVE  /\ \A h \in Hash : hashToPath[h] = {p \in Path : fileCache[p] = h}
                      /\ Settled => \A p \in Path : beside[p] = {} => published[p] = fileCache[p]
    BY DEF ExactAtFirst, Settled
  <2>1. ~Calling /\ scan.pc = "rest"
    BY DEF Calling, Handled
  <2>2. ASSUME NEW h \in Hash PROVE hashToPath[h] = {p \in Path : fileCache[p] = h}
    <3>1. hashToPath[h] \subseteq Path
      BY DEF Base, PublishTypeInv, IndexType
    <3>2. \A p \in Path : p \in hashToPath[h] <=> h = fileCache[p]
      BY <2>1 DEF FirstInv, IndexedAs
    <3> QED
      BY <3>1, <3>2
  <2>3. ASSUME Settled, NEW p \in Path, beside[p] = {} PROVE published[p] = fileCache[p]
    <3>1. PublishedAs(p) /\ Latest(p) = fileCache[p]
      BY <2>1, <2>3 DEF FirstInv, Settled, Latest
    <3>2. Pending(p) = {}
      BY <2>3 DEF Settled, Pending
    <3>3. \A t \in Thread : Pending(p) # {t}
      BY <3>2
    <3> QED
      BY <2>3, <3>1, <3>3 DEF PublishedAs
  <2> QED
    BY <2>2, <2>3
<1> QED
  BY InitBase, NextBase, NextFirstInv, <1>1, <1>2, PTL DEF PublishSpec
=============================================================================
