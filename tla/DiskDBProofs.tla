---------------------------- MODULE DiskDBProofs ----------------------------
(***************************************************************************)
(* Proofs about BoltDB for any peers, users, paths and contents, any       *)
(* number of clean-ups at once and lists of any length; and about SqliteDB *)
(* for any peers, users, paths and contents.                               *)
(***************************************************************************)
EXTENDS BoltDB, SqliteDB, SequenceTheorems, TLAPS

\* A peer's bucket names files of its own user only.
OwnFiles == \A o \in Owner : byOwner[o] \subseteq PathsOf(o)

\* So does the list a clean-up works off: it deletes nothing of another user's.
TodoOwn ==
  \A c \in Handler :
    todo[c] # {} => cleaner[c] \in Owner /\ todo[c] \subseteq PathsOf(cleaner[c])

\* What is stored at a path is a content that path can have.
StoredContent == \A p \in Path : files[p] # None => files[p] \in Content[p]

\* The conjuncts of TypeOK about the buckets, and those about the clean-ups.
BucketType ==
  /\ SharedTypeOK
  /\ dirs \subseteq Dir \ {Root}
  /\ files \in [Path -> Hash \cup {None}]
  /\ \A d \in dirs : d \in Path => files[d] = None
  /\ byOwner \in [Owner -> SUBSET Path]
  /\ byHash \in [Hash -> [Owner -> Nat]]

CleanUpType ==
  /\ cleaner \in [Handler -> Owner \cup {None}]
  /\ todo \in [Handler -> SUBSET Path]
  /\ up \in BOOLEAN

\* What a transaction of SetFile preserves ...
BucketInv ==
  /\ BucketType
  /\ DirsExact
  /\ OwnFiles
  /\ StoredContent
  /\ IndexExact
  /\ HashListed

\* ... and, with the clean-ups, the inductive invariant.
BoltInv == BucketInv /\ CleanUpType /\ TodoOwn

-----------------------------------------------------------------------------
(* Paths and directories.                                                  *)

\* A path is no directory on its own way, and those are below the root.
LEMMA AncestorsBelow ==
  ASSUME NEW p \in Path
  PROVE  Ancestors(p) \subseteq Dir \ {Root} /\ p \notin Ancestors(p)
<1>1. p \in Seq(Name) /\ Len(p) \in Nat /\ Len(p) >= 2
  BY PathAssumption
<1>2. \A i \in 1 .. Len(p) - 1 : Len(SubSeq(p, 1, i)) = i
  BY <1>1
<1>3. Len(<< >>) = 0
  OBVIOUS
<1>4. Ancestors(p) \subseteq Dir
  BY DEF Dir
<1> QED
  BY <1>1, <1>2, <1>3, <1>4 DEF Ancestors, Root

\* A directory on the way to a directory on the way to p is on the way to p.
LEMMA AncestorsTransitive ==
  ASSUME NEW p \in Path, NEW d \in Ancestors(p), NEW a \in Ancestors(d)
  PROVE  a \in Ancestors(p)
<1>1. p \in Seq(Name) /\ Len(p) \in Nat
  BY PathAssumption
<1>2. PICK i \in 1 .. Len(p) - 1 : d = SubSeq(p, 1, i)
  BY DEF Ancestors
<1>3. Len(d) = i /\ d \in Seq(Name)
  BY <1>1, <1>2
<1>4. PICK j \in 1 .. i - 1 : a = SubSeq(d, 1, j)
  BY <1>3 DEF Ancestors
<1>5. a = SubSeq(p, 1, j)
  <2>1. /\ a \in Seq(Name) /\ SubSeq(p, 1, j) \in Seq(Name)
        /\ Len(a) = j /\ Len(SubSeq(p, 1, j)) = j
    BY <1>1, <1>3, <1>4
  <2>2. \A k \in 1 .. j : a[k] = SubSeq(p, 1, j)[k]
    BY <1>1, <1>2, <1>3, <1>4
  <2> QED
    BY <2>1, <2>2, SeqEqual
<1> QED
  BY <1>1, <1>4, <1>5 DEF Ancestors

-----------------------------------------------------------------------------
(* The two transactions of SetFile.                                        *)

\* Publishing a file keeps all that is said of the buckets.
LEMMA PutKeeps ==
  ASSUME BucketInv,
         NEW o \in Owner, NEW p \in PathsOf(o), NEW h \in Content[p],
         ~Blocked(p), ~IsBucket(p), Put(o, p, h), Offer(o, p, h)
  PROVE  BucketInv'
<1>1. /\ p \in Path /\ h \in Hash /\ h # None
      /\ Ancestors(p) \subseteq Dir \ {Root} /\ p \notin Ancestors(p)
  BY ContentAssumption, AncestorsBelow DEF PathsOf
<1>2. /\ shared' = [shared EXCEPT ![o][p] = h]
      /\ shared \in [Owner -> [Path -> Hash \cup {None}]]
      /\ files' = [files EXCEPT ![p] = h]
      /\ files \in [Path -> Hash \cup {None}]
  BY DEF Offer, Put, BucketInv, BucketType, SharedTypeOK
<1>3. BucketType'
  <2>1. shared' \in [Owner -> [Path -> Hash \cup {None}]]
    BY <1>1, <1>2
  <2>2. dirs' \subseteq Dir \ {Root} /\ files' \in [Path -> Hash \cup {None}]
    BY <1>1, <1>2 DEF Put, BucketInv, BucketType
  \* No directory on the way to p is a stored file, and p is no bucket.
  <2>3. \A d \in dirs' : d \in Path => files'[d] = None
    BY <1>1, <1>2 DEF Put, Blocked, IsBucket, BucketInv, BucketType
  <2>4. byOwner' \in [Owner -> SUBSET Path]
    BY <1>1 DEF Put, BucketInv, BucketType
  <2>5. byHash' \in [Hash -> [Owner -> Nat]]
    BY <1>1 DEF Put, BucketInv, BucketType
  <2> QED
    BY <2>1, <2>2, <2>3, <2>4, <2>5 DEF BucketType, SharedTypeOK
<1>4. DirsExact'
  <2>1. {q \in Path : files'[q] # None} = {q \in Path : files[q] # None} \cup {p}
    BY <1>1, <1>2
  <2>2. dirs' = dirs \cup Ancestors(p)
    BY DEF Put
  <2> QED
    BY <2>1, <2>2 DEF BucketInv, DirsExact
<1>5. OwnFiles'
  BY <1>1 DEF Put, OwnFiles, BucketInv, BucketType, PathsOf
<1>6. StoredContent'
  BY <1>1, <1>2 DEF StoredContent, BucketInv
<1>7. IndexExact'
  <2> SUFFICES ASSUME OnePerUser, NEW u \in Owner, NEW q \in PathsOf(u)
               PROVE  /\ q \in byOwner'[u] <=> files'[q] # None
                      /\ files'[q] = shared'[u][q]
    BY DEF IndexExact, PathsOf
  <2>1. q \in Path
    BY DEF PathsOf
  <2>2. /\ q \in byOwner[u] <=> files[q] # None
        /\ files[q] = shared[u][q]
    BY DEF BucketInv, IndexExact
  <2>3. byOwner' = [byOwner EXCEPT ![o] = @ \cup {p}] /\ byOwner \in [Owner -> SUBSET Path]
    BY DEF Put, BucketInv, BucketType
  <2>4. CASE q = p
    \* Only one peer may write p.
    <3>1. u = o
      BY <2>4 DEF OnePerUser, PathsOf
    <3> QED
      BY <1>1, <1>2, <2>1, <2>3, <2>4, <3>1
  <2>5. CASE q # p
    BY <1>1, <1>2, <2>1, <2>2, <2>3, <2>5
  <2> QED
    BY <2>4, <2>5
<1>8. HashListed'
  <2> SUFFICES ASSUME NEW u \in Owner, NEW q \in Path,
                      shared'[u][q] # None, Alone(q, shared'[u][q])
               PROVE  byHash'[shared'[u][q]][u] > 0
    BY DEF HashListed, Alone
  <2> DEFINE k == shared'[u][q]
  <2>1. byHash' = [byHash EXCEPT ![h][o] = @ + 1] /\ byHash \in [Hash -> [Owner -> Nat]]
    BY DEF Put, BucketInv, BucketType
  <2>2. k \in Hash
    BY <1>1, <1>2
  <2>3. byHash'[k][u] >= byHash[k][u] /\ byHash[k][u] \in Nat /\ byHash'[h][o] > 0
    BY <1>1, <2>1, <2>2
  <2>4. CASE u = o /\ q = p
    BY <1>1, <1>2, <2>3, <2>4
  <2>5. CASE ~(u = o /\ q = p)
    <3>1. k = shared[u][q]
      BY <1>1, <1>2, <2>5
    <3>2. byHash[k][u] > 0
      BY <3>1 DEF BucketInv, HashListed
    <3> QED
      BY <2>1, <2>2, <2>3, <3>2
  <2> QED
    BY <2>4, <2>5
<1> QED
  BY <1>3, <1>4, <1>5, <1>6, <1>7, <1>8 DEF BucketInv

\* The upward deletion takes exactly the directories that no other file needs.
LEMMA DeleteDirsExact ==
  ASSUME BucketType, DirsExact, NEW p \in Path, files[p] # None,
         files' = [files EXCEPT ![p] = None], dirs' = dirs \ Emptied(p)
  PROVE  DirsExact'
<1>1. \A q \in Path : files'[q] # None <=> files[q] # None /\ q # p
  BY DEF BucketType
\* A bucket that stays is on the way to another file, also when it is kept
\* because of a bucket in it.
<1>2. ASSUME NEW a \in dirs, a \notin Emptied(p)
      PROVE  \E q \in Path : files'[q] # None /\ a \in Ancestors(q)
  <2>1. PICK q \in Path : files[q] # None /\ a \in Ancestors(q)
    BY DEF DirsExact
  <2>2. CASE q # p
    BY <1>1, <2>1, <2>2
  <2>3. CASE \E r \in Path : files[r] # None /\ a \in Ancestors(r) /\ r # p
    BY <1>1, <2>3
  <2>4. CASE \E d \in dirs : a \in Ancestors(d) /\ d \notin Ancestors(p)
    <3>1. PICK d \in dirs : a \in Ancestors(d) /\ d \notin Ancestors(p)
      BY <2>4
    <3>2. PICK r \in Path : files[r] # None /\ d \in Ancestors(r)
      BY <3>1 DEF DirsExact
    <3>3. a \in Ancestors(r) /\ r # p
      BY <3>1, <3>2, AncestorsTransitive
    <3> QED
      BY <1>1, <3>2, <3>3
  <2> QED
    BY <1>2, <2>1, <2>2, <2>3, <2>4 DEF Emptied
\* A directory on the way to another file is none of them.
<1>3. ASSUME NEW q \in Path, files'[q] # None, NEW a \in Ancestors(q)
      PROVE  a \in dirs /\ a \notin Emptied(p)
  BY <1>1, <1>3 DEF DirsExact, Emptied
<1> QED
  BY <1>2, <1>3 DEF DirsExact

\* Deleting a stored file keeps all that is said of the buckets.
LEMMA DeleteKeeps ==
  ASSUME BucketInv, NEW o \in Owner, NEW p \in PathsOf(o), files[p] # None,
         Delete(o, p), Withdraw(o, p)
  PROVE  BucketInv'
<1>1. p \in Path /\ files[p] \in Hash /\ files[p] \in Content[p]
  BY DEF PathsOf, BucketInv, BucketType, StoredContent
<1>2. /\ shared' = [shared EXCEPT ![o][p] = None]
      /\ shared \in [Owner -> [Path -> Hash \cup {None}]]
      /\ files' = [files EXCEPT ![p] = None]
      /\ files \in [Path -> Hash \cup {None}]
      /\ byOwner' = [byOwner EXCEPT ![o] = @ \ {p}]
      /\ byOwner \in [Owner -> SUBSET Path]
      /\ byHash' = [byHash EXCEPT ![files[p]][o] = 0]
      /\ byHash \in [Hash -> [Owner -> Nat]]
  BY DEF Withdraw, Delete, Without, BucketInv, BucketType, SharedTypeOK
<1>3. BucketType'
  <2>1. shared' \in [Owner -> [Path -> Hash \cup {None}]]
    BY <1>1, <1>2
  <2>2. files' \in [Path -> Hash \cup {None}] /\ byOwner' \in [Owner -> SUBSET Path]
    BY <1>1, <1>2
  <2>3. dirs' \subseteq Dir \ {Root} /\ \A d \in dirs' : d \in Path => files'[d] = None
    BY <1>1, <1>2 DEF Delete, BucketInv, BucketType
  <2>4. byHash' \in [Hash -> [Owner -> Nat]]
    BY <1>1, <1>2
  <2> QED
    BY <2>1, <2>2, <2>3, <2>4 DEF BucketType, SharedTypeOK
<1>4. DirsExact'
  BY <1>1, <1>2, DeleteDirsExact DEF BucketInv, Delete
<1>5. OwnFiles'
  BY <1>1, <1>2 DEF OwnFiles, BucketInv, PathsOf
<1>6. StoredContent'
  BY <1>1, <1>2 DEF StoredContent, BucketInv
<1>7. IndexExact'
  <2> SUFFICES ASSUME OnePerUser, NEW u \in Owner, NEW q \in PathsOf(u)
               PROVE  /\ q \in byOwner'[u] <=> files'[q] # None
                      /\ files'[q] = shared'[u][q]
    BY DEF IndexExact, PathsOf
  <2>1. q \in Path
    BY DEF PathsOf
  <2>2. /\ q \in byOwner[u] <=> files[q] # None
        /\ files[q] = shared[u][q]
    BY DEF BucketInv, IndexExact
  <2>3. CASE q = p
    <3>1. u = o
      BY <2>3 DEF OnePerUser, PathsOf
    <3> QED
      BY <1>1, <1>2, <2>1, <2>3, <3>1
  <2>4. CASE q # p
    BY <1>1, <1>2, <2>1, <2>2, <2>4
  <2> QED
    BY <2>3, <2>4
<1>8. HashListed'
  <2> SUFFICES ASSUME NEW u \in Owner, NEW q \in Path,
                      shared'[u][q] # None, Alone(q, shared'[u][q])
               PROVE  byHash'[shared'[u][q]][u] > 0
    BY DEF HashListed, Alone
  <2>1. shared'[u][q] = shared[u][q] /\ ~(u = o /\ q = p)
    BY <1>1, <1>2
  <2>2. byHash[shared[u][q]][u] > 0
    BY <2>1 DEF BucketInv, HashListed
  \* The file deleted here has another content if it is another file.
  <2>3. ~(files[p] = shared[u][q] /\ o = u)
    BY <1>1, <2>1 DEF Alone
  <2>4. shared[u][q] \in Hash
    BY <1>2, <2>1
  <2> QED
    BY <1>1, <1>2, <2>1, <2>2, <2>3, <2>4
<1> QED
  BY <1>3, <1>4, <1>5, <1>6, <1>7, <1>8 DEF BucketInv

-----------------------------------------------------------------------------
(* The inductive invariant.                                                *)

\* The empty buckets of a new database satisfy it.
LEMMA EmptyInv ==
  /\ Init => BoltInv
  /\ Crash => BoltInv'
<1>1. /\ NothingShared \in [Owner -> [Path -> Hash \cup {None}]]
      /\ NoFiles \in [Path -> Hash \cup {None}]
      /\ NoOwner \in [Owner -> SUBSET Path]
      /\ NoHash \in [Hash -> [Owner -> Nat]]
      /\ NoClean \in [Handler -> Owner \cup {None}]
      /\ NoTodo \in [Handler -> SUBSET Path]
  BY DEF NothingShared, NoFiles, NoOwner, NoHash, NoClean, NoTodo
<1>2. Init => BoltInv
  <2> SUFFICES ASSUME Init PROVE BoltInv
    OBVIOUS
  <2>1. BucketType /\ CleanUpType
    BY <1>1 DEF Init, BucketType, SharedTypeOK, CleanUpType
  <2>2. DirsExact /\ OwnFiles /\ StoredContent /\ TodoOwn
    BY DEF Init, DirsExact, OwnFiles, StoredContent, TodoOwn, NoFiles, NoOwner, NoTodo
  <2>3. IndexExact /\ HashListed
    BY DEF Init, IndexExact, HashListed, NoFiles, NoOwner, NothingShared, PathsOf
  <2> QED
    BY <2>1, <2>2, <2>3 DEF BoltInv, BucketInv
<1>3. Crash => BoltInv'
  <2> SUFFICES ASSUME Crash PROVE BoltInv'
    OBVIOUS
  <2>1. BucketType' /\ CleanUpType'
    BY <1>1 DEF Crash, BucketType, SharedTypeOK, CleanUpType
  <2>2. DirsExact' /\ OwnFiles' /\ StoredContent' /\ TodoOwn'
    BY DEF Crash, DirsExact, OwnFiles, StoredContent, TodoOwn, NoFiles, NoOwner, NoTodo
  <2>3. IndexExact' /\ HashListed'
    BY DEF Crash, IndexExact, HashListed, NoFiles, NoOwner, NothingShared, PathsOf
  <2> QED
    BY <2>1, <2>2, <2>3 DEF BoltInv, BucketInv
<1> QED
  BY <1>2, <1>3

\* A step that leaves the buckets alone keeps what is said of them.
LEMMA SameBuckets ==
  ASSUME BucketInv, UNCHANGED <<shared, buckets>>
  PROVE  BucketInv'
<1>1. BucketType' /\ DirsExact' /\ OwnFiles' /\ StoredContent'
  BY DEF BucketInv, buckets, BucketType, SharedTypeOK, DirsExact, OwnFiles, StoredContent
<1>2. IndexExact' /\ HashListed'
  BY DEF BucketInv, buckets, IndexExact, HashListed, Alone
<1> QED
  BY <1>1, <1>2 DEF BucketInv

\* A deletion, refused or done, keeps it, too.
LEMMA DeletionKeeps ==
  ASSUME BucketInv, NEW o \in Owner, NEW p \in PathsOf(o), Deletion(o, p)
  PROVE  BucketInv' /\ up' = up
BY SameBuckets, DeleteKeeps DEF Deletion

\* Every action preserves the invariant.
LEMMA BoltStep == BoltInv /\ [Next]_vars => BoltInv'
<1> SUFFICES ASSUME BoltInv, [Next]_vars
             PROVE  BoltInv'
  OBVIOUS
<1>0. ASSUME UNCHANGED <<cleanup, up>>
      PROVE  CleanUpType' /\ TodoOwn'
  BY <1>0 DEF cleanup, BoltInv, CleanUpType, TodoOwn
<1>1. ASSUME NEW o \in Owner, NEW p \in PathsOf(o), NEW h \in Content[p],
             SetFile(o, p, h)
      PROVE  BoltInv'
  BY <1>0, <1>1, PutKeeps DEF SetFile, BoltInv
<1>2. ASSUME NEW o \in Owner, NEW p \in PathsOf(o), SetFileFails(o, p)
      PROVE  BoltInv'
  BY <1>0, <1>2, SameBuckets DEF SetFileFails, vars, BoltInv
<1>3. ASSUME NEW o \in Owner, NEW p \in PathsOf(o), DeleteFile(o, p)
      PROVE  BoltInv'
  BY <1>0, <1>3, DeletionKeeps, EmptyInv DEF DeleteFile, BoltInv
<1>4. ASSUME NEW c \in Handler, NEW o \in Owner, PeerDisconnected(c, o)
      PROVE  BoltInv'
  <2>1. BucketInv'
    BY <1>4, SameBuckets DEF PeerDisconnected, BoltInv
  <2>2. byOwner[o] \in SUBSET Path /\ byOwner[o] \subseteq PathsOf(o)
    BY DEF BoltInv, BucketInv, BucketType, OwnFiles
  <2>3. CleanUpType'
    BY <1>4, <2>2 DEF PeerDisconnected, BoltInv, CleanUpType
  <2>4. TodoOwn'
    BY <1>4, <2>2 DEF PeerDisconnected, BoltInv, TodoOwn, CleanUpType, PathsOf
  <2> QED
    BY <2>1, <2>3, <2>4 DEF BoltInv
<1>5. ASSUME NEW c \in Handler, NEW p \in Path, CleanUp(c, p)
      PROVE  BoltInv'
  <2>1. cleaner[c] \in Owner /\ p \in PathsOf(cleaner[c])
    BY <1>5 DEF CleanUp, BoltInv, TodoOwn
  <2>2. CASE /\ Deletion(cleaner[c], p)
             /\ todo' = [todo EXCEPT ![c] = @ \ {p}]
             /\ cleaner' = Finished(c)
    <3>1. BucketInv' /\ up' = up
      BY <2>1, <2>2, DeletionKeeps DEF BoltInv
    <3>2. CleanUpType'
      BY <2>1, <2>2, <3>1 DEF Finished, BoltInv, CleanUpType
    <3>3. \A d \in Handler : todo'[d] # {} => cleaner'[d] = cleaner[d] /\ todo'[d] \subseteq todo[d]
      BY <2>2 DEF Finished, BoltInv, CleanUpType
    <3>4. TodoOwn'
      BY <3>3 DEF BoltInv, TodoOwn, PathsOf
    <3> QED
      BY <3>1, <3>2, <3>4 DEF BoltInv
  <2> QED
    BY <1>5, <2>2, EmptyInv DEF CleanUp
<1>6. CASE Restart
  BY <1>6, SameBuckets DEF Restart, cleanup, BoltInv, CleanUpType, TodoOwn
<1>7. CASE UNCHANGED vars
  BY <1>0, <1>7, SameBuckets DEF vars, BoltInv
<1> QED
  BY <1>1, <1>2, <1>3, <1>4, <1>5, <1>6, <1>7 DEF Next

\* The invariant holds of every behaviour of the database.
LEMMA BoltAlways == Spec => []BoltInv
BY EmptyInv, BoltStep, PTL DEF Spec

-----------------------------------------------------------------------------
\* The buckets always have their types, and no name is a file and a directory
\* at once.
THEOREM TypeCorrect == Spec => []TypeOK
<1>1. BoltInv => TypeOK
  BY DEF BoltInv, BucketInv, BucketType, CleanUpType, TypeOK
<1> QED
  BY <1>1, BoltAlways, PTL

\* The directory buckets are those of the stored files: the upward deletion in
\* SetFile is right for any tree and in any order of the operations.
THEOREM DirsAlwaysExact == Spec => []DirsExact
<1>1. BoltInv => DirsExact
  BY DEF BoltInv, BucketInv
<1> QED
  BY <1>1, BoltAlways, PTL

\* With one machine per user, byOwner names exactly the stored files of every
\* peer while any number of PeerDisconnected loops delete them one by one.
THEOREM IndexAlwaysExact == Spec => []IndexExact
<1>1. BoltInv => IndexExact
  BY DEF BoltInv, BucketInv
<1> QED
  BY <1>1, BoltAlways, PTL

\* The publisher of a content that no other file can have stays in the list of
\* its hash.
THEOREM HashAlwaysListed == Spec => []HashListed
<1>1. BoltInv => HashListed
  BY DEF BoltInv, BucketInv
<1> QED
  BY <1>1, BoltAlways, PTL

-----------------------------------------------------------------------------
(* SqliteDB.                                                               *)

\* The inductive invariant.  A directory is appended to its parent's slice a
\* second time only while it has no slice itself, and gets one by that: hence
\* the last conjunct but one.  The last one is NoGhosts without SubDirs.
CacheInv ==
  /\ SharedTypeOK
  /\ times \in [Dir -> 0 .. 2]
  /\ \A d \in Dir : times[d] = 2 => d \in known
  /\ cached /\ ~unsure => \A d \in Dir : times[d] > 0 => d \in LiveDirs

-----------------------------------------------------------------------------
\* The directory of a file is one of the model's directories, and one of those
\* on the way to the file.
LEMMA ParentInDir ==
  ASSUME NEW p \in Path
  PROVE  Parent(p) \in Ancestors(p) /\ Parent(p) \in Dir
<1>1. p \in Seq(Name) /\ Len(p) \in Nat /\ Len(p) >= 2
  BY PathAssumption
<1>2. Parent(p) \in Ancestors(p)
  BY <1>1 DEF Parent, Ancestors
<1> QED
  BY <1>2 DEF Dir

\* The empty cache that a deletion leaves satisfies all that is said of it.
LEMMA InvalidatedInv ==
  ASSUME SharedTypeOK', Invalidate
  PROVE  CacheInv'
BY DEF Invalidate, NotListed, CacheInv

\* Appending a directory that has no slice keeps every directory at two
\* occurrences at most.
LEMMA NotedTwiceAtMost ==
  ASSUME CacheInv, NEW d \in Dir, d \notin known, NoteDir(d)
  PROVE  /\ times' \in [Dir -> 0 .. 2]
         /\ \A x \in Dir : times'[x] = 2 => x \in known'
<1>1. times[d] \in 0 .. 2 /\ times[d] # 2
  BY DEF CacheInv
<1>2. times[d] + 1 \in 0 .. 2
  BY <1>1
<1> QED
  BY <1>2 DEF CacheInv, NoteDir

\* Every action preserves the invariant.
LEMMA CacheStep == CacheInv /\ [SqliteNext]_sqliteVars => CacheInv'
<1> SUFFICES ASSUME CacheInv, [SqliteNext]_sqliteVars
             PROVE  CacheInv'
  OBVIOUS
<1>1. ASSUME NEW o \in Owner, NEW p \in PathsOf(o), NEW h \in Content[p],
             SqliteSetFile(o, p, h)
      PROVE  CacheInv'
  <2>1. p \in Path /\ h \in Hash /\ h # None
    BY ContentAssumption DEF PathsOf
  <2>2. shared' = [shared EXCEPT ![o][p] = h] /\ SharedTypeOK'
    BY <1>1, <2>1 DEF SqliteSetFile, Offer, CacheInv, SharedTypeOK
  \* Publishing a file takes no directory away and adds those on its way.
  <2>3. \A x : x \in LiveDirs \/ x \in Ancestors(p) => x \in LiveDirs'
    <3>1. \A u \in Owner, q \in Path : shared[u][q] # None => shared'[u][q] # None
      BY <2>1, <2>2 DEF CacheInv, SharedTypeOK
    <3>2. shared'[o][p] # None
      BY <2>1, <2>2 DEF CacheInv, SharedTypeOK
    <3> QED
      BY <2>1, <3>1, <3>2 DEF LiveDirs, LiveFiles
  <2>4. CASE Incomplete(Parent(p)) /\ NoteDir(Parent(p))
    <3>1. Parent(p) \in Ancestors(p) /\ Parent(p) \in Dir
      BY <2>1, ParentInDir
    <3>2. Parent(p) \notin known
      BY <2>4 DEF Incomplete
    <3>3. /\ times' \in [Dir -> 0 .. 2]
          /\ \A x \in Dir : times'[x] = 2 => x \in known'
      BY <2>4, <3>1, <3>2, NotedTwiceAtMost
    <3>4. ASSUME cached', ~unsure', NEW x \in Dir, times'[x] > 0
          PROVE  x \in LiveDirs'
      <4>1. cached /\ ~unsure
        BY <1>1, <2>4, <3>4 DEF SqliteSetFile, NoteDir
      <4>2. x = Parent(p) \/ times[x] > 0
        BY <2>4, <3>1, <3>4 DEF NoteDir, CacheInv
      <4> QED
        BY <2>3, <3>1, <4>1, <4>2 DEF CacheInv
    <3> QED
      BY <2>2, <3>3, <3>4 DEF CacheInv
  <2>5. CASE UNCHANGED dirCache
    BY <1>1, <2>2, <2>3, <2>5 DEF SqliteSetFile, CacheInv, dirCache
  <2> QED
    BY <1>1, <2>4, <2>5 DEF SqliteSetFile
<1>2. ASSUME NEW o \in Owner, NEW p \in PathsOf(o), SqliteDeleteFile(o, p)
      PROVE  CacheInv'
  <2>1. SharedTypeOK'
    BY <1>2 DEF SqliteDeleteFile, Withdraw, PathsOf, CacheInv, SharedTypeOK
  <2> QED
    BY <1>2, <2>1, InvalidatedInv DEF SqliteDeleteFile
<1>3. ASSUME NEW o \in Owner, SqlitePeerDisconnected(o)
      PROVE  CacheInv'
  <2>1. SharedTypeOK'
    BY <1>3 DEF SqlitePeerDisconnected, Forget, CacheInv, SharedTypeOK
  <2> QED
    BY <1>3, <2>1, InvalidatedInv DEF SqlitePeerDisconnected
<1>4. ASSUME NEW p \in Path, CommitFails(p)
      PROVE  CacheInv'
  <2>1. /\ times' \in [Dir -> 0 .. 2]
        /\ \A x \in Dir : times'[x] = 2 => x \in known'
    BY <1>4, ParentInDir, NotedTwiceAtMost DEF CommitFails, Incomplete
  <2> QED
    BY <1>4, <2>1 DEF CommitFails, CacheInv, SharedTypeOK
<1>5. CASE SqliteSetFileFails
  BY <1>5 DEF SqliteSetFileFails, CacheInv, SharedTypeOK, LiveDirs, LiveFiles, dirCache
<1>6. CASE DeletionFails
  <2>1. SharedTypeOK'
    BY <1>6 DEF DeletionFails, CacheInv, SharedTypeOK
  <2> QED
    BY <1>6, <2>1, InvalidatedInv DEF DeletionFails
<1>7. CASE GetDir
  <2>1. shared' = shared /\ unsure' = unsure /\ LiveDirs' = LiveDirs
    BY <1>7 DEF GetDir, LiveDirs, LiveFiles
  <2>2. ASSUME NEW P \in SUBSET LiveFiles, Rebuild(P)
        PROVE  CacheInv'
    <3>1. UNION {Ancestors(p) : p \in P} \subseteq LiveDirs
      BY DEF LiveDirs
    <3> QED
      BY <2>1, <2>2, <3>1 DEF Rebuild, CacheInv, SharedTypeOK
  <2>3. CASE UNCHANGED dirCache
    BY <2>1, <2>3 DEF CacheInv, SharedTypeOK, dirCache
  <2> QED
    BY <1>7, <2>2, <2>3 DEF GetDir
<1>8. CASE UNCHANGED sqliteVars
  BY <1>8 DEF sqliteVars, dirCache, CacheInv, SharedTypeOK, LiveDirs, LiveFiles
<1> QED
  BY <1>1, <1>2, <1>3, <1>4, <1>5, <1>6, <1>7, <1>8 DEF SqliteNext

\* The invariant holds of every behaviour of the database.
LEMMA CacheAlways == SqliteSpec => []CacheInv
<1>1. SqliteInit => CacheInv
  BY DEF SqliteInit, CacheInv, SharedTypeOK, NothingShared, NotListed
<1> QED
  BY <1>1, CacheStep, PTL DEF SqliteSpec

-----------------------------------------------------------------------------
\* The cache never lists a directory without files unless a commit has failed:
\* invalidateDirCache in every deletion and disconnect is enough, for any
\* number of peers and any tree.
THEOREM NoGhostsAlways == SqliteSpec => []NoGhosts
<1>1. CacheInv => NoGhosts
  BY DEF CacheInv, NoGhosts, SubDirs
<1> QED
  BY <1>1, CacheAlways, PTL

\* updateDirCache and the loop in SetFile together name a directory twice at
\* most.
THEOREM TwiceAtMostAlways == SqliteSpec => []TwiceAtMost
<1>1. CacheInv => TwiceAtMost
  BY DEF CacheInv, TwiceAtMost
<1> QED
  BY <1>1, CacheAlways, PTL
=============================================================================
