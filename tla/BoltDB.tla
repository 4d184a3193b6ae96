------------------------------- MODULE BoltDB -------------------------------
(***************************************************************************)
(* src/database_bolt.go: the database the released master is built with.   *)
(*                                                                         *)
(* Three top-level buckets: `files' (nested buckets for the directories),  *)
(* `byOwner' (the file names of every peer) and `byHash' (for every hash a *)
(* \0-separated list of peers, of which the model keeps how often it names *)
(* each peer). db.Update runs its function as one serialised transaction   *)
(* that is rolled back if it returns an error, so a SetFile is one step    *)
(* that happens entirely or not at all. PeerDisconnected is not: it reads  *)
(* the peer's files in one transaction and deletes them in one transaction *)
(* each, and other handlers run in between. `todo' is the list such a      *)
(* handler still has to work off.                                          *)
(*                                                                         *)
(* decodeFileInfo panics on the nil value of an absent key, and a panic    *)
(* ends the master; newDatabase removes the file, so a new master starts   *)
(* with empty buckets.                                                     *)
(*                                                                         *)
(* A definition D_Variant in front of D is D with a mistake in it: it is   *)
(* not used, and shows which property would notice the mistake.            *)
(***************************************************************************)
EXTENDS Database

CONSTANTS Handler,  \* connections whose PeerDisconnected can run at once
          MaxList   \* bound on the occurrences of an owner in a list

VARIABLES dirs,     \* the buckets below `files'
          files,    \* files[p]: the hash stored at p, or None
          byOwner,  \* byOwner[o]: the keys of o's bucket
          byHash,   \* byHash[h][o]: occurrences of o in the list of h
          cleaner,  \* cleaner[c]: the ident connection c cleans up, or None
          todo,     \* todo[c]: the files it still has to delete
          up        \* the master is running

buckets == <<dirs, files, byOwner, byHash>>
cleanup == <<cleaner, todo>>
vars == <<shared, buckets, cleanup, up>>

-----------------------------------------------------------------------------
NoFiles  == [p \in Path |-> None]
NoOwner  == [o \in Owner |-> {}]
NoHash   == [h \in Hash |-> [o \in Owner |-> 0]]
NoClean  == [c \in Handler |-> None]
NoTodo   == [c \in Handler |-> {}]

\* newDatabase
Init ==
  /\ shared = NothingShared
  /\ dirs = {}
  /\ files = NoFiles
  /\ byOwner = NoOwner
  /\ byHash = NoHash
  /\ cleaner = NoClean
  /\ todo = NoTodo
  /\ up = TRUE

Crash ==
  /\ shared' = NothingShared
  /\ dirs' = {}
  /\ files' = NoFiles
  /\ byOwner' = NoOwner
  /\ byHash' = NoHash
  /\ cleaner' = NoClean
  /\ todo' = NoTodo
  /\ up' = FALSE

Blocked_Never(p) == FALSE

\* CreateBucket fails: a directory on the way to p is the key of a file.
Blocked(p) == \E q \in Ancestors(p) \cap Path : files[q] # None

\* Put fails: p is a bucket.
IsBucket(p) == p \in dirs

Put_ListedWhenNew(o, p, h) ==
  /\ byOwner' = [byOwner EXCEPT ![o] = @ \cup {p}]
  /\ dirs' = dirs \cup Ancestors(p)
  /\ files' = [files EXCEPT ![p] = h]
  /\ byHash' = IF p \in byOwner[o] THEN byHash ELSE [byHash EXCEPT ![h][o] = @ + 1]

\* The transaction of SetFile with a FileInfo, once no bucket call has failed.
Put(o, p, h) ==
  /\ byOwner' = [byOwner EXCEPT ![o] = @ \cup {p}]
  /\ dirs' = dirs \cup Ancestors(p)
  /\ files' = [files EXCEPT ![p] = h]
  /\ byHash' = [byHash EXCEPT ![h][o] = @ + 1]

Emptied_IgnoringDirs(p) ==
  {a \in Ancestors(p) :
     \A q \in Path : files[q] # None /\ Parent(q) = a => q = p}

\* The buckets on the way to p that hold nothing but p and one another.
Emptied(p) ==
  {a \in Ancestors(p) :
     /\ \A q \in Path : files[q] # None /\ a \in Ancestors(q) => q = p
     /\ \A d \in dirs : a \in Ancestors(d) => d \in Ancestors(p)}

\* The lists once o has been taken out of the one of h, every occurrence of it.
Without(h, o) == [byHash EXCEPT ![h][o] = 0]

\* The transaction of SetFile with nil.
Delete(o, p) ==
  /\ byOwner' = [byOwner EXCEPT ![o] = @ \ {p}]
  /\ files' = [files EXCEPT ![p] = None]
  /\ dirs' = dirs \ Emptied(p)
  /\ byHash' = Without(files[p], o)

-----------------------------------------------------------------------------
\* SetFile with a FileInfo.  The guard on the list is the model's bound: the
\* owner is appended at every call, the list grows without limit.
SetFile(o, p, h) ==
  /\ up
  /\ ~Blocked(p)
  /\ ~IsBucket(p)
  /\ byHash[h][o] < MaxList
  /\ Put(o, p, h)
  /\ Offer(o, p, h)
  /\ UNCHANGED <<cleanup, up>>

SetFileFails_NoRollback(o, p) ==
  /\ up
  /\ Blocked(p) \/ IsBucket(p)
  /\ byOwner' = [byOwner EXCEPT ![o] = @ \cup {p}]
  /\ UNCHANGED <<shared, dirs, files, byHash, cleanup, up>>

\* The error of a bucket call rolls the transaction back, byOwner included.
SetFileFails(o, p) ==
  /\ up
  /\ Blocked(p) \/ IsBucket(p)
  /\ UNCHANGED vars

Deletion_StuckOnError(o, p) ==
  /\ ~Blocked(p)
  /\ files[p] # None
  /\ Delete(o, p)
  /\ Withdraw(o, p)
  /\ UNCHANGED up

\* SetFile with nil: rolled back if a directory is a file, a panic if there
\* is no such file.
Deletion(o, p) ==
  \/ Blocked(p) /\ UNCHANGED <<shared, buckets, up>>
  \/ /\ ~Blocked(p)
     /\ files[p] # None
     /\ Delete(o, p)
     /\ Withdraw(o, p)
     /\ UNCHANGED up

Missing(p) == ~Blocked(p) /\ files[p] = None

DeleteFile(o, p) ==
  /\ up
  /\ \/ Deletion(o, p) /\ UNCHANGED cleanup
     \/ Missing(p) /\ Crash

\* PeerDisconnected lists the files of the peer ...
PeerDisconnected(c, o) ==
  /\ up
  /\ cleaner[c] = None
  /\ byOwner[o] # {}
  /\ cleaner' = [cleaner EXCEPT ![c] = o]
  /\ todo' = [todo EXCEPT ![c] = byOwner[o]]
  /\ UNCHANGED <<shared, buckets, up>>

\* ... and deletes them one by one.
Finished(c) == IF todo'[c] = {} THEN [cleaner EXCEPT ![c] = None] ELSE cleaner

CleanUp(c, p) ==
  /\ up
  /\ p \in todo[c]
  /\ \/ /\ Deletion(cleaner[c], p)
        /\ todo' = [todo EXCEPT ![c] = @ \ {p}]
        /\ cleaner' = Finished(c)
     \/ Missing(p) /\ Crash

Restart == ~up /\ up' = TRUE /\ UNCHANGED <<shared, buckets, cleanup>>

Next ==
  \/ \E o \in Owner : \E p \in PathsOf(o) : \E h \in Content[p] : SetFile(o, p, h)
  \/ \E o \in Owner : \E p \in PathsOf(o) : SetFileFails(o, p)
  \/ \E o \in Owner : \E p \in PathsOf(o) : DeleteFile(o, p)
  \/ \E c \in Handler, o \in Owner : PeerDisconnected(c, o)
  \/ \E c \in Handler, p \in Path : CleanUp(c, p)
  \/ Restart

Spec == Init /\ [][Next]_vars

\* A goroutine in PeerDisconnected's loop goes on.
FairSpec == Spec /\ \A c \in Handler : WF_vars(\E p \in Path : CleanUp(c, p))

-----------------------------------------------------------------------------
\* The buckets have their types, and no name is a file and a directory at once,
\* so that GetDir's "v == nil" test tells the two apart.
TypeOK ==
  /\ SharedTypeOK
  /\ dirs \subseteq Dir \ {Root}
  /\ files \in [Path -> Hash \cup {None}]
  /\ \A d \in dirs : d \in Path => files[d] = None
  /\ byOwner \in [Owner -> SUBSET Path]
  /\ byHash \in [Hash -> [Owner -> Nat]]
  /\ cleaner \in [Handler -> Owner \cup {None}]
  /\ todo \in [Handler -> SUBSET Path]
  /\ up \in BOOLEAN

\* The buckets below `files' are exactly the directories of stored files:
\* every file can be reached from the root, and the upward deletion of empty
\* buckets in SetFile leaves no empty directory behind and takes none with a
\* file in it, in any order of publications, deletions and clean-ups.
DirsExact ==
  dirs = UNION {Ancestors(p) : p \in {q \in Path : files[q] # None}}

\* With one machine per user the index PeerDisconnected relies on is exact:
\* a file is stored if and only if its owner's bucket in byOwner names it, and
\* it is stored with the hash last published.
IndexExact ==
  OnePerUser =>
    \A o \in Owner : \A p \in PathsOf(o) :
      /\ p \in byOwner[o] <=> files[p] # None
      /\ files[p] = shared[o][p]

\* A clean-up that has begun ends, also when some of its files can no longer be
\* deleted because their directory has become a file in the meantime.
CleanUpEnds == \A c \in Handler : (cleaner[c] # None) ~> (cleaner[c] = None)

\* The one path whose file can have hash h.
Alone(p, h) == \A q \in Path : h \in Content[q] => q = p

\* A published file whose content no other file can have has its owner in the
\* list of its hash, over any sequence of overwrites, deletions and clean-ups.
\* The condition is needed: a deletion takes every occurrence of the owner out
\* of the list, also when the owner has another file with that hash.
HashListed ==
  \A o \in Owner, p \in Path :
    LET h == shared[o][p]
    IN  h # None /\ Alone(p, h) => byHash[h][o] > 0
=============================================================================
