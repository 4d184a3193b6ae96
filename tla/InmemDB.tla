------------------------------- MODULE InmemDB -------------------------------
(***************************************************************************)
(* src/database_inmem.go: the master's default database.                   *)
(*                                                                         *)
(* A Go map from keys to integers is a set of keys (`listed') and a total  *)
(* function (`count') that is zero for absent keys, which is what reading  *)
(* an absent key yields in Go.  SetFile and PeerDisconnected hold the      *)
(* write lock throughout, so each is one step.  GetDir returns the live    *)
(* `files' map of the directory, which net/rpc encodes after the read lock *)
(* is released: `reading' says which directories are being encoded, and a  *)
(* write to one of them may abort the process.                             *)
(*                                                                         *)
(* A Go panic in an RPC handler or a connection goroutine ends the master, *)
(* and with it everything it stored.                                       *)
(*                                                                         *)
(* A definition D_Variant in front of D is D with a mistake in it: it is   *)
(* not used, and shows which property would notice the mistake.            *)
(***************************************************************************)
EXTENDS Database

CONSTANTS Reader,   \* GetDir handlers that can run at the same time
          MaxRefs   \* bound on the counts that are never decremented

VARIABLES dirs,     \* the directories of fileTree, but its root
          files,    \* files[p]: the hash stored at p, or None
          refs,     \* refs[d]: the directory's reference count
          mapped,   \* the keys of the map `owners'
          listed,   \* listed[h]: the keys of owners[h]
          count,    \* count[h][o]: owners[h][o], zero if o is not a key
          reading,  \* reading[r]: the directory handler r encodes, or None
          up        \* the master is running

tree == <<dirs, files, refs>>
owners == <<mapped, listed, count>>
vars == <<shared, tree, owners, reading, up>>

-----------------------------------------------------------------------------
NoFiles  == [p \in Path |-> None]
NoRefs   == [d \in Dir |-> 0]
NoKeys   == [h \in Hash |-> {}]
NoCounts == [h \in Hash |-> [o \in Owner |-> 0]]
Idle     == [r \in Reader |-> None]

\* newDatabase
Init ==
  /\ shared = NothingShared
  /\ dirs = {}
  /\ files = NoFiles
  /\ refs = NoRefs
  /\ mapped = {}
  /\ listed = NoKeys
  /\ count = NoCounts
  /\ reading = Idle
  /\ up = TRUE

\* The process dies: the next one starts with newDatabase.
Crash ==
  /\ shared' = NothingShared
  /\ dirs' = {}
  /\ files' = NoFiles
  /\ refs' = NoRefs
  /\ mapped' = {}
  /\ listed' = NoKeys
  /\ count' = NoCounts
  /\ reading' = Idle
  /\ up' = FALSE

\* The files of P with hash h.
HavingHash(P, h) == {p \in P : files[p] = h}

Released_Never(P, o) == count

\* owners[f.Hash][owner]-- for every file f of P ...
Released(P, o) ==
  [h \in Hash |-> [count[h] EXCEPT ![o] = @ - Cardinality(HavingHash(P, h))]]

Kept_All(P, o) == listed

Kept_NoneLeft(P, o) ==
  [h \in Hash |-> IF HavingHash(P, h) = {} THEN listed[h] ELSE listed[h] \ {o}]

\* ... with the key deleted when its value reaches zero.
Kept(P, o) ==
  [h \in Hash |-> IF HavingHash(P, h) = {} THEN listed[h]
                  ELSE IF Released(P, o)[h][o] = 0 THEN listed[h] \ {o}
                  ELSE listed[h] \cup {o}]

\* The walk down to p creates the directories that are missing.
MakeDirs(p) == dirs \cup Ancestors(p)

NewEntries_Overwritten(p) == (Ancestors(p) \ dirs) \cup {p}

\* The tree nodes that storing a file at p creates.
NewEntries(p) ==
  (Ancestors(p) \ dirs) \cup (IF files[p] = None THEN {p} ELSE {})

\* The inner map of h is made if there is none.
MakeOwners(h) == mapped \cup {h}

\* setFileLocked with a FileInfo.
Store(p, h, o) ==
  /\ dirs' = MakeDirs(p)
  /\ refs' = [d \in Dir |->
                refs[d] + Cardinality({x \in NewEntries(p) : Parent(x) = d})]
  /\ files' = [files EXCEPT ![p] = h]
  /\ mapped' = MakeOwners(h)
  /\ count' = [Released({p}, o) EXCEPT ![h][o] = @ + 1]
  /\ listed' = [Kept({p}, o) EXCEPT ![h] = @ \cup {o}]

\* References a user's own directory loses when the files of P are deleted.
\* The loop at line 69 runs only for files directly in such a directory: for
\* deeper ones its condition 0 >= i is false at once.
Unreferenced(P, d) == {p \in P : files[p] # None /\ Len(p) = 2 /\ Parent(p) = d}

\* At the last reference of a user's directory, line 75 reads trace[-1].
Panics(P) ==
  \E p \in P : /\ Unreferenced(P, Parent(p)) # {}
               /\ refs[Parent(p)] <= Cardinality(Unreferenced(P, Parent(p)))

\* setFileLocked with nil, for every file of P.
Remove(P, o) ==
  /\ ~Panics(P)
  /\ files' = [p \in Path |-> IF p \in P THEN None ELSE files[p]]
  /\ refs' = [d \in Dir |-> refs[d] - Cardinality(Unreferenced(P, d))]
  /\ count' = Released(P, o)
  /\ listed' = Kept(P, o)
  /\ UNCHANGED <<dirs, mapped>>

-----------------------------------------------------------------------------
\* SetFile, called for a signed-in peer by the master's SetFile handler.
\* The guard on refs is the model's bound: below a user's own directory the
\* count grows with every file that is published, deleted and published again.
SetFile(o, p, h) ==
  /\ up
  /\ Len(p) > 2 => refs[Parent(p)] < MaxRefs
  /\ Store(p, h, o)
  /\ Offer(o, p, h)
  /\ UNCHANGED <<reading, up>>

DeleteFile(o, p) ==
  /\ up
  /\ \/ Remove({p}, o) /\ Withdraw(o, p) /\ UNCHANGED <<reading, up>>
     \/ Panics({p}) /\ Crash

\* The hashes whose only owner is o, and the files that have them.
Victims(o) == {h \in mapped : listed[h] = {o}}

Destroyed(o) == {p \in Path : files[p] \in Victims(o)}

PeerDisconnected(o) ==
  /\ up
  /\ \/ Remove(Destroyed(o), o) /\ Forget(o) /\ UNCHANGED <<reading, up>>
     \/ Panics(Destroyed(o)) /\ Crash

GetDir_Unchecked(r, d) ==
  /\ up
  /\ reading[r] = None
  /\ reading' = [reading EXCEPT ![r] = d]
  /\ UNCHANGED <<shared, tree, owners, up>>

\* GetDir finds the directory; its map is then encoded without the lock.
GetDir(r, d) ==
  /\ up
  /\ reading[r] = None
  /\ d \in dirs \cup {Root}
  /\ reading' = [reading EXCEPT ![r] = d]
  /\ UNCHANGED <<shared, tree, owners, up>>

GetDirEncoded(r) ==
  /\ up
  /\ reading[r] # None
  /\ reading' = [reading EXCEPT ![r] = None]
  /\ UNCHANGED <<shared, tree, owners, up>>

\* A SetFile writes the map that a handler is encoding, and the Go runtime
\* notices: "concurrent map iteration and map write".
MapRace(r, o, p) ==
  /\ up
  /\ reading[r] = Parent(p)
  /\ p \in PathsOf(o)
  /\ Crash

Restart == ~up /\ up' = TRUE /\ UNCHANGED <<shared, tree, owners, reading>>

Next ==
  \/ \E o \in Owner : \E p \in PathsOf(o) : \E h \in Content[p] : SetFile(o, p, h)
  \/ \E o \in Owner : \E p \in PathsOf(o) : DeleteFile(o, p)
  \/ \E o \in Owner : PeerDisconnected(o)
  \/ \E r \in Reader, d \in Dir : GetDir(r, d)
  \/ \E r \in Reader : GetDirEncoded(r)
  \/ \E r \in Reader, o \in Owner, p \in Path : MapRace(r, o, p)
  \/ Restart

Spec == Init /\ [][Next]_vars

-----------------------------------------------------------------------------
\* The maps have their types, and a directory whose map is being encoded is in
\* the tree as long as it is: no step in between unlinks it.
TypeOK ==
  /\ SharedTypeOK
  /\ dirs \subseteq Dir \ {Root}
  /\ files \in [Path -> Hash \cup {None}]
  /\ refs \in [Dir -> Int]
  /\ mapped \subseteq Hash
  /\ listed \in [Hash -> SUBSET Owner]
  /\ count \in [Hash -> [Owner -> Int]]
  /\ reading \in [Reader -> dirs \cup {Root, None}]
  /\ up \in BOOLEAN

\* The files o's user has in the tree with hash h.
Holding(o, h) == {p \in PathsOf(o) : files[p] = h}

\* The counts in owners are the numbers of files: with one machine per user,
\* owners[h][o] is how many files of o have hash h, and o is a key exactly
\* when there is one.  Every release and acquisition in setFileLocked, over
\* any sequence of overwrites, deletions and disconnects, balances.
CountsExact ==
  OnePerUser =>
    \A h \in Hash, o \in Owner :
      /\ count[h][o] = Cardinality(Holding(o, h))
      /\ o \in listed[h] <=> Holding(o, h) # {}

Children(d) == {x \in dirs : Parent(x) = d}
FilesIn(d)  == {p \in Path : files[p] # None /\ Parent(p) = d}

\* A directory's reference count never drops below the number of its entries,
\* and is that number for the root and the users' own directories, the only
\* ones whose count is ever decremented.  A user's directory is never empty:
\* the deletion that would empty it ends the master.
RefsCover ==
  \A d \in dirs \cup {Root} :
    LET entries == Cardinality(Children(d)) + Cardinality(FilesIn(d))
    IN  /\ refs[d] >= entries
        /\ Len(d) <= 1 => refs[d] = entries
        /\ d # Root => refs[d] > 0

\* With one machine per user, what a connected peer has published stays
\* published whatever the other peers do, PeerDisconnected of a peer with the
\* same content included: GetDir shows the file with its hash, and GetOwners
\* of that hash names the peer.
NothingLost ==
  OnePerUser =>
    \A o \in Owner, p \in Path :
      shared[o][p] # None =>
        /\ files[p] = shared[o][p]
        /\ o \in listed[shared[o][p]]

\* For a peer that shares no content with another user, the answers of GetDir
\* and GetOwners are exactly the abstract ones: nothing of it remains once it
\* has disconnected.  The condition is needed: PeerDisconnected skips a hash
\* that another peer has as well, and neither removes the file of the peer
\* that left nor takes it from the list of owners.
AnswersExact ==
  OnePerUser =>
    \A o \in Owner : Private(o) =>
      /\ \A p \in PathsOf(o) : files[p] = shared[o][p]
      /\ \A h \in Hash : o \in listed[h] <=> o \in OwnersOf(h)
=============================================================================
