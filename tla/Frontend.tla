------------------------------ MODULE Frontend ------------------------------
(***************************************************************************)
(* The directory cache of the frontends (src/felib.go, and the same code   *)
(* once more in src/fuse.go) and the requests that go through it: those of *)
(* the kernel, which src/fuse.go serves in a goroutine each, and those of  *)
(* the FTP clients (src/ftp.go).                                           *)
(*                                                                         *)
(* A directory is Root or one in it; the name of an entry of Root is also  *)
(* the cache's key for the directory of that name.  entry[n] is what the   *)
(* master has under a name: a hash, which stands for the FileInfo, Dir or  *)
(* None.  The answer about a directory below Root is always Inner.         *)
(*                                                                         *)
(* The lock is not held during the calls to the master, and each section   *)
(* under it is a step.  A call takes place at the master in the step named *)
(* for it; its answer is used in a later one.                              *)
(*                                                                         *)
(* A definition D_Variant in front of D is D with a mistake in it: it is   *)
(* not used, and shows which property would notice the mistake.            *)
(***************************************************************************)
EXTENDS Integers, FiniteSets

CONSTANTS Name, Hash, None, Dir, Root, Inner,
          Handler,     \* requests that are served at once
          Expiry,      \* ticks an entry is kept for
          MaxChanges   \* bound on the changes at the master

Key == {Root} \cup Name

ASSUME FrontendAssumption ==
  /\ Root \notin Name
  /\ {None, Dir} \cap Hash = {} /\ None # Dir
  /\ IsFiniteSet(Handler)
  /\ Expiry \in Nat \ {0}
  /\ MaxChanges \in Nat

VARIABLES entry,       \* entry[n]: what the master has under n
          changes,     \* number of changes at the master
          cache,       \* cache[k]: the answer of GetDir, or None
          cacheExpiry, \* cacheExpiry[k]: ticks left, 0 for an absent key
          handler,     \* handler[h]: what request h is doing
          misses       \* misses[n]: times n was not found since it was published

vars == <<entry, changes, cache, cacheExpiry, handler, misses>>
mastered == <<entry, changes>>
cached == <<cache, cacheExpiry>>

Op == {"lookup", "stat", "list", "open", "getfile"}

Resting == [pc |-> "rest"]

\* A request: its operation, the directory it asks about, the name it wants
\* there (Root if it wants none) and the answer it has got.
Request(op, k, n, pc, got) == [op |-> op, dir |-> k, name |-> n, pc |-> pc, got |-> got]

Goto(h, pc) == handler' = [handler EXCEPT ![h].pc = pc]
Finish(h)   == handler' = [handler EXCEPT ![h] = Resting]
At(h, pc)   == handler[h].pc = pc

Init ==
  /\ entry \in [Name -> Hash \cup {Dir, None}]
  /\ changes = 0
  /\ cache = [k \in Key |-> None]
  /\ cacheExpiry = [k \in Key |-> 0]
  /\ handler = [h \in Handler |-> Resting]
  /\ misses = [n \in Name |-> 0]

\* Somebody publishes, replaces or withdraws what is under n.
Change(n, x) ==
  /\ changes < MaxChanges
  /\ entry[n] # x
  /\ entry' = [entry EXCEPT ![n] = x]
  /\ changes' = changes + 1
  /\ misses' = [misses EXCEPT ![n] = 0]
  /\ UNCHANGED <<cached, handler>>

-----------------------------------------------------------------------------
\* GetDirCached up to the first unlock, on behalf of: Lookup; Attr, Stat and
\* ChangeDir; ReadDirAll and ListDir; Open; GetFile.  All but the listings are
\* about an entry of a directory.
GetDirCached(h, op, k, n) ==
  /\ At(h, "rest")
  /\ op = "list" <=> n = Root
  /\ n # Root => k = Root
  /\ handler' = [handler EXCEPT ![h] =
       IF cache[k] # None THEN Request(op, k, n, "use", cache[k])
       ELSE Request(op, k, n, "ask", None)]
  /\ UNCHANGED <<mastered, cached, misses>>

\* What the master says about directory k: None stands for its ENOENT.
Listing(k) == IF k = Root THEN entry ELSE IF entry[k] = Dir THEN Inner ELSE None

\* The request fails; only Open purges something then.
Fail(h) == IF handler[h].op = "open" THEN Goto(h, "purge") ELSE Finish(h)

\* The call of GetDir at the master ...
GetDir(h) ==
  /\ At(h, "ask")
  /\ handler' = [handler EXCEPT ![h].pc = "store", ![h].got = Listing(handler[h].dir)]
  /\ UNCHANGED <<mastered, cached, misses>>

\* ... or its failure, and that of GetOwners: the connection is gone.
CallFails(h) ==
  /\ handler[h].pc \in {"ask", "owners"}
  /\ Fail(h)
  /\ UNCHANGED <<mastered, cached, misses>>

Store_NoExpiry(h) ==
  /\ At(h, "store")
  /\ handler[h].got # None
  /\ cache' = [cache EXCEPT ![handler[h].dir] = handler[h].got]
  /\ Goto(h, "use")
  /\ UNCHANGED <<mastered, cacheExpiry, misses>>

\* The second locked section of GetDirCached.
Store(h) ==
  /\ At(h, "store")
  /\ handler[h].got # None
  /\ cache' = [cache EXCEPT ![handler[h].dir] = handler[h].got]
  /\ cacheExpiry' = [cacheExpiry EXCEPT ![handler[h].dir] = Expiry]
  /\ Goto(h, "use")
  /\ UNCHANGED <<mastered, misses>>

\* ENOENT is not cached.
NoSuchDir(h) ==
  /\ At(h, "store")
  /\ handler[h].got = None
  /\ Fail(h)
  /\ UNCHANGED <<mastered, cached, misses>>

-----------------------------------------------------------------------------
\* What the request makes of the listing.
Found(h) == handler[h].got[handler[h].name]

\* Lookup: a file or a directory, or a miss, which purges the directory.
Lookup(h) ==
  /\ At(h, "use")
  /\ handler[h].op = "lookup"
  /\ IF Found(h) # None THEN Finish(h) /\ UNCHANGED misses
     ELSE /\ Goto(h, "purge")
          /\ misses' = IF entry[handler[h].name] = None THEN misses
                       ELSE [misses EXCEPT ![handler[h].name] = @ + 1]
  /\ UNCHANGED <<mastered, cached>>

\* Attr, Stat and ChangeDir, and the listings: they purge nothing.
Stat(h) ==
  /\ At(h, "use")
  /\ handler[h].op = "stat"
  /\ Finish(h)
  /\ UNCHANGED <<mastered, cached, misses>>

ListDir(h) ==
  /\ At(h, "use")
  /\ handler[h].op = "list"
  /\ Finish(h)
  /\ UNCHANGED <<mastered, cached, misses>>

\* Open and GetFile take the hash and the size from the listing.
GetFileInfo(h) ==
  /\ At(h, "use")
  /\ handler[h].op \in {"open", "getfile"}
  /\ IF Found(h) \in Hash THEN Goto(h, "owners") ELSE Fail(h)
  /\ UNCHANGED <<mastered, cached, misses>>

\* GetOwners at the master returns no owners for a hash that nobody has any more
\* (then it is NewHandle that fails, and nothing is purged), or an error if the
\* database is bolt.
Owned(h) == \E n \in Name : entry[n] = Found(h)

Open(h) ==
  /\ At(h, "owners")
  /\ handler[h].op = "open"
  /\ Goto(h, "handle") \/ (~Owned(h) /\ Goto(h, "purge"))
  /\ UNCHANGED <<mastered, cached, misses>>

GetFile(h) ==
  /\ At(h, "owners")
  /\ handler[h].op = "getfile"
  /\ Goto(h, "handle") \/ (~Owned(h) /\ Finish(h))
  /\ UNCHANGED <<mastered, cached, misses>>

\* NewHandle finds a peer or does not; in both cases the request is over.
NewHandle(h) ==
  /\ At(h, "handle")
  /\ Finish(h)
  /\ UNCHANGED <<mastered, cached, misses>>

\* The key a request purges: Lookup its directory, Open the path of the file.
PurgeKey(h) == IF handler[h].op = "lookup" THEN handler[h].dir ELSE handler[h].name

Purge_Never(h) ==
  At(h, "purge") /\ Finish(h) /\ UNCHANGED <<mastered, cached, misses>>

\* purgeCacheEntry, and the request is over.
Purge(h) ==
  /\ At(h, "purge")
  /\ cache' = [cache EXCEPT ![PurgeKey(h)] = None]
  /\ cacheExpiry' = [cacheExpiry EXCEPT ![PurgeKey(h)] = 0]
  /\ Finish(h)
  /\ UNCHANGED <<mastered, misses>>

-----------------------------------------------------------------------------
\* A tick of cachePurger.  Ticks without an entry change nothing.
CachePurger ==
  /\ \E k \in Key : cacheExpiry[k] > 0
  /\ cache' = [k \in Key |-> IF cacheExpiry[k] = 1 THEN None ELSE cache[k]]
  /\ cacheExpiry' = [k \in Key |-> IF cacheExpiry[k] <= 1 THEN 0 ELSE cacheExpiry[k] - 1]
  /\ UNCHANGED <<mastered, handler, misses>>

Step(h) ==
  \/ GetDir(h) \/ CallFails(h) \/ Store(h) \/ NoSuchDir(h)
  \/ Lookup(h) \/ Stat(h) \/ ListDir(h) \/ GetFileInfo(h) \/ Open(h) \/ GetFile(h) \/ NewHandle(h)
  \/ Purge(h)

Next ==
  \/ \E n \in Name, x \in Hash \cup {Dir, None} : Change(n, x)
  \/ \E h \in Handler, op \in Op, k \in Key, n \in Key : GetDirCached(h, op, k, n)
  \/ \E h \in Handler : Step(h)
  \/ CachePurger

Spec == Init /\ [][Next]_vars

\* The ticker goes on, and every request that has begun does: its calls to the
\* master are answered or fail.
FairSpec == Spec /\ WF_vars(CachePurger) /\ \A h \in Handler : WF_vars(Step(h))

-----------------------------------------------------------------------------
\* A name that is published is missed by a few lookups only, however often it
\* is asked for and without waiting for the ticker: a miss purges the listing
\* it came from (src/fuse.go:267).  A single request at a time misses it once.
\* Of several, each may have an old answer on its way when the name is
\* published, store it after the others' purges, and let them miss once more.
MissesBounded ==
  LET N == Cardinality(Handler)
  IN  \A n \in Name : misses[n] <= (N * (N + 1)) \div 2

\* Once the master's files stop changing, the cache shows them as they are, and
\* goes on doing so: a listing that was stored late expires like all others.
EventuallyFresh ==
  <>[](\A k \in Key : cache[k] # None => cache[k] = Listing(k))
=============================================================================
