# RUFS in TLA+

This directory models RUFS, a file sharing system of one *master* and many
*participants*. A participant scans the directories it shares and publishes
names, sizes, times and hashes at the master; it browses what others have
published, asks the master who has a hash, and reads the file from those peers
block by block.

## The system

| Component | State | Operations | Interacts with |
|---|---|---|---|
| database, in memory (`src/database_inmem.go`) | directory tree with reference counts, owner counts per hash | `SetFile` (store, delete), `PeerDisconnected`, `GetDir`, `GetOwners` | called by the master's RPC handlers and connection goroutines |
| database, bolt (`src/database_bolt.go`) | buckets `files`, `byOwner`, `byHash` | the same | the same; a transaction per `SetFile` |
| database, sqlite (`src/database_sqlite.go`) | table `fs`, cache of sub-directories | the same | the same |
| master (`src/master.go`) | one `Peer` per connection | `Register`, `Signin`, `SetFile`, `GetDir`, `GetOwners`, `Disconnected` | its database; clients over net/rpc |
| master client (`src/types.go`) | connection, reconnect callback | `Call`, which dials again and runs the callback | SetFile threads, frontends |
| server (`src/server.go`) | `hashToPath`, request channel, four threads | `Setup`, `Run`, `SetFile`, `Read`, `Ping` | scanner (callback), master client, other peers |
| scanner (`src/filescanner/filescanner.go`) | file cache, listeners, hash cache on disk | passes, `set`, `save`, `ContinuousExport` | the directory; the server's callback |
| fetcher (`src/fetch.go`) | map of peers with a client each; per open file blocks, channels, last error; per stream its offset | `NewHandle`, `Read`, `fetch`, `realFetch`, `Stream` | `Read` of other peers; FUSE and FTP |
| peer client (`src/types.go`, `RUFSClient`) | connection | `Call`, which dials again once | fetcher, master (`Ping`) |
| frontends (`src/felib.go`, `src/fuse.go`, `src/ftp.go`) | directory cache with expiry | look up, stat, list, open, get | master client, fetcher |
| certificates (`src/crypto.go`) | key and certificate files of the CA and of the user | generate, sign, load | start of master and server |
| process (`src/main.go`, `src/common*`) | modules, context, exit code | flags, `Setup`, `Run`, signals | everything |

What is hard here: peers that come and go while others have the same files; a
client that several goroutines reconnect at once; a connection that the master
sees end later than the peer; callbacks called without a lock while their list
changes; files that change while they are hashed; several readers of one open
file; maps that are iterated over after the unlock; answers that are cached
after a purge; processes that are killed while they write keys; and the master
being one process, which any panic ends. `PROJECT.json` lists these hazards at
their lines.

## Modules

A definition `D_Variant` in front of `D` is `D` with a mistake in it. It is not
used; replacing `D` by it makes the property it is listed with in
`PROJECT.json` fail.

**`Database`** is the abstract database: `shared[o][p]`, what peer `o` publishes
at path `p`. It has the operations of the master's handlers (`Offer`,
`Withdraw`, `Forget`) and the answers they promise. The three databases extend
it. Each of their actions does the abstract operation together with what the
code does to its own data, and their properties compare the two.

**`InmemDB`**: the tree is `dirs`, `files` and `refs`; the map of maps `owners`
is `mapped` (hashes that have an inner map), `listed` (its keys) and `count`
(its values, zero for absent keys). `SetFile` and `PeerDisconnected` run under
the write lock and are one step each. `GetDir` returns the live map of a
directory: `reading` says which are being encoded, and `MapRace` is the abort of
the Go runtime when one of them is written. `Panics` is index -1 in the clean-up
loop. The master starts again empty.

**`BoltDB`**: a transaction is a step; an error rolls it back (`SetFileFails`).
`PeerDisconnected` is a step that lists the files and a `CleanUp` step for each,
by several handlers at once. Deleting an absent file panics (`Missing`). The list
of owners of a hash is how often each owner is in it: the code appends at its end
and removes every occurrence of an owner, so that the order decides nothing.

**`SqliteDB`**: the table is `shared`; `cached`, `known` and `times` are the
directory cache, with how often a name is in its parent's slice. Statements and
commits may fail: `unsure` says that the cache names a directory whose commit
failed, `locked` that a transaction nobody ends keeps the file locked. The cache
is made from a query that may end with an error after any row, which `GetDir`
ignores (`Rebuild`).

**`Fetch`**: one `pfHandle` with several readers. A byte is its position in the
file. `active` and `running` are the channels that are not nil and not closed.
The two locked sections of `Read` are a step each, and the wait between them can
be interrupted. Peers answer with the block, with a block that is too short or
with an error. What a panic does depends on who called `Read` (`Recovers`): the FUSE
library recovers it, which leaves the mutex locked for ever if the panic came from
the first locked section (`stuck`, `ReadBlocks`); under FTP it ends the process.

**`ByteStream`** is what a reader of an `io.ReadCloser` may expect: bytes in
order and without gaps, the end after the last one only, and errors that are not
taken for the end. **`Stream`** extends `Fetch` with `pfStream` and the goroutine
that copies it to an FTP client, and implements `ByteStream` under the mapping
`Seen`: a Read under way is an open stream, a panic a broken one. `cut` says that
the reader cannot have the whole file, because a peer has lost bytes or because
the stream is one of those that lose their last ones (`Overreads`). `Begin` is the
call of `pfHandle.Read`, whose steps are those of `Fetch`, and `Returns` what
`pfStream.Read` makes of its result.

**`Transfer`**: how a block gets to a handle. `known` and `conn` are the
fetcher's map of peers and the connections of their clients, which all handles
share; a connection is cut first and noticed later. `Call`, `Dial` and `Recall`
are `RUFSClient.Call`. `Read`, `RangePath` and `RangeDone` are the handler of the
peer: `must` are the entries its iteration over the live map still has to
produce, `seen` those it will not produce any more. `SetFile` changes the map
under it. What is at a path may be the contents, nothing, or something else
(`other`), which the handler opens and reads or fails to read. Servers go down and
come up, files are removed and replaced, and `MapRace` is the
abort of the Go runtime. `stable` records the paths a fetch could count on from
its beginning to its end. The contents of a block are left to `Fetch`: the
owners `Transfer` finds are the peers that answer there.

**`Session`**: the client of one peer, its threads and its connections. A thread
is a stack of invocations of `Call`, since the callback signs in with `Call`;
every access to an unprotected field is a step. The master serves a broken
connection until `Disconnected` has run, and knows one ident for all of them.
`Signin` writes the fields of the master's `Peer` one by one (`SigninWrites`),
while requests of other threads on the same connection look at them.
`Disconnected` runs when the handlers of the connection have returned, because
`rpc.ServeConn` waits for them. `HasShares` and `HasAddress` are chosen in the
initial state, as `--share` and `--external_ip` choose them: a peer without shares
only asks, one with shares publishes and may ask, too.

**`FileCache`** is the scanner's cache, which the next two modules share.

**`Scanner`**: the directory, the cache, the passes and the saved cache. Files
are written and removed, directories become unreadable and the process is
restarted at any moment. A save replaces the saved cache, leaves it, or leaves a file
that cannot be read, because the errors of `Close` are ignored.

**`Publish`**: a change on its way from `set` to the index and the master, with
listeners that are cancelled, removed and appended, exports of a copy of the
cache, requests that point to the loop variable, and lost requests. There are any
number of threads (the code has four). A thread whose call finds the connection
lost runs the callback inside that call (`Reconnect`), and with it an export over the
channel that it serves itself; calls that raced for the callback run it at the same
time, and so may the goroutines of a frontend (`Frontend`). `export[n]` is the run that
made the n-th context. A call may also dial while the callback is taken, and leave a
connection nobody has signed in on (`DialOnly`). `published` is what the master was told
on the present connection: that a late `Disconnected` of an older one may clear it is
left to `Session`, whose counterexample it is. `beside` is a history variable: which
other requests for the file were under way when its last one was handed to a thread.

**`Frontend`**: the directory cache and the requests of FUSE and FTP that go
through it. The sections under the lock are a step each, and the call to the
master between them is one too. `Purge` takes the key the caller passes:
`Lookup` that of its directory, `Open` the path of the file, which is a key of
the cache only if it is also a directory.

**`Process`**: `main` from the flags to the exit code, and the files of keys and
certificates that processes of one machine leave to each other. A key is a
number and a certificate the number of its key; a file that was created and not
yet written is `Torn`. A process may be killed at any moment; the user starts
over by removing a key and its certificate.

`MCInmemDB`, `MCBoltDB`, `MCSqliteDB`, `MCFetch`, `MCStream` and `MCTransfer` hold
the values of constants that are functions or sets of tuples. The proofs are in
`InmemDBProofs`, `DiskDBProofs` (about `BoltDB` and `SqliteDB`), `FetchProofs` (about
`Fetch` and `Stream`), `TransferProofs`, `SessionProofs`, `ScannerProofs` (about `Scanner`
and `Publish`), `FrontendProofs` and `ProcessProofs`. Where a proof module extends two
modules, one of them has its name in front of what both define: `SqliteSpec`,
`StreamSpec`, `PublishSpec`.

## Runs

Runs that pass:

| Run | What it shows |
|---|---|
| `inmem_answers` | Three users, two with possibly equal contents, and a reader: counts are exact (`CountsExact`), reference counts cover the entries (`RefsCover`), nobody's files or places among the owners are lost by what others do (`NothingLost`), and GetDir and GetOwners are exactly the abstract answers for a peer with contents of its own (`AnswersExact`). |
| `bolt_answers` | Buckets are the directories of files (`DirsExact`), no name is both file and directory (part of `TypeOK`), `byOwner` is exact (`IndexExact`), across concurrent clean-ups, rollbacks and panics; the owner of a content that only one file can have is listed (`HashListed`), and clean-ups end (`CleanUpEnds`). |
| `sqlite_cache` | The cache shows no directory that is gone (`NoGhosts`) and no name more than twice (`TwiceAtMost`), across failing statements and commits. |
| `fetch_readers` | Two readers, peers that fail or have lost bytes: channels are closed once by their makers (`ChannelsSound`), the bytes are the requested ones and never too many (`ExactBytes`), panics need a request beyond the file (`PanicsOnlyBeyondEnd`), every Read returns unless such a panic left the mutex locked (`ReadReturns`). |
| `stream_delivery` | A stream from any offset implements `ByteStream` (`Refines`), panics only if it did not start at a multiple of its buffer and delivers nothing out of place (`AlignedSafe`), and ends (`StreamEnds`). |
| `session_threads` | The master has nothing of a peer it serves no signed-in connection of, not even under an empty ident (`NothingOfTheGone`); the client keeps its callback (`CallbackKept`) and is signed in between calls (`SignedBetweenCalls`); calls return (`CallReturns`). |
| `scanner_passes` | Equal times mean equal hashes, across races and restarts (`HashTrusted`); a quiet pass is exact (`QuietPassExact`); the passes converge (`Converges`). |
| `publish_reconnect` | Two threads that run the callback within their own calls, one after the other or at the same time: until the first reconnect, index and master follow the cache (`ExactAtFirst`); with reconnects, nothing is missing from the index or at the master (`IndexComplete`, `PublishedAll`); `set` ends (`SetReturns`), also when its list changes between the load and the store of the slice, unless all threads wait in the callback. |
| `transfer` | A fetch fails only if no owner had a path that stayed indexed, on disk and in reach, and nothing else to open for the hash (`FetchReliable`), and it ends (`FetchEnds`), while handles share clients, connections are cut unnoticed and indexes change under `Read`. |
| `frontend_cache` | A name that was published is missed a bounded number of times (`MissesBounded`); once the master is quiet the cache becomes right and stays so (`EventuallyFresh`). |
| `process` | A certificate that can be read fits the key next to it and a master serves with a matching pair (`KeysMatch`); the exit code tells whether a module failed, after all have returned (`ExitTellsAll`); a cancelled process exits (`ExitsWhenCancelled`). |

One run ends with a counterexample to a sentence of the repository's own
documentation: `session_late`. A connection is cut; the next call dials, signs in
and exports, and the master stores the file; then it notices the end of the old
connection and clears what the new one has published. The property is about a
client whose connection is open and signed in; refused sign-ins and overlapping
reconnects, after which files may be missing for other reasons, do not count.

### Conditions in the properties

Some properties are stated under a condition, or in a model with an assumption
about its surroundings, without which the code does not have them. Dropping the
condition makes TLC show what happens:

| Property | Condition | Without it |
|---|---|---|
| `AnswersExact` | the peer shares no content with other users | GetOwners goes on naming a peer that has left, and GetDir its file, if somebody else has the same content (`src/database_inmem.go:97`). |
| `HashListed` | no other file can have the content | Deleting one of two copies unlists the owner of the other (`src/database_bolt.go:159`). |
| `ExactBytes`, `PanicsOnlyBeyondEnd`, `Refines` | no answer was cut short | Short blocks are joined as if they were whole, or sliced beyond their end (`src/fetch.go:239`); a stream ends early and reports the end (`src/fetch.go:277`). |
| `Refines` | the file is not a whole number of blocks, or what the stream reads of it is a whole number of buffers | The last Read needs the empty block behind the file, takes it for one that was not fetched and returns neither bytes nor an error (`src/fetch.go:224`); the stream reports the end, and its last bytes are missing. |
| `Refines` | the handle has one reader, as that of a stream does | A Read of FUSE may return neither bytes nor an error because another one purged the block it had waited for (`src/fetch.go:197`). |
| `AlignedSafe` | the stream started at a multiple of its buffer, which divides the block | The last request reaches beyond the blocks, and the process panics (`src/fetch.go:186`). |
| `NoGhosts` | no commit failed since the cache was made | The cache goes on naming the directory (`src/database_sqlite.go:132`). |
| `CallbackKept`, `SignedBetweenCalls` | no two reconnects overlapped | Of two threads that reconnect at once, one ends on a connection nobody signs in on (`src/types.go:65`). |
| `ReadReturns` | no Read has panicked while it held the mutex | FUSE recovers the panic, nobody unlocks the mutex, and the other Reads of the handle hang (`src/fetch.go:188`). |
| `CallReturns` | the client of a peer without shares | The callback exports over the channel its own thread should serve (`src/server.go:160`). |
| `SetReturns` | not all threads wait in the callback at once (`Stuck`) | Each of them waits for another one to take a request, and so does `set` (`src/server.go:201`). |
| `IndexComplete`, `PublishedAll` | no append fell into the removal of a listener | The append is overwritten and the new listener hears of nothing (`src/filescanner/filescanner.go:97`). |
| `ExactAtFirst` | no reconnect yet | A deletion found while the listener is replaced is never reported (`src/filescanner/filescanner.go:198`). |
| `ExactAtFirst` about the master | no other request for the file was under way when its last one was handed to a thread | Two changes of the file overtake each other (`src/server.go:174`). |
| `PublishedAll` | no deletion of the file was under way when its last request was handed to a thread | The deletion arrives last, and the master does not know the file (`src/server.go:174`). |
| `PublishedAll` | the client's last connection is signed in | A call that dialled while the callback was taken leaves one that is not, and the master refuses its requests (`src/types.go:65`). |
| `FetchReliable` | one owner keeps a path, and its connection was not cut unnoticed when the fetch began | The call is lost, and the owner is not asked again (`src/fetch.go:162`). |
| `FetchReliable` | none of that owner's indexed paths opens to something else | The handler returns the error of reading what it opened first, a directory say, and does not get to the path that is right (`src/server.go:250`). |
| `KeysMatch` | files are removed in pairs, while no process works on them; for the CA's files being both there or both missing, no process was killed | A process may write a certificate for a key that was removed meanwhile; a killed one leaves a file that does not parse, or a key without a certificate. |
| `ExitsWhenCancelled` | no frontend is stuck | `main` waits for a mount that is in use (`src/fuse.go:98`). |

Actions of the model that show more of what the code does wrong, without a
property that says otherwise:

- Deleting the last file of a user's directory ends the in-memory master with
  index -1 (`Panics` in `InmemDB`, `src/database_inmem.go:75`).
- An export passes a pointer to its loop variable, a single variable in the
  versions of Go the project is written for. A thread that encodes its request
  late publishes the name of one file with the size, time and hash of the next
  (`InfoOf` in `Publish`, `src/filescanner/filescanner.go:206`). `PublishedAll` is
  therefore about the name only.
- The runtime may abort master, peers and readers because maps are used without
  their lock (`MapRace` in `InmemDB` and `Transfer`, `Down` in `Transfer`).
- A failing `Open` of FUSE purges a key that is not there, so that the listing
  with the old hash stays until it expires (`PurgeKey`, `src/fuse.go:315`).
- A registration that is refused leaves its key behind, and the next one fails
  because the file exists (`CreateKey` in `Process`, `src/crypto.go:148`).

Two more differences between the code and what it means to do are facts of one
operation and need no model checker. GetOwners of the bolt database splits at
`/` a list whose separator is `\0` (`src/database_bolt.go:222`, and the comment
in line 44). The loop in the sqlite database that adds new directories to the
cache stops after the first, because it has just given the parent a slice
(`src/database_sqlite.go:127`); `NoteDir` is that one step.

### Bounds

Idents, paths and hashes are small sets: two users or three, with two machines
for one of them in the sqlite run; files directly in a user's directory and below it, since
the code treats these differently; a name that is a file and a directory in
turn; contents that are shared or not. The remaining bounds stop counters that
the code lets grow:

- `MaxRefs` (`InmemDB`): references of a directory below a user's own, which
  are never given back. One more than its entries shows that they leak.
- `MaxList` (`BoltDB`): how often an owner is in the list of a hash. Two are a
  repeated owner, all of whose entries the next deletion removes.
- `MaxConn` (`Session`): connections; three let a reconnect fail within a
  reconnect.
- `MaxMtime`, `MaxFaults` (`Scanner`): writes, and crashes or unreadable
  directories. Three writes let a file change before, during and after hashing.
- `MaxSets`, `MaxListener` (`Publish`): changes and listeners. Three listeners
  let one be removed while the next is appended, and two runs of the callback
  overlap; three changes let a file appear, disappear and come back. The run has
  one path and two threads, which overtake each other and block each other. All
  its properties were also checked with one thread and one goroutine of a frontend
  (1.9 million states).
- `Size`, `BlockSize`, `Prefetch`, `Request` (`Fetch`): a file that is not a
  whole number of blocks, and requests within, across and beyond its blocks.
- `BufSize`, `Start` (`Stream`): a buffer that divides the block, and every
  offset up to one beyond the file, aligned or not. The file has two and almost
  three blocks, so that one is purged and one prefetched. What a file of a whole
  number of blocks does differently (`Overreads`) is in the theorem, which is about
  all sizes; the run was repeated for 14 combinations of sizes, some of them such.
- `MaxFaults` (`Transfer`): cuts, restarts, removed and replaced files, and changes of the
  index. Two let a fetch lose one owner and one path of the other, or find
  something else at it.
- `Expiry` (`Frontend`): the three ticks of the code. `MaxChanges`: two, so that a
  name appears, changes and disappears while an answer is on its way.
- `MaxKeys` (`Process`): two generations of keys, so that an old and a new one can
  meet; two processes at once.

`CHECK_DEADLOCK FALSE` is set in `fetch_readers` and `stream_delivery`, where a
panic or the end of the stream ends everything, and in `publish_reconnect` and
`transfer`, whose bounds end the changes.

### Fairness

- `BoltDB`: a goroutine in PeerDisconnected's loop goes on.
- `Fetch`: every call to a peer returns, with an answer or the error of a
  broken connection, and a reader that can go on does.
- `Stream`: the same, and the client goes on copying. Without that the stream
  stays open, which is the client's choice.
- `Session`: a thread goes on; its request is answered or its connection cut.
- `Scanner`: Run's loop goes on. Writes and faults end by their bounds.
- `Publish`: the scanner and every run of the callback go on, and so does every
  thread with a request, which is answered or fails with the connection. Nothing
  is assumed of a thread that waits in the callback for others.
- `Transfer`: the goroutine of a fetch and the handler that serves it go on.
  Faults end by their bound; nothing is assumed of them.
- `Frontend`: a request that has begun goes on, its calls are answered or fail,
  and the ticker ticks. Requests need not come.
- `Process`: `main` goes on when there is a result, and a module whose context is
  cancelled returns or is stuck.

All are weak fairness of goroutines that the Go scheduler runs and that wait
for nothing but the steps named.

## Proofs

The theorems hold for every value of the constants that satisfies the named
assumptions. Most of the properties are not inductive; what was added to them is
the substance of the proofs.

**`InmemDBProofs`**, for any peers, users, contents and any finite set of paths:

- `TypeCorrect`: `TypeOK`.
- `CountsCorrect`: `CountsExact` and `NothingLost`, the latter also on its own as
  `NothingLostAlways`. The invariant is `CountInv`: the count of a hash and an owner
  is the cardinality of the set of the owner's files with that hash, keys are the
  owners with such files, and a published file is stored with its hash. A step
  changes the set of files by an element or, in PeerDisconnected, by a set of
  victims that all belong to the leaving peer; lemmas about cardinality give the
  new counts.
- `AnswersCorrect`: `AnswersExact`, from `CountInv`: if no other user has a content of
  the peer, the victims of its disconnect are all of its files.
- `RefsAlwaysCover`: `RefsCover`. `CoverInv` says the same of directories that are not
  in the tree, because storing a file may create any of them. It rests on the shape
  of the tree, which is a lemma (`ShapeCorrect`).

**`DiskDBProofs`**. About `BoltDB`: `TypeCorrect` (`TypeOK`), `DirsAlwaysExact` (`DirsExact`),
`IndexAlwaysExact` (`IndexExact`) and `HashAlwaysListed` (`HashListed`), together as
`BoltInv`. It adds that buckets in `byOwner` and the lists of running
clean-ups name only files of the peer's own user, so that a clean-up cannot delete
those of another, and that a stored content is one its path can have.

About `SqliteDB`: `NoGhostsAlways` (`NoGhosts`) and `TwiceAtMostAlways`
(`TwiceAtMost`). `CacheInv` adds that a directory that is named twice has a slice of
its own: this stops the third time.

**`FetchProofs`**, for any sizes, readers and prefetching, and for requests of any
offset and size:

- `TypeCorrect`, and `ChannelsCorrect` (`ChannelsSound`), which is inductive with
  `TypeOK`: a block being fetched has no data, so that no reader purges it.
- `PanicsExplained` (`PanicsOnlyBeyondEnd`) and `ReadsExact` (`ExactBytes`). `SliceInv`
  says what a block in the cache is, `RequestInv` that a reader that waits has passed
  the early returns, `ResultInv` that results are exact. The bytes of a Read are
  joined from slices by a recursive function; that joining whole blocks gives
  consecutive bytes is an induction over the number of blocks, in the form of a
  set that contains 0 and with n also n + 1 (`SetInduction`).

About a stream on a handle of its own (`OwnHandle`), for any sizes of file, block
and buffer:

- `AlignedAlwaysSafe`: `AlignedSafe`.
- `StreamImplements`: `StreamSpec => Refines`. Initial states map to initial states,
  the steps of `Fetch` below a Read to stutters, except for a panic, which breaks the
  stream, and an answer that is too short, which cuts it; `Returns` maps to delivering
  bytes, to the end or to an error. The invariant `StreamInv` adds to that of `Fetch`
  that the handle is read between `Begin` and `Returns` only (`TurnInv`), that what was
  delivered is a whole number of buffers while the stream is open (`StreamType`), and
  that a Read gives up only after an error or because of the empty block behind the
  file (`MissInv`, `WaitInv`, `FailInv`). The last alternative is what `Overreads` excepts;
  it was found here, since the run's sizes do not have it.

**`TransferProofs`**, for any peers, paths, lists of owners and handles, and any number
of faults: `FetchAlwaysReliable` (`FetchReliable`). The invariant `FetchInv` says of every
fetch that what it counts on is there (`Sound`: the peer in reach, the paths indexed and
on disk, nothing else to open) and how far it has come (`Progress`): the owners it has left behind are none it
could count on, a call was lost only to such a one, a second attempt has an open
connection, and the handler's iteration over the live map still has to produce every
path that stays. The last point is why a path that is added or removed next to it does
no harm.

**`SessionProofs`**, for any threads, files and number of connections:

- `TypeCorrect`: `TypeOK`, with `FrameInv` about the frames of a stack: which one has
  written fields, has a callback, is about a file.
- `NothingLeftBehind`: `NothingOfTheGone`. `GoneInv` adds that fields are assigned in
  their order (`OrderInv`), that a connection with some and not all of them has a
  Signin that is halfway (`HalfInv`, `WroteInv`), and that whatever is stored is stored
  under the ident (`DbInv`). ServeConn waits for that Signin, so that Disconnected
  finds the ident wherever it finds the address, and deletes everything.
- `CallbackAlwaysKept`: `CallbackKept`. `CbInv`: unless reconnects overlapped, one thread
  at most has a callback, and the client has the real one or the no-op according to
  how far that thread is; a reconnect within its sign-in finds the no-op, so that
  stacks have two frames at most.
- `SignedAlways`: `SignedBetweenCalls`. `SignInv`: the connection is cut, refused or
  signed in, or a thread is about to sign in on it (`Pending`), and remains so.

**`ScannerProofs`**. About `Scanner`: `HashAlwaysTrusted` (`HashTrusted`) and `QuietPassAlwaysExact`
(`QuietPassExact`). `TrustInv` adds that no entry is younger than the last write, so
that the next write makes all of them old; `PassInv` says what a pass has done when
part of the files are visited.

About `Publish`, for any paths, hashes, changes, reconnects and any number of threads
and of frontends' goroutines:

- `IndexAlwaysComplete`: `IndexComplete`. `LiveInv` says that the last context is never
  cancelled, whichever runs of the callback overlap, and that its listener is in the
  list, or in the slice that is about to become the list, once its run has registered
  it. `IndexInv`: a cached file is in the index, or the loop of `set` has that listener
  still ahead of it, or the last export has the file with its present hash in its copy
  or is about to make the copy (`Filed`). Putting the last listener in the place of a
  removed one never moves it behind the position of the loop (`StillThere`): this is
  what the removal in the middle of the loop depends on.
- `PublishedAlwaysAll`: `PublishedAll`. `KnownInv` is the same about the master: the scanner
  or the last export is about to hand the file to a thread, or it has (`Told`), and then
  no order in which the threads send what they have leaves the master without it
  (`Reaches`). `FileInv` adds that loop variables which requests point to are files.
- `AlwaysExactAtFirst`: `ExactAtFirst`. `FirstInv`: there is one listener, index and master
  differ from the cache by the file alone that the scanner is busy with, and a file
  that no request overtook has one request under way at most (`PublishedAs`).

**`FrontendProofs`**, for any names and any number of requests at once:
`MissesAlwaysBounded` (`MissesBounded`). A request is late if it is about to store a listing
without the name, and able if it may still miss the name before another such listing
is stored (`Able`). `Bounded`: twice the number of misses and of able requests is at most
m(m + 1), where m requests are not late. A miss takes one request out of the able ones,
since it goes on to purge; a late store adds one to m and makes m able at most.

**`ProcessProofs`**, for any number of processes and generations of keys:
`KeysAlwaysMatch` (`KeysMatch`) and `ExitAlwaysTellsAll` (`ExitTellsAll`). `KeyInv` says what
is in the files while a process makes them and that no two make the same, `ResultInv`
that `main` waits for as many results as there are left.

The assumptions, which TLC evaluates in every run:

- `Database`: a path has its user in front, a content is a set of hashes, `None` is
  none of them.
- `Fetch`: sizes are naturals, blocks are not empty. `Stream`: buffers are not empty.
  That the handle has one reader whose panics nobody recovers is a hypothesis of the two
  theorems about streams.
- `Transfer`: lists of owners are not empty.
- `Session`: there is a connection to begin with.
- `Scanner`: `None` is no entry of a cache and no result of a stat.
- `Publish`: `None` is no hash and no request; threads and frontends' goroutines differ.
- `Frontend`: finitely many requests are served at once; `None` and `Dir` are no hashes,
  and the root is not one of its names.
- `Process`: a process has finitely many frontends.

All invariants that the runs check are proved. Only model-checked are the liveness
properties (`CleanUpEnds`, `ReadReturns`, `StreamEnds`, `CallReturns`, `Converges`,
`SetReturns`, `FetchEnds`, `EventuallyFresh`, `ExitsWhenCancelled`): fairness and `ENABLED`
are out of the prover's reach. The inductive invariants of `Transfer`
and `Publish` were also checked with TLC, on 0.6 and 0.9 million states.

## Not modelled

- X.509, TLS and the computation of tokens: calls into crypto libraries. A
  certificate is the key it certifies.
- Logging, flags beyond what they choose in `main`, the expansion of paths, the
  format of listings, and operations that only answer that the file system is
  read-only (`ENOSYS`).
- The check of the user id in FUSE and the password of FTP: one comparison each.
- The parsing of `--share` and more than one share per peer: shares are prefixes
  of paths, with a scanner each and nothing in common but the threads.
- The local cache of the fetcher: it has flags and no code. Latencies are
  measured, logged and never used.
- GetDir and GetOwners of the bolt and sqlite databases read in one transaction
  and change nothing but sqlite's cache.
- Whether what a peer reads still has the hash it was asked for: nothing compares them
  (`src/server.go:230`). Files that have become shorter are in `Fetch`.
- The size of a file next to its time: both are compared in the same place.
- Torn reads of strings and reordered writes, below the interleaving of steps.

## Plan

Done, in this order: the databases, because everybody depends on their answers;
the fetcher; the sessions; the scanner and its publications; streams and their
refinement; the transfer between peers; the frontends' cache; the process and
its keys.

Next: a composition of `Session` with `BoltDB`'s clean-up, for a peer that returns
while its old session is being removed.
