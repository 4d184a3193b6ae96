-------------------------------- MODULE Fetch --------------------------------
(***************************************************************************)
(* src/fetch.go: an open file (pfHandle) that is read by several           *)
(* goroutines at once and fetched from its peers block by block.           *)
(*                                                                         *)
(* A byte is represented by its position in the file, so that a sequence   *)
(* of bytes says where each of them came from.  cache[b] is the slice of   *)
(* block b, Nil for a nil slice.  The channel active[b] is not nil for     *)
(* b \in active, and not yet closed for b \in running, which is as long as *)
(* the goroutine started by fetch has not stored its answer.  A reader     *)
(* waits for the channels it saw; waiting[r] is the set of those that are  *)
(* still open.                                                             *)
(*                                                                         *)
(* The handle's mutex makes a step of each of the sections it protects.    *)
(* A Read that panics ends the process, or only itself where the library   *)
(* that called it recovers the panic: bazil.org/fuse does, the FTP server  *)
(* does not.  A recovered panic in the first locked section leaves the     *)
(* mutex locked for ever.                                                  *)
(*                                                                         *)
(* The peers (src/server.go, Read) are modelled by their answers: an error *)
(* or the bytes of the block, the last few of which may be missing when    *)
(* the peer's file was cut short after it was hashed.                      *)
(*                                                                         *)
(* A definition D_Variant in front of D is D with a mistake in it: it is   *)
(* not used, and shows which property would notice the mistake.            *)
(***************************************************************************)
EXTENDS Integers, Sequences, FiniteSets

CONSTANTS Reader,    \* goroutines reading the handle
          Size,      \* the size of the file, in bytes
          BlockSize, \* 2^fetch_block_size_power
          Prefetch,  \* prefetch_blocks
          Request,   \* the [offset, size] a reader may ask for
          Lost,      \* numbers of bytes that may be missing from a block
          Recovers   \* the caller of Read recovers its panics

ASSUME SizeAssumption ==
  /\ Size \in Nat
  /\ BlockSize \in Nat \ {0}
  /\ Prefetch \in Nat
  /\ Lost \subseteq Nat
  /\ Recovers \in BOOLEAN

ASSUME RequestAssumption == Request \subseteq [offset : Nat, size : Nat]

VARIABLES cache,     \* cache[b]: the bytes of block b, or Nil
          active,    \* the blocks whose channel is not nil
          running,   \* the blocks whose channel is open
          lastErr,   \* lastErr # nil
          short,     \* some peer's answer was cut short
          stuck,     \* {}, or {q} if the Read of q has left the mutex locked
          pc,        \* pc[r]: where reader r is in Read
          req,       \* req[r]: its request
          waiting,   \* waiting[r]: the open channels it waits for
          result     \* result[r]: what its last Read returned

handle == <<cache, active, running, lastErr, short, stuck>>
readers == <<pc, req, waiting, result>>
vars == <<handle, readers>>

\* A panic of any goroutine that nobody recovers ends the process.
crashed == \E r \in Reader : pc[r] = "panic"

\* A goroutine that wants the mutex gets it.
CanLock == ~crashed /\ stuck = {}

\* A nil slice.  A peer's empty answer is one too: encoding/gob does not
\* transmit an empty slice, so the reply keeps its nil.
Nil == << >>

\* What Read returns: bytes with a nil error, or an error; or it has panicked,
\* which the library answers with an error of its own.
Data(s)  == [kind |-> "data", bytes |-> s]
Error    == [kind |-> "error", bytes |-> << >>]
Panicked == [kind |-> "panic", bytes |-> << >>]
Empty    == Data(<< >>)

-----------------------------------------------------------------------------
\* NewHandle
NumBlocks == Size \div BlockSize + 1
Block == 0 .. NumBlocks - 1

\* The blocks of a request: from the one with its first byte ...
First(q) == q.offset \div BlockSize

End_Inclusive(q) == (q.offset + q.size + BlockSize - 1) \div BlockSize + 1

\* ... to the one before this.
End(q) == (q.offset + q.size + BlockSize - 1) \div BlockSize

Blocks(q) == First(q) .. End(q) - 1

\* blocks[0] of an empty list, cache[b] of a block the file does not have.
OutOfRange(q) == Blocks(q) = {} \/ ~(Blocks(q) \subseteq Block)

Unfetched(q) == {b \in Blocks(q) : cache[b] = Nil}

ToFetch(q) == Unfetched(q) \ active

Purged_Running(q) == {b \in {First(q) - 1} : b > 0}

\* The block before the request is given up if it is there.  Block 0 never is.
Purged(q) == {b \in {First(q) - 1} : b > 0 /\ cache[b] # Nil}

Prefetched_PastEnd(q) ==
  {b \in End(q) .. End(q) + Prefetch - 1 :
     b \notin active /\ (b \in Block => cache[b] = Nil)}

Prefetched(q) ==
  {b \in End(q) .. End(q) + Prefetch - 1 :
     b * BlockSize < Size /\ cache[b] = Nil /\ b \notin active}

\* The bytes of block b, k of which are missing.
Answer(b, k) ==
  LET left == Size - b * BlockSize
      n    == (IF left < BlockSize THEN left ELSE BlockSize) - k
  IN  [i \in 1 .. n |-> b * BlockSize + i - 1]

-----------------------------------------------------------------------------
Init ==
  /\ cache = [b \in Block |-> Nil]
  /\ active = {}
  /\ running = {}
  /\ lastErr = FALSE
  /\ short = FALSE
  /\ stuck = {}
  /\ pc = [r \in Reader |-> "idle"]
  /\ req = [r \in Reader |-> [offset |-> 0, size |-> 0]]
  /\ waiting = [r \in Reader |-> {}]
  /\ result = [r \in Reader |-> Empty]

Return(r, v) ==
  /\ pc' = [pc EXCEPT ![r] = "idle"]
  /\ result' = [result EXCEPT ![r] = v]
  /\ UNCHANGED <<req, waiting>>

Panic(r) ==
  /\ \/ Recovers /\ pc' = [pc EXCEPT ![r] = "idle"] /\ result' = [result EXCEPT ![r] = Panicked]
     \/ ~Recovers /\ pc' = [pc EXCEPT ![r] = "panic"] /\ UNCHANGED result
  /\ UNCHANGED <<cache, active, running, lastErr, short, waiting>>

\* Read at or beyond the end of the file.
ReadAtEnd(r, q) ==
  /\ ~crashed
  /\ pc[r] = "idle"
  /\ q.offset >= Size
  /\ req' = [req EXCEPT ![r] = q]
  /\ result' = [result EXCEPT ![r] = Empty]
  /\ UNCHANGED <<handle, pc, waiting>>

\* Read up to the unlock: missing blocks are fetched unless somebody has
\* started to, the block before them is purged, the next ones are prefetched.
Read(r, q) ==
  /\ CanLock
  /\ pc[r] = "idle"
  /\ q.offset < Size
  /\ ~OutOfRange(q)
  /\ cache' = [b \in Block |-> IF b \in Purged(q) THEN Nil ELSE cache[b]]
  /\ active' = (active \cup ToFetch(q) \cup Prefetched(q)) \ Purged(q)
  /\ running' = running \cup ToFetch(q) \cup Prefetched(q)
  /\ req' = [req EXCEPT ![r] = q]
  /\ pc' = [pc EXCEPT ![r] = IF Unfetched(q) = {} THEN "grab" ELSE "wait"]
  /\ waiting' = [waiting EXCEPT ![r] = Unfetched(q) \cap running']
  /\ UNCHANGED <<lastErr, short, stuck, result>>

\* ... or to the panic.  The blocks it has begun to fetch before that no longer
\* matter: the process is at its end, or nobody gets at the handle again.
ReadPanics(r, q) ==
  /\ CanLock
  /\ pc[r] = "idle"
  /\ q.offset < Size
  /\ OutOfRange(q)
  /\ req' = [req EXCEPT ![r] = q]
  /\ stuck' = IF Recovers THEN {q} ELSE stuck
  /\ Panic(r)

\* Read waits for a mutex that nobody will unlock.
ReadBlocks(r, q) ==
  /\ ~crashed
  /\ stuck # {}
  /\ pc[r] = "idle"
  /\ q.offset < Size
  /\ req' = [req EXCEPT ![r] = q]
  /\ pc' = [pc EXCEPT ![r] = "blocked"]
  /\ UNCHANGED <<handle, waiting, result>>

\* The goroutine of fetch stores what realFetch returned and closes the
\* channel, which wakes every reader that waits for it.
Close(b) ==
  /\ running' = running \ {b}
  /\ waiting' = [r \in Reader |-> waiting[r] \ {b}]
  /\ UNCHANGED <<active, stuck, pc, req, result>>

Fetched(b, k) ==
  /\ CanLock
  /\ b \in running
  /\ cache' = [cache EXCEPT ![b] = Answer(b, k)]
  /\ short' = (short \/ k > 0)
  /\ UNCHANGED lastErr
  /\ Close(b)

FetchFailed_NotClosed(b) ==
  /\ CanLock
  /\ b \in running
  /\ lastErr' = TRUE
  /\ running' = running \ {b}
  /\ UNCHANGED <<cache, active, short, stuck, readers>>

FetchFailed(b) ==
  /\ CanLock
  /\ b \in running
  /\ lastErr' = TRUE
  /\ UNCHANGED <<cache, short>>
  /\ Close(b)

\* The context is done before the reader has all its blocks.
Interrupted(r) ==
  /\ ~crashed
  /\ pc[r] = "wait"
  /\ pc' = [pc EXCEPT ![r] = "idle"]
  /\ waiting' = [waiting EXCEPT ![r] = {}]
  /\ result' = [result EXCEPT ![r] = Error]
  /\ UNCHANGED <<handle, req>>

-----------------------------------------------------------------------------
\* What Read makes of the slices of its blocks.
Lead(q) == q.offset - First(q) * BlockSize

Shortened_NoCut(s, q) == s

\* The last slice is cut where the request ends.
Shortened(s, q) ==
  LET cut == (Lead(q) + q.size) % BlockSize
  IN  IF cut > 0 /\ Len(s) > cut THEN SubSeq(s, 1, cut) ELSE s

\* Slice i of the request, after the cut and before the leading bytes go.
Slice(q, b) == IF b = End(q) - 1 THEN Shortened(cache[b], q) ELSE cache[b]

\* bufs[0][bo:] of a slice that is too short.
TooShort(q) == Lead(q) > Len(Slice(q, First(q)))

\* The slices from block b on, one after the other.
Joined(q) ==
  LET from[b \in Blocks(q)] ==
        Slice(q, b) \o (IF b = End(q) - 1 THEN << >> ELSE from[b + 1])
  IN  from[First(q)]

Assembled(q) == SubSeq(Joined(q), Lead(q) + 1, Len(Joined(q)))

Ready(r) == pc[r] = "grab" \/ (pc[r] = "wait" /\ waiting[r] = {})

Complete(q) == \A b \in Blocks(q) : cache[b] # Nil

\* The second locked section: every block is there ...
Grab(r) ==
  /\ CanLock
  /\ Ready(r)
  /\ Complete(req[r])
  /\ ~TooShort(req[r])
  /\ Return(r, Data(Assembled(req[r])))
  /\ UNCHANGED handle

\* with the mutex unlocked again, and the first slice too short ...
GrabPanics(r) ==
  /\ CanLock
  /\ Ready(r)
  /\ Complete(req[r])
  /\ TooShort(req[r])
  /\ Panic(r)
  /\ UNCHANGED <<stuck, req>>

\* ... or one is not, and lastErr is read after the unlock.
GrabMissing(r) ==
  /\ CanLock
  /\ Ready(r)
  /\ ~Complete(req[r])
  /\ pc' = [pc EXCEPT ![r] = "fail"]
  /\ UNCHANGED <<handle, req, waiting, result>>

GiveUp(r) ==
  /\ ~crashed
  /\ pc[r] = "fail"
  /\ Return(r, IF lastErr THEN Error ELSE Empty)
  /\ UNCHANGED handle

-----------------------------------------------------------------------------
Next ==
  \/ \E r \in Reader, q \in Request : ReadAtEnd(r, q) \/ Read(r, q) \/ ReadPanics(r, q)
  \/ \E r \in Reader, q \in Request : ReadBlocks(r, q)
  \/ \E b \in Block, k \in Lost : Fetched(b, k)
  \/ \E b \in Block : FetchFailed(b)
  \/ \E r \in Reader : Interrupted(r)
  \/ \E r \in Reader : Grab(r) \/ GrabPanics(r) \/ GrabMissing(r) \/ GiveUp(r)

Spec == Init /\ [][Next]_vars

\* Every call to a peer returns, with an answer or with the error of a broken
\* connection, and a goroutine that can run does.
Fairness ==
  /\ \A b \in Block : WF_vars(FetchFailed(b) \/ \E k \in Lost : Fetched(b, k))
  /\ \A r \in Reader :
       WF_vars(Grab(r) \/ GrabPanics(r) \/ GrabMissing(r) \/ GiveUp(r))

FairSpec == Spec /\ Fairness

-----------------------------------------------------------------------------
\* The handle's slices stay within the blocks of the file.
TypeOK ==
  /\ cache \in [Block -> Seq(0 .. Size - 1)]
  /\ active \subseteq Block
  /\ running \subseteq Block
  /\ lastErr \in BOOLEAN
  /\ short \in BOOLEAN
  /\ stuck \subseteq [offset : Nat, size : Nat]
  /\ pc \in [Reader -> {"idle", "wait", "grab", "fail", "blocked", "panic"}]
  /\ req \in [Reader -> [offset : Nat, size : Nat]]
  /\ waiting \in [Reader -> SUBSET Block]

\* A channel is closed once, and by the goroutine that made it: while a fetch
\* is under way its block has no data, so that no reader purges it and closes
\* or replaces its channel; and nobody waits for a channel that nobody closes.
ChannelsSound ==
  /\ running \subseteq active
  /\ \A b \in running : cache[b] = Nil
  /\ \A r \in Reader : waiting[r] \subseteq running

\* The bytes request q should yield.
Wanted(q) ==
  LET n == (IF q.offset + q.size < Size THEN q.offset + q.size ELSE Size) - q.offset
  IN  [i \in 1 .. n |-> q.offset + i - 1]

Returned(r) == pc[r] = "idle" /\ result[r].kind = "data" /\ result[r] # Empty

\* As long as the peers' files are what was hashed, a Read that returns bytes
\* returns exactly those that were asked for, whatever was fetched, purged or
\* fetched again by other readers while it waited.  Even from files that were
\* cut short it never returns more than was asked for: src/fetch.go:250 logs
\* the case and pfStream relies on it.
ExactBytes ==
  \A r \in Reader :
    /\ ~short /\ Returned(r) => result[r].bytes = Wanted(req[r])
    /\ pc[r] = "idle" => Len(result[r].bytes) <= req[r].size

\* The request does not go beyond the last block with bytes in it: what the
\* kernel and a stream that reads aligned pieces ask for.
Fits(q) ==
  q.size > 0 /\ q.offset + q.size <= ((Size + BlockSize - 1) \div BlockSize) * BlockSize

\* As long as no answer is cut short, a panic needs a request beyond the end of
\* the file; and whatever the answers, the mutex stays locked only after such a
\* request.
PanicsOnlyBeyondEnd ==
  /\ ~short => \A r \in Reader :
       pc[r] = "panic" \/ (pc[r] = "idle" /\ result[r] = Panicked) => ~Fits(req[r])
  /\ \A q \in stuck : ~Fits(q)

\* Every Read returns, unless one has panicked with the mutex locked: the others
\* wait for it for ever then, and for the blocks that cannot be stored.
ReadReturns ==
  \A r \in Reader : (pc[r] # "idle") ~> (pc[r] = "idle" \/ crashed \/ stuck # {})
=============================================================================
