----------------------------- MODULE FetchProofs -----------------------------
(***************************************************************************)
(* Proofs about Fetch, for any file and block size, any readers and any    *)
(* prefetching, and about Stream, which extends it, for any buffer size    *)
(* and any start.  What is shown of a stream rests on what is shown of     *)
(* every Read.                                                             *)
(***************************************************************************)
EXTENDS Stream, SequenceTheorems, WellFoundedInduction, TLAPS

\* The number of blocks is a positive number.
LEMMA NumBlocksType ==
  /\ NumBlocks \in Nat \ {0}
  /\ Size < NumBlocks * BlockSize
<1>1. Size \in Nat /\ BlockSize \in Nat /\ BlockSize > 0
  BY SizeAssumption
<1>2. Size \div BlockSize \in Nat
  BY <1>1
<1>3. Size % BlockSize < BlockSize /\ Size = BlockSize * (Size \div BlockSize) + (Size % BlockSize)
  BY <1>1
<1>4. (Size \div BlockSize + 1) * BlockSize = BlockSize * (Size \div BlockSize) + BlockSize
  BY <1>1, <1>2
<1> QED
  BY <1>1, <1>2, <1>3, <1>4 DEF NumBlocks

\* A block that begins before the end of the file is one of the handle's.
LEMMA BeginsInFile ==
  ASSUME NEW b \in Nat, b * BlockSize < Size
  PROVE  b \in Block
<1> DEFINE n == NumBlocks
<1>1. n \in Nat /\ Size < n * BlockSize /\ BlockSize \in Nat /\ Size \in Nat
  BY NumBlocksType, SizeAssumption
<1> HIDE DEF n
<1>2. ASSUME b >= n
      PROVE  FALSE
  <2>1. PICK k \in Nat : b = n + k
    <3>1. b - n \in Nat /\ b = n + (b - n)
      BY <1>1, <1>2
    <3> QED
      BY <3>1
  <2>2. b * BlockSize = n * BlockSize + k * BlockSize
    BY <1>1, <2>1
  <2>3. k * BlockSize \in Nat /\ n * BlockSize \in Nat
    BY <1>1
  <2> QED
    BY <1>1, <2>2, <2>3
<1>3. b < n
  BY <1>1, <1>2
<1> QED
  BY <1>1, <1>3 DEF Block, n

\* The bytes of a block are bytes of the file.
LEMMA AnswerType ==
  ASSUME NEW b \in Block, NEW k \in Lost
  PROVE  Answer(b, k) \in Seq(0 .. Size - 1)
<1>1. b \in Nat /\ k \in Nat /\ Size \in Nat /\ BlockSize \in Nat
  BY NumBlocksType, SizeAssumption DEF Block
<1> DEFINE lo   == b * BlockSize
           left == Size - lo
           n    == (IF left < BlockSize THEN left ELSE BlockSize) - k
           s    == [i \in 1 .. n |-> lo + i - 1]
<1>2. lo \in Nat
  BY <1>1
<1>3. Answer(b, k) = s
  BY DEF Answer
<1> HIDE DEF lo
<1>4. n \in Int /\ n <= Size - lo
  BY <1>1, <1>2
<1>5. \A i \in 1 .. n : lo + i - 1 \in 0 .. Size - 1
  BY <1>1, <1>2, <1>4
<1>6. s \in [1 .. n -> 0 .. Size - 1]
  BY <1>5
<1> HIDE DEF s, n
<1>7. PICK m \in Nat : 1 .. n = 1 .. m
  <2>1. CASE n >= 0
    BY <1>4, <2>1
  <2>2. CASE n < 0
    <3>1. 1 .. n = 1 .. 0
      BY <1>4, <2>2
    <3> QED
      BY <3>1
  <2> QED
    BY <1>4, <2>1, <2>2
<1>8. s \in [1 .. m -> 0 .. Size - 1]
  BY <1>6, <1>7
<1>9. s \in Seq(0 .. Size - 1)
  BY <1>8, SeqDef, Zenon
<1> QED
  BY <1>3, <1>9

\* The steps of readers that may ask for anything, as those of a stream do.
AnyNext ==
  \/ \E r \in Reader, q \in [offset : Nat, size : Nat] :
       ReadAtEnd(r, q) \/ Read(r, q) \/ ReadPanics(r, q) \/ ReadBlocks(r, q)
  \/ \E b \in Block, k \in Lost : Fetched(b, k)
  \/ \E b \in Block : FetchFailed(b)
  \/ \E r \in Reader : Interrupted(r)
  \/ \E r \in Reader : Grab(r) \/ GrabPanics(r) \/ GrabMissing(r) \/ GiveUp(r)

LEMMA NextIsAny == [Next]_vars => [AnyNext]_vars
BY RequestAssumption DEF Next, AnyNext

\* The blocks Read starts to fetch are blocks of the handle without data.
LEMMA FetchesMissing ==
  ASSUME NEW q \in [offset : Nat, size : Nat], ~OutOfRange(q)
  PROVE  /\ ToFetch(q) \subseteq Block
         /\ Prefetched(q) \subseteq Block
         /\ Unfetched(q) \subseteq Block
         /\ \A b \in ToFetch(q) \cup Prefetched(q) : cache[b] = Nil
         /\ Purged(q) \cap (ToFetch(q) \cup Prefetched(q)) = {}
<1>1. Blocks(q) \subseteq Block /\ Blocks(q) # {}
  BY DEF OutOfRange
<1>2. q.offset \in Nat /\ q.size \in Nat /\ BlockSize \in Nat \ {0} /\ Prefetch \in Nat
  BY SizeAssumption
<1>3. First(q) \in Nat /\ End(q) \in Nat
  BY <1>2 DEF First, End
<1>4. ASSUME NEW b \in Prefetched(q)
      PROVE  b \in Block /\ cache[b] = Nil
  <2>1. b \in Nat /\ b * BlockSize < Size /\ cache[b] = Nil
    BY <1>2, <1>3 DEF Prefetched
  <2> QED
    BY <2>1, BeginsInFile
<1> QED
  BY <1>1, <1>4 DEF ToFetch, Unfetched, Purged

\* Every action preserves the types.
LEMMA TypeStep == TypeOK /\ [AnyNext]_vars => TypeOK'
<1> SUFFICES ASSUME TypeOK, [AnyNext]_vars
             PROVE  TypeOK'
  OBVIOUS
<1> USE DEF TypeOK
<1>1. ASSUME NEW r \in Reader, NEW q \in [offset : Nat, size : Nat], ReadAtEnd(r, q)
      PROVE  TypeOK'
  BY <1>1 DEF ReadAtEnd, handle
<1>2. ASSUME NEW r \in Reader, NEW q \in [offset : Nat, size : Nat], Read(r, q)
      PROVE  TypeOK'
  <2>1. /\ ToFetch(q) \subseteq Block
        /\ Prefetched(q) \subseteq Block
        /\ Unfetched(q) \subseteq Block
    BY <1>2, FetchesMissing DEF Read
  <2>2. cache' \in [Block -> Seq(0 .. Size - 1)]
    <3>1. Nil \in Seq(0 .. Size - 1)
      BY DEF Nil
    <3> QED
      BY <1>2, <3>1 DEF Read
  <2>3. active' \subseteq Block /\ running' \subseteq Block
    BY <1>2, <2>1 DEF Read
  <2>4. pc' \in [Reader -> {"idle", "wait", "grab", "fail", "blocked", "panic"}]
    BY <1>2 DEF Read
  <2>5. req' \in [Reader -> [offset : Nat, size : Nat]]
    BY <1>2 DEF Read
  <2>6. waiting' \in [Reader -> SUBSET Block]
    BY <1>2, <2>1 DEF Read
  <2> QED
    BY <1>2, <2>2, <2>3, <2>4, <2>5, <2>6 DEF Read
<1>3. ASSUME NEW r \in Reader, NEW q \in [offset : Nat, size : Nat],
             ReadPanics(r, q) \/ ReadBlocks(r, q)
      PROVE  TypeOK'
  BY <1>3 DEF ReadPanics, ReadBlocks, Panic, handle
<1>4. ASSUME NEW b \in Block, NEW k \in Lost, Fetched(b, k)
      PROVE  TypeOK'
  BY <1>4, AnswerType DEF Fetched, Close
<1>5. ASSUME NEW b \in Block, FetchFailed(b)
      PROVE  TypeOK'
  BY <1>5 DEF FetchFailed, Close
<1>6. ASSUME NEW r \in Reader, Interrupted(r)
      PROVE  TypeOK'
  BY <1>6 DEF Interrupted, handle
<1>7. ASSUME NEW r \in Reader, Grab(r) \/ GrabPanics(r) \/ GrabMissing(r) \/ GiveUp(r)
      PROVE  TypeOK'
  BY <1>7 DEF Grab, GrabPanics, GrabMissing, GiveUp, Return, Panic, handle
<1>8. CASE UNCHANGED vars
  BY <1>8 DEF vars, handle, readers
<1> QED
  BY <1>1, <1>2, <1>3, <1>4, <1>5, <1>6, <1>7, <1>8 DEF AnyNext

\* The state of a handle always has its type: in particular every block that
\* is fetched or waited for is one the handle has a slot for.
THEOREM TypeCorrect == Spec => []TypeOK
<1>1. Init => TypeOK
  <2>1. Nil \in Seq(0 .. Size - 1)
    BY DEF Nil
  <2>2. [offset |-> 0, size |-> 0] \in [offset : Nat, size : Nat]
    OBVIOUS
  <2> SUFFICES ASSUME Init
               PROVE  TypeOK
    OBVIOUS
  <2>3. cache \in [Block -> Seq(0 .. Size - 1)]
    BY <2>1 DEF Init
  <2>4. req \in [Reader -> [offset : Nat, size : Nat]]
    BY <2>2 DEF Init
  <2>5. /\ active \subseteq Block
        /\ running \subseteq Block
        /\ lastErr \in BOOLEAN
        /\ short \in BOOLEAN
        /\ stuck \subseteq [offset : Nat, size : Nat]
        /\ pc \in [Reader -> {"idle", "wait", "grab", "fail", "blocked", "panic"}]
        /\ waiting \in [Reader -> SUBSET Block]
    BY DEF Init
  <2> QED
    BY <2>3, <2>4, <2>5 DEF TypeOK
<1> QED
  BY <1>1, TypeStep, NextIsAny, PTL DEF Spec

\* Every action keeps the channels sound.
LEMMA ChannelsStep == TypeOK /\ ChannelsSound /\ [AnyNext]_vars => ChannelsSound'
<1> SUFFICES ASSUME TypeOK, ChannelsSound, [AnyNext]_vars
             PROVE  ChannelsSound'
  OBVIOUS
<1>1. ASSUME NEW r \in Reader, NEW q \in [offset : Nat, size : Nat], Read(r, q)
      PROVE  ChannelsSound'
  <2>1. /\ ToFetch(q) \subseteq Block
        /\ Prefetched(q) \subseteq Block
        /\ \A b \in ToFetch(q) \cup Prefetched(q) : cache[b] = Nil
        /\ Purged(q) \cap (ToFetch(q) \cup Prefetched(q)) = {}
    BY <1>1, FetchesMissing DEF Read
  <2>2. Purged(q) \cap running = {}
    BY DEF Purged, ChannelsSound
  <2>3. running' \subseteq active'
    BY <1>1, <2>1, <2>2 DEF Read, ChannelsSound
  <2>4. \A b \in running' : cache'[b] = Nil
    BY <1>1, <2>1 DEF Read, ChannelsSound, TypeOK
  <2>5. \A x \in Reader : waiting'[x] \subseteq running'
    BY <1>1 DEF Read, ChannelsSound, TypeOK
  <2> QED
    BY <2>3, <2>4, <2>5 DEF ChannelsSound
<1>2. ASSUME NEW b \in Block, NEW k \in Lost, Fetched(b, k)
      PROVE  ChannelsSound'
  BY <1>2 DEF Fetched, Close, ChannelsSound, TypeOK
<1>3. ASSUME NEW b \in Block, FetchFailed(b)
      PROVE  ChannelsSound'
  BY <1>3 DEF FetchFailed, Close, ChannelsSound, TypeOK
<1>4. ASSUME NEW r \in Reader, Interrupted(r)
      PROVE  ChannelsSound'
  BY <1>4 DEF Interrupted, ChannelsSound, TypeOK, handle
<1>5. CASE UNCHANGED <<cache, active, running, waiting>>
  BY <1>5 DEF ChannelsSound
<1> QED
  BY <1>1, <1>2, <1>3, <1>4, <1>5
  DEF AnyNext, ReadAtEnd, ReadPanics, ReadBlocks, Panic, Grab, GrabPanics, GrabMissing, GiveUp,
      Return, vars, handle, readers

\* No channel of a handle is ever closed twice, closed by anybody but the
\* goroutine that fetches its block, or replaced while it is open; and no reader
\* waits for a channel that nobody will close.
THEOREM ChannelsCorrect == Spec => []ChannelsSound
<1>1. Init => ChannelsSound
  BY DEF Init, ChannelsSound
<1> QED
  BY <1>1, TypeCorrect, ChannelsStep, NextIsAny, PTL DEF Spec
-----------------------------------------------------------------------------
(* Blocks and bytes: division with remainder.                              *)

\* Multiplication with a number of bytes preserves the order,
LEMMA ProductMonotone ==
  ASSUME NEW a \in Nat, NEW b \in Nat, NEW n \in Nat, a <= b
  PROVE  a * n \in Nat /\ b * n \in Nat /\ a * n <= b * n
<1>1. PICK k \in Nat : b = a + k
  <2>1. b - a \in Nat /\ b = a + (b - a)
    OBVIOUS
  <2> QED
    BY <2>1
<1>2. b * n = a * n + k * n
  BY <1>1
<1>3. a * n \in Nat /\ k * n \in Nat
  OBVIOUS
<1> QED
  BY <1>2, <1>3

\* and reflects it.
LEMMA ProductReflects ==
  ASSUME NEW a \in Nat, NEW b \in Nat, NEW n \in Nat, a * n < b * n
  PROVE  a < b
<1>1. b <= a => b * n <= a * n
  BY ProductMonotone
<1>2. a * n \in Nat /\ b * n \in Nat
  OBVIOUS
<1> QED
  BY <1>1, <1>2

\* Quotient and remainder,
LEMMA Division ==
  ASSUME NEW a \in Nat, NEW n \in Nat \ {0}
  PROVE  /\ a \div n \in Nat
         /\ (a \div n) * n \in Nat
         /\ (a \div n) * n <= a
         /\ a < (a \div n) * n + n
<1>1. a \div n \in Nat /\ a % n \in 0 .. n - 1
  OBVIOUS
<1>2. a = n * (a \div n) + (a % n)
  OBVIOUS
<1> DEFINE d == a \div n
<1>3. n * d = d * n /\ d * n \in Nat
  BY <1>1
<1> QED
  BY <1>1, <1>2, <1>3

\* and the remainder of what is put together from both.
LEMMA Remainder ==
  ASSUME NEW n \in Nat \ {0}, NEW k \in Nat, NEW m \in 0 .. n - 1
  PROVE  (k * n + m) % n = m
<1> DEFINE a == k * n + m
           d == a \div n
<1>1. k * n \in Nat /\ a \in Nat
  OBVIOUS
<1> HIDE DEF a
<1>2. d \in Nat /\ a % n \in 0 .. n - 1 /\ a = n * d + (a % n)
  BY <1>1
<1> HIDE DEF d
<1>3. n * d = d * n /\ d * n \in Nat
  BY <1>2
<1>4. a = k * n + m
  BY DEF a
<1>5. ASSUME k < d
      PROVE  FALSE
  <2>1. (k + 1) * n <= d * n
    BY <1>2, <1>5, ProductMonotone
  <2>2. (k + 1) * n = k * n + n
    OBVIOUS
  <2> QED
    BY <1>1, <1>2, <1>3, <1>4, <2>1, <2>2
<1>6. ASSUME d < k
      PROVE  FALSE
  <2>1. (d + 1) * n <= k * n
    BY <1>2, <1>6, ProductMonotone
  <2>2. (d + 1) * n = d * n + n
    BY <1>2
  <2> QED
    BY <1>1, <1>2, <1>3, <1>4, <2>1, <2>2
<1>7. k = d
  BY <1>2, <1>5, <1>6
<1>8. a % n = m
  BY <1>1, <1>2, <1>3, <1>4, <1>7
<1> QED
  BY <1>8 DEF a

\* The byte after the last one of a request.
Stop(q) == q.offset + q.size

\* Where a request begins and ends within its first and its last block.
LEMMA RequestShape ==
  ASSUME NEW q \in [offset : Nat, size : Nat]
  PROVE  /\ First(q) \in Nat /\ End(q) \in Nat /\ Stop(q) \in Nat
         /\ First(q) * BlockSize \in Nat /\ End(q) * BlockSize \in Nat
         /\ Lead(q) \in 0 .. BlockSize - 1
         /\ q.offset = First(q) * BlockSize + Lead(q)
         /\ Stop(q) <= End(q) * BlockSize
         /\ End(q) * BlockSize < Stop(q) + BlockSize
<1>1. BlockSize \in Nat \ {0} /\ q.offset \in Nat /\ q.size \in Nat
  BY SizeAssumption
<1>2. Stop(q) \in Nat /\ Stop(q) + BlockSize - 1 \in Nat
  BY <1>1 DEF Stop
<1>3. /\ First(q) \in Nat /\ First(q) * BlockSize \in Nat
      /\ First(q) * BlockSize <= q.offset
      /\ q.offset < First(q) * BlockSize + BlockSize
  BY <1>1, Division DEF First
<1>4. End(q) = (Stop(q) + BlockSize - 1) \div BlockSize
  BY DEF End, Stop
<1>5. /\ End(q) \in Nat /\ End(q) * BlockSize \in Nat
      /\ End(q) * BlockSize <= Stop(q) + BlockSize - 1
      /\ Stop(q) + BlockSize - 1 < End(q) * BlockSize + BlockSize
  BY <1>1, <1>2, <1>4, Division
<1>6. Lead(q) = q.offset - First(q) * BlockSize
  BY DEF Lead
<1> QED
  BY <1>1, <1>2, <1>3, <1>5, <1>6

\* A request that fits asks for blocks, and only for blocks the handle has.
LEMMA FitsInRange ==
  ASSUME NEW q \in [offset : Nat, size : Nat], Fits(q)
  PROVE  ~OutOfRange(q)
<1>1. /\ BlockSize \in Nat \ {0} /\ Size \in Nat /\ q.offset \in Nat /\ q.size \in Nat
      /\ NumBlocks \in Nat /\ Size < NumBlocks * BlockSize
      /\ Size + BlockSize - 1 \in Nat
  BY SizeAssumption, NumBlocksType
<1> DEFINE C == (Size + BlockSize - 1) \div BlockSize
<1>2. q.size > 0 /\ Stop(q) <= C * BlockSize
  BY DEF Fits, Stop
<1>3. C \in Nat /\ C * BlockSize \in Nat /\ C * BlockSize <= Size + BlockSize - 1
  BY <1>1, Division
<1> HIDE DEF C
<1>4. /\ First(q) \in Nat /\ End(q) \in Nat
      /\ First(q) * BlockSize \in Nat /\ End(q) * BlockSize \in Nat
      /\ First(q) * BlockSize <= q.offset
      /\ Stop(q) <= End(q) * BlockSize /\ End(q) * BlockSize < Stop(q) + BlockSize
  BY <1>1, RequestShape
<1>5. First(q) < End(q)
  <2>1. First(q) * BlockSize < End(q) * BlockSize
    BY <1>1, <1>2, <1>4 DEF Stop
  <2> QED
    BY <1>1, <1>4, <2>1, ProductReflects
<1>6. End(q) < NumBlocks + 1
  <2>1. Stop(q) \in Nat /\ Stop(q) < NumBlocks * BlockSize + BlockSize
    BY <1>1, <1>2, <1>3 DEF Stop
  <2>2. End(q) <= C
    <3>1. (C + 1) * BlockSize = C * BlockSize + BlockSize /\ C + 1 \in Nat
      BY <1>1, <1>3
    <3>2. End(q) * BlockSize < (C + 1) * BlockSize
      BY <1>1, <1>2, <1>3, <1>4, <2>1, <3>1
    <3>3. End(q) < C + 1
      BY <1>1, <1>4, <3>1, <3>2, ProductReflects
    <3> QED
      BY <1>3, <1>4, <3>3
  <2>3. C < NumBlocks + 1
    <3>1. (NumBlocks + 1) * BlockSize = NumBlocks * BlockSize + BlockSize
      BY <1>1
    <3>2. C * BlockSize < (NumBlocks + 1) * BlockSize
      BY <1>1, <1>3, <3>1
    <3> QED
      BY <1>1, <1>3, <3>2, ProductReflects
  <2> QED
    BY <1>1, <1>3, <1>4, <2>2, <2>3
<1>7. First(q) \in Blocks(q) /\ Blocks(q) \subseteq Block
  BY <1>1, <1>4, <1>5, <1>6 DEF Blocks, Block
<1> QED
  BY <1>7 DEF OutOfRange

-----------------------------------------------------------------------------
(* Runs of bytes.                                                          *)

\* The bytes of the file from a up to e, which is not one of them.
Bytes(a, e) == [i \in 1 .. e - a |-> a + i - 1]

\* They are a sequence,
LEMMA BytesSeq ==
  ASSUME NEW a \in Nat, NEW e \in Nat, a <= e
  PROVE  /\ Bytes(a, e) \in Seq(Nat)
         /\ Len(Bytes(a, e)) = e - a
         /\ \A i \in 1 .. e - a : Bytes(a, e)[i] = a + i - 1
<1> DEFINE n == e - a
           s == [i \in 1 .. n |-> a + i - 1]
<1>1. n \in Nat
  OBVIOUS
<1>2. \A i \in 1 .. n : a + i - 1 \in Nat
  OBVIOUS
<1>3. s \in [1 .. n -> Nat]
  BY <1>2
<1>4. \A i \in 1 .. n : s[i] = a + i - 1
  OBVIOUS
<1>5. Bytes(a, e) = s
  BY DEF Bytes
<1> HIDE DEF n, s
<1>6. s \in Seq(Nat)
  BY <1>1, <1>3, SeqDef, Zenon
<1>7. Len(s) = n
  <2>1. DOMAIN s = 1 .. n /\ DOMAIN s = 1 .. Len(s) /\ Len(s) \in Nat
    BY <1>3, <1>6, LenProperties
  <2> QED
    BY <1>1, <2>1
<1> QED
  BY <1>4, <1>5, <1>6, <1>7 DEF n

\* two adjacent runs make one,
LEMMA BytesJoin ==
  ASSUME NEW a \in Nat, NEW b \in Nat, NEW e \in Nat, a <= b, b <= e
  PROVE  Bytes(a, b) \o Bytes(b, e) = Bytes(a, e)
<1> DEFINE s == Bytes(a, b)
           t == Bytes(b, e)
           w == Bytes(a, e)
<1>1. /\ s \in Seq(Nat) /\ Len(s) = b - a
      /\ \A i \in 1 .. b - a : s[i] = a + i - 1
  BY BytesSeq
<1>2. /\ t \in Seq(Nat) /\ Len(t) = e - b
      /\ \A i \in 1 .. e - b : t[i] = b + i - 1
  BY BytesSeq
<1>3. /\ w \in Seq(Nat) /\ Len(w) = e - a
      /\ \A i \in 1 .. e - a : w[i] = a + i - 1
  <2>1. a <= e
    OBVIOUS
  <2> QED
    BY <2>1, BytesSeq
<1> HIDE DEF s, t, w
<1>4. /\ s \o t \in Seq(Nat)
      /\ Len(s \o t) = Len(s) + Len(t)
      /\ \A i \in 1 .. Len(s) + Len(t) :
           (s \o t)[i] = IF i <= Len(s) THEN s[i] ELSE t[i - Len(s)]
  BY <1>1, <1>2, ConcatProperties
<1>5. Len(s \o t) = Len(w)
  BY <1>1, <1>2, <1>3, <1>4
<1>6. ASSUME NEW i \in 1 .. Len(s \o t)
      PROVE  (s \o t)[i] = w[i]
  <2>1. i \in 1 .. e - a /\ i \in 1 .. Len(s) + Len(t)
    BY <1>1, <1>2, <1>4
  <2>2. CASE i <= Len(s)
    <3>1. i \in 1 .. b - a
      BY <1>1, <2>1, <2>2
    <3> QED
      BY <1>1, <1>3, <1>4, <2>1, <2>2, <3>1
  <2>3. CASE ~(i <= Len(s))
    <3>1. i - Len(s) \in 1 .. e - b
      BY <1>1, <2>1, <2>3
    <3>2. t[i - Len(s)] = b + (i - Len(s)) - 1
      BY <1>2, <3>1
    <3>3. (s \o t)[i] = t[i - Len(s)]
      BY <1>4, <2>1, <2>3
    <3> QED
      BY <1>1, <1>3, <2>1, <3>2, <3>3
  <2> QED
    BY <2>2, <2>3
<1>7. s \o t = w
  BY <1>3, <1>4, <1>5, <1>6, SeqEqual
<1> QED
  BY <1>7 DEF s, t, w

\* and a part of a run is one.
LEMMA BytesPart ==
  ASSUME NEW a \in Nat, NEW b \in Nat, NEW c \in Nat, NEW e \in Nat,
         a <= b, b <= c, c <= e
  PROVE  SubSeq(Bytes(a, e), b - a + 1, c - a) = Bytes(b, c)
<1> DEFINE s == Bytes(a, e)
           m == b - a
           n == c - a
           t == SubSeq(s, m + 1, n)
           w == Bytes(b, c)
<1>1. /\ s \in Seq(Nat) /\ Len(s) = e - a
      /\ \A i \in 1 .. e - a : s[i] = a + i - 1
  <2>1. a <= e
    OBVIOUS
  <2> QED
    BY <2>1, BytesSeq
<1>2. /\ w \in Seq(Nat) /\ Len(w) = c - b
      /\ \A i \in 1 .. c - b : w[i] = b + i - 1
  BY BytesSeq
<1>3. m \in Nat /\ n \in Nat /\ m <= n /\ n <= e - a /\ n - m = c - b /\ b = a + m
  OBVIOUS
<1> HIDE DEF s, m, n, w
<1>4. /\ t \in Seq(Nat)
      /\ Len(t) = IF m + 1 <= n THEN n - (m + 1) + 1 ELSE 0
      /\ \A i \in 1 .. n - (m + 1) + 1 : t[i] = s[(m + 1) + i - 1]
  <2>1. \A i \in m + 1 .. n : s[i] \in Nat
    BY <1>1, <1>3
  <2>2. m + 1 \in Int /\ n \in Int
    BY <1>3
  <2> QED
    BY <2>1, <2>2, SubSeqProperties
<1> HIDE DEF t
<1>5. Len(t) = n - m
  BY <1>3, <1>4
<1>6. ASSUME NEW i \in 1 .. n - m
      PROVE  t[i] = w[i]
  <2>1. t[i] = s[m + i]
    <3>1. (m + 1) + i - 1 = m + i /\ i \in 1 .. n - (m + 1) + 1
      BY <1>3
    <3> QED
      BY <1>4, <3>1
  <2>2. m + i \in 1 .. e - a
    BY <1>3
  <2>3. s[m + i] = a + (m + i) - 1
    BY <1>1, <2>2
  <2>4. w[i] = b + i - 1
    BY <1>2, <1>3
  <2> QED
    BY <1>3, <2>1, <2>3, <2>4
<1>7. t = w
  BY <1>2, <1>3, <1>4, <1>5, <1>6, SeqEqual
<1> QED
  BY <1>7 DEF s, t, m, n, w

-----------------------------------------------------------------------------
(* Joining slices.                                                         *)

\* Induction over the natural numbers, for a set of them.
LEMMA SetInduction ==
  ASSUME NEW S, 0 \in S, \A n \in Nat : n \in S => n + 1 \in S
  PROVE  \A n \in Nat : n \in S
<1> DEFINE T == {n \in Nat : n \notin S}
<1> SUFFICES ASSUME T # {}
             PROVE  FALSE
  OBVIOUS
<1>1. PICK x \in T : \A y \in T : <<y, x>> \notin OpToRel(<, Nat)
  <2>1. T \subseteq Nat
    OBVIOUS
  <2> QED
    BY <2>1, NatLessThanWellFounded, WFMin
<1>2. \A y \in T : ~(y < x)
  BY <1>1 DEF OpToRel
<1>3. x \in Nat /\ x # 0 /\ x \notin S
  OBVIOUS
<1>4. x - 1 \in Nat /\ x - 1 < x /\ (x - 1) + 1 = x
  BY <1>3
<1>5. x - 1 \in S
  BY <1>2, <1>4
<1> QED
  BY <1>3, <1>4, <1>5

\* g joins the slices s[k] .. s[l] from every one of them on.
Joins(g, s, k, l) ==
  g = [b \in k .. l |-> s[b] \o (IF b = l THEN << >> ELSE g[b + 1])]

\* Slices can be joined.
LEMMA JoinsExist ==
  ASSUME NEW s, NEW k \in Nat, NEW l \in Nat, k <= l
  PROVE  \E g : Joins(g, s, k, l)
<1> DEFINE S == {n \in Nat : \E g : Joins(g, s, l - n, l)}
<1>1. 0 \in S
  <2> DEFINE g == [b \in l .. l |-> s[b] \o << >>]
  <2>1. Joins(g, s, l, l)
    BY DEF Joins
  <2>2. l - 0 = l
    OBVIOUS
  <2> HIDE DEF g
  <2>3. \E h : Joins(h, s, l - 0, l)
    BY <2>1, <2>2
  <2> QED
    BY <2>3
<1>2. ASSUME NEW n \in Nat, n \in S
      PROVE  n + 1 \in S
  <2>1. PICK g : Joins(g, s, l - n, l)
    BY <1>2
  <2> DEFINE m == l - n - 1
             h == [b \in m .. l |-> IF b = m THEN s[m] \o g[m + 1] ELSE g[b]]
  <2>2. m \in Int /\ m < l /\ m + 1 = l - n /\ l - (n + 1) = m
    OBVIOUS
  <2> HIDE DEF m
  <2>3. g = [b \in m + 1 .. l |-> s[b] \o (IF b = l THEN << >> ELSE g[b + 1])]
    BY <2>1, <2>2 DEF Joins
  <2>4. ASSUME NEW b \in m .. l
        PROVE  h[b] = s[b] \o (IF b = l THEN << >> ELSE h[b + 1])
    <3>1. h[b] = IF b = m THEN s[m] \o g[m + 1] ELSE g[b]
      OBVIOUS
    <3>2. b # l => h[b + 1] = g[b + 1]
      <4>1. b # l => b + 1 \in m .. l /\ b + 1 # m
        BY <2>2
      <4> QED
        BY <4>1
    <3> HIDE DEF h
    <3>3. CASE b = m
      <4>1. b # l
        BY <2>2, <3>3
      <4> QED
        BY <3>1, <3>2, <3>3, <4>1, Zenon
    <3>4. CASE b # m
      <4>1. b \in m + 1 .. l
        BY <2>2, <3>4
      <4>2. g[b] = s[b] \o (IF b = l THEN << >> ELSE g[b + 1])
        BY <2>3, <4>1
      <4> QED
        BY <3>1, <3>2, <3>4, <4>2, Zenon
    <3> QED
      BY <3>3, <3>4
  <2>5. Joins(h, s, m, l)
    <3>1. h = [b \in m .. l |-> h[b]]
      OBVIOUS
    <3> HIDE DEF h
    <3> QED
      BY <2>4, <3>1 DEF Joins
  <2> HIDE DEF h
  <2> QED
    BY <2>2, <2>5
<1> HIDE DEF S
<1>3. \A n \in Nat : n \in S
  BY <1>1, <1>2, SetInduction
<1>4. l - k \in Nat /\ l - (l - k) = k
  OBVIOUS
<1>5. l - k \in S
  BY <1>3, <1>4
<1> QED
  BY <1>4, <1>5 DEF S

\* What is joined of slices of at most n bytes, the last of at most m, is at
\* most that much.
LEMMA JoinedLength ==
  ASSUME NEW A, NEW n \in Nat, NEW m \in Nat, NEW k \in Nat, NEW l \in Nat,
         k <= l, NEW s, \A b \in k .. l : s[b] \in Seq(A) /\ Len(s[b]) <= n,
         Len(s[l]) <= m, NEW g, Joins(g, s, k, l)
  PROVE  g[k] \in Seq(A) /\ Len(g[k]) <= (l - k) * n + m
<1> DEFINE S == {i \in Nat : i <= l - k => /\ g[l - i] \in Seq(A)
                                          /\ Len(g[l - i]) <= i * n + m}
<1>0. \A b \in k .. l : g[b] = s[b] \o (IF b = l THEN << >> ELSE g[b + 1])
  BY DEF Joins
<1>1. 0 \in S
  <2>0. l \in k .. l
    OBVIOUS
  <2>1. g[l] = s[l] \o << >> /\ s[l] \in Seq(A)
    BY <1>0, <2>0, Zenon
  <2>2. g[l] = s[l]
    BY <2>1, ConcatEmptySeq
  <2>3. l - 0 = l /\ 0 * n + m = m
    OBVIOUS
  <2> QED
    BY <2>1, <2>2, <2>3
<1>2. ASSUME NEW i \in Nat, i \in S
      PROVE  i + 1 \in S
  <2> SUFFICES ASSUME i + 1 <= l - k
               PROVE  /\ g[l - (i + 1)] \in Seq(A)
                      /\ Len(g[l - (i + 1)]) <= (i + 1) * n + m
    OBVIOUS
  <2> DEFINE b == l - (i + 1)
  <2>1. b \in k .. l /\ b # l /\ b + 1 = l - i
    OBVIOUS
  <2>2. g[b + 1] \in Seq(A) /\ Len(g[b + 1]) <= i * n + m
    BY <1>2, <2>1
  <2> HIDE DEF b
  <2>3. g[b] = s[b] \o g[b + 1] /\ s[b] \in Seq(A) /\ Len(s[b]) <= n
    BY <1>0, <2>1
  <2>4. g[b] \in Seq(A) /\ Len(g[b]) = Len(s[b]) + Len(g[b + 1])
    BY <2>2, <2>3, ConcatProperties
  <2>5. (i + 1) * n + m = i * n + m + n /\ i * n \in Nat
    OBVIOUS
  <2>6. Len(s[b]) \in Nat /\ Len(g[b + 1]) \in Nat
    BY <2>2, <2>3, LenProperties
  <2>7. Len(g[b]) <= (i + 1) * n + m
    <3> DEFINE x == i * n
               y == (i + 1) * n
               u == Len(s[b])
               v == Len(g[b + 1])
    <3>1. y + m = x + m + n /\ x \in Nat /\ y \in Nat
      BY <2>5
    <3>2. Len(g[b]) = u + v /\ u \in Nat /\ v \in Nat /\ u <= n /\ v <= x + m
      BY <2>2, <2>3, <2>4, <2>6
    <3> HIDE DEF x, y, u, v
    <3>3. u + v <= y + m
      BY <3>1, <3>2
    <3> QED
      BY <3>2, <3>3 DEF y
  <2> QED
    BY <2>4, <2>7 DEF b
<1> HIDE DEF S
<1>3. \A i \in Nat : i \in S
  BY <1>1, <1>2, SetInduction
<1>4. l - k \in Nat /\ l - (l - k) = k
  OBVIOUS
<1>5. l - k \in S
  BY <1>3, <1>4
<1> QED
  BY <1>4, <1>5 DEF S

\* Whole blocks of n bytes and the bytes of the last one up to e make the bytes
\* from the first block on up to e.
LEMMA JoinedBytes ==
  ASSUME NEW n \in Nat, NEW e \in Nat, NEW k \in Nat, NEW l \in Nat, k <= l,
         l * n <= e, NEW s, s[l] = Bytes(l * n, e),
         \A b \in k .. l - 1 : s[b] = Bytes(b * n, (b + 1) * n),
         NEW g, Joins(g, s, k, l)
  PROVE  g[k] = Bytes(k * n, e)
<1> DEFINE S == {i \in Nat : i <= l - k => g[l - i] = Bytes((l - i) * n, e)}
<1>0. \A b \in k .. l : g[b] = s[b] \o (IF b = l THEN << >> ELSE g[b + 1])
  BY DEF Joins
<1>1. 0 \in S
  <2>0. l \in k .. l
    OBVIOUS
  <2>1. g[l] = s[l] \o << >>
    BY <1>0, <2>0, Zenon
  <2>2. l * n \in Nat
    OBVIOUS
  <2>3. s[l] \in Seq(Nat)
    BY <2>2, BytesSeq
  <2>4. g[l] = s[l]
    BY <2>1, <2>3, ConcatEmptySeq
  <2>5. l - 0 = l
    OBVIOUS
  <2> QED
    BY <2>4, <2>5
<1>2. ASSUME NEW i \in Nat, i \in S
      PROVE  i + 1 \in S
  <2> SUFFICES ASSUME i + 1 <= l - k
               PROVE  g[l - (i + 1)] = Bytes((l - (i + 1)) * n, e)
    OBVIOUS
  <2> DEFINE b == l - (i + 1)
  <2>1. /\ b \in k .. l - 1 /\ b \in k .. l /\ b \in Nat /\ b + 1 \in Nat
        /\ b # l /\ b + 1 = l - i /\ b <= b + 1 /\ b + 1 <= l
    OBVIOUS
  <2>2. g[b + 1] = Bytes((b + 1) * n, e)
    BY <1>2, <2>1
  <2> HIDE DEF b
  <2>3. g[b] = s[b] \o g[b + 1] /\ s[b] = Bytes(b * n, (b + 1) * n)
    BY <1>0, <2>1
  <2>4. b * n \in Nat /\ (b + 1) * n \in Nat /\ b * n <= (b + 1) * n
    BY <2>1, ProductMonotone
  <2>5. (b + 1) * n <= e
    <3>1. (b + 1) * n <= l * n /\ l * n \in Nat
      BY <2>1, ProductMonotone
    <3> QED
      BY <2>4, <3>1
  <2>6. g[b] = Bytes(b * n, e)
    <3> DEFINE x == b * n
               y == (b + 1) * n
    <3>1. g[b] = Bytes(x, y) \o Bytes(y, e)
      BY <2>2, <2>3
    <3>2. x \in Nat /\ y \in Nat /\ e \in Nat /\ x <= y /\ y <= e
      BY <2>4, <2>5
    <3> HIDE DEF x, y, b
    <3>3. Bytes(x, y) \o Bytes(y, e) = Bytes(x, e)
      BY ONLY <3>2, BytesJoin
    <3>4. g[b] = Bytes(x, e)
      BY ONLY <3>1, <3>3, Zenon
    <3> QED
      BY <3>4 DEF x
  <2> QED
    BY <2>6 DEF b
<1> HIDE DEF S
<1>3. \A i \in Nat : i \in S
  BY <1>1, <1>2, SetInduction
<1>4. l - k \in Nat /\ l - (l - k) = k
  OBVIOUS
<1>5. l - k \in S
  BY <1>3, <1>4
<1> QED
  BY <1>4, <1>5 DEF S

-----------------------------------------------------------------------------
(* The slices of a request.                                                *)

\* A request that Read goes on with after its early returns.
Proper(q) ==
  /\ q \in [offset : Nat, size : Nat]
  /\ q.offset < Size
  /\ ~OutOfRange(q)

\* Every slice has at most a block's bytes, and the whole block as long as no
\* answer was cut short.
SliceInv ==
  \A b \in Block :
    /\ Len(cache[b]) <= BlockSize
    /\ ~short => cache[b] \in {Nil, Answer(b, 0)}

\* Where block b of the file ends.
BlockEnd(b) == IF Size < (b + 1) * BlockSize THEN Size ELSE (b + 1) * BlockSize

\* The last block of a request, and how far into it the request goes.
Last(q) == End(q) - 1
Rest(q) == Stop(q) - Last(q) * BlockSize

\* A block begins within the file or right behind it.
LEMMA BlockBegins ==
  ASSUME NEW b \in Block
  PROVE  /\ b \in Nat /\ b * BlockSize \in Nat /\ b * BlockSize <= Size
         /\ (b + 1) * BlockSize = b * BlockSize + BlockSize
         /\ BlockEnd(b) \in Nat /\ b * BlockSize <= BlockEnd(b)
         /\ BlockEnd(b) <= Size /\ BlockEnd(b) <= b * BlockSize + BlockSize
<1>1. Size \in Nat /\ BlockSize \in Nat \ {0}
  BY SizeAssumption
<1> DEFINE d == Size \div BlockSize
<1>2. d \in Nat /\ d * BlockSize \in Nat /\ d * BlockSize <= Size
  BY <1>1, Division
<1>3. b \in Nat /\ b <= d
  BY <1>2 DEF Block, NumBlocks
<1> HIDE DEF d
<1>4. b * BlockSize \in Nat /\ b * BlockSize <= d * BlockSize
  BY <1>1, <1>2, <1>3, ProductMonotone
<1>5. (b + 1) * BlockSize = b * BlockSize + BlockSize
  BY <1>1, <1>3
<1> QED
  BY <1>1, <1>2, <1>3, <1>4, <1>5 DEF BlockEnd

\* A whole answer is the bytes of its block,
LEMMA WholeAnswer ==
  ASSUME NEW b \in Block
  PROVE  Answer(b, 0) = Bytes(b * BlockSize, BlockEnd(b))
<1> DEFINE a == b * BlockSize
<1>1. a \in Nat /\ Size \in Nat /\ BlockSize \in Nat
      /\ BlockEnd(b) = IF Size < a + BlockSize THEN Size ELSE a + BlockSize
  BY BlockBegins, SizeAssumption DEF BlockEnd
<1> DEFINE n == (IF Size - a < BlockSize THEN Size - a ELSE BlockSize) - 0
<1>2. Answer(b, 0) = [i \in 1 .. n |-> a + i - 1]
  BY DEF Answer
<1> HIDE DEF a
<1>3. n = BlockEnd(b) - a
  BY <1>1
<1> HIDE DEF n
<1> QED
  BY <1>2, <1>3 DEF Bytes, a

\* and no answer is longer than a block.
LEMMA AnswerLength ==
  ASSUME NEW b \in Block, NEW k \in Lost
  PROVE  Len(Answer(b, k)) <= BlockSize
<1> DEFINE s == Answer(b, k)
           left == Size - b * BlockSize
           n == (IF left < BlockSize THEN left ELSE BlockSize) - k
<1>1. b * BlockSize \in Nat /\ Size \in Nat /\ BlockSize \in Nat \ {0} /\ k \in Nat
  BY BlockBegins, SizeAssumption
<1>2. n \in Int /\ n <= BlockSize
  BY <1>1
<1>3. DOMAIN s = 1 .. n
  BY DEF Answer
<1>4. s \in Seq(0 .. Size - 1)
  BY AnswerType
<1> HIDE DEF s, n
<1>5. Len(s) \in Nat /\ DOMAIN s = 1 .. Len(s)
  BY <1>4, LenProperties
<1>6. Len(s) <= BlockSize
  <2>1. CASE Len(s) = 0
    BY <1>1, <2>1
  <2>2. CASE Len(s) # 0
    <3>0. Len(s) \in 1 .. Len(s)
      BY <1>5, <2>2
    <3>1. Len(s) \in 1 .. n
      BY <1>3, <1>5, <3>0, Zenon
    <3> QED
      BY <1>1, <1>2, <1>5, <3>1
  <2> QED
    BY <2>1, <2>2
<1> QED
  BY <1>6 DEF s

\* The blocks of a proper request, and its end in the last of them.
LEMMA ProperShape ==
  ASSUME NEW q, Proper(q)
  PROVE  /\ First(q) \in Nat /\ Last(q) \in Nat /\ First(q) <= Last(q)
         /\ Blocks(q) = First(q) .. Last(q) /\ Blocks(q) \subseteq Block
         /\ First(q) \in Block /\ Last(q) \in Block
         /\ Rest(q) \in 1 .. BlockSize
         /\ Stop(q) \in Nat /\ Stop(q) = Last(q) * BlockSize + Rest(q)
<1>1. /\ q \in [offset : Nat, size : Nat] /\ BlockSize \in Nat \ {0}
      /\ Blocks(q) # {} /\ Blocks(q) \subseteq Block
  BY SizeAssumption DEF Proper, OutOfRange
<1>2. /\ First(q) \in Nat /\ End(q) \in Nat /\ Stop(q) \in Nat
      /\ End(q) * BlockSize \in Nat
      /\ Stop(q) <= End(q) * BlockSize /\ End(q) * BlockSize < Stop(q) + BlockSize
  BY <1>1, RequestShape
<1>3. Blocks(q) = First(q) .. Last(q) /\ First(q) <= Last(q) /\ Last(q) \in Nat
  BY <1>1, <1>2 DEF Blocks, Last
<1>4. First(q) \in Block /\ Last(q) \in Block
  BY <1>1, <1>2, <1>3
<1>5. Last(q) * BlockSize = End(q) * BlockSize - BlockSize
  BY <1>1, <1>2 DEF Last
<1>6. Last(q) * BlockSize \in Int
  BY <1>2, <1>1, <1>5
<1>7. Rest(q) \in 1 .. BlockSize /\ Stop(q) = Last(q) * BlockSize + Rest(q)
  BY <1>1, <1>2, <1>5, <1>6 DEF Rest
<1> QED
  BY <1>1, <1>2, <1>3, <1>4, <1>7

\* The leading bytes that are not asked for and those that are fill the blocks
\* up to the end of the request: Read cuts the last slice at the right byte.
LEMMA CutShape ==
  ASSUME NEW q, Proper(q)
  PROVE  /\ Lead(q) + q.size = (Last(q) - First(q)) * BlockSize + Rest(q)
         /\ (Lead(q) + q.size) % BlockSize
              = IF Rest(q) = BlockSize THEN 0 ELSE Rest(q)
<1> DEFINE n == BlockSize
           f == First(q)
           l == Last(q)
           m == Rest(q)
<1>1. /\ f \in Nat /\ l \in Nat /\ f <= l /\ m \in 1 .. n
      /\ Stop(q) \in Nat /\ Stop(q) = l * n + m /\ n \in Nat \ {0}
  BY ProperShape, SizeAssumption
<1>2. /\ q.offset = f * n + Lead(q) /\ Lead(q) \in 0 .. n - 1 /\ f * n \in Nat
      /\ q.offset \in Nat /\ q.size \in Nat /\ Stop(q) = q.offset + q.size
  BY RequestShape DEF Proper, Stop
<1> HIDE DEF n, f, l, m
<1> DEFINE k == l - f
<1>3. k \in Nat /\ l = f + k
  BY <1>1
<1> HIDE DEF k
<1>4. l * n = f * n + k * n /\ k * n \in Nat
  BY <1>1, <1>3
<1>5. Lead(q) + q.size = k * n + m
  BY <1>1, <1>2, <1>4
<1>6. CASE m = n
  <2>1. k * n + m = (k + 1) * n + 0 /\ k + 1 \in Nat /\ 0 \in 0 .. n - 1
    BY <1>1, <1>3, <1>6
  <2>2. ((k + 1) * n + 0) % n = 0
    BY <1>1, <2>1, Remainder
  <2> QED
    BY <1>5, <1>6, <2>1, <2>2 DEF n, m, k, l, f
<1>7. CASE m # n
  <2>1. m \in 0 .. n - 1
    BY <1>1, <1>7
  <2>2. (k * n + m) % n = m
    BY <1>1, <1>3, <2>1, Remainder
  <2> QED
    BY <1>5, <1>7, <2>2 DEF n, m, k, l, f
<1> QED
  BY <1>6, <1>7

\* A slice is cut to where the request ends if it goes beyond.
LEMMA ShortenedShape ==
  ASSUME NEW q, Proper(q), NEW A, NEW s \in Seq(A), Len(s) <= BlockSize
  PROVE  /\ Shortened(s, q) = IF Len(s) > Rest(q) THEN SubSeq(s, 1, Rest(q)) ELSE s
         /\ Shortened(s, q) \in Seq(A)
         /\ Len(Shortened(s, q)) = IF Len(s) > Rest(q) THEN Rest(q) ELSE Len(s)
<1> DEFINE cut == (Lead(q) + q.size) % BlockSize
           m == Rest(q)
<1>1. /\ m \in 1 .. BlockSize /\ BlockSize \in Nat \ {0} /\ Len(s) \in Nat
      /\ cut = IF m = BlockSize THEN 0 ELSE m
  BY ProperShape, CutShape, LenProperties, SizeAssumption
<1>2. Shortened(s, q) = IF cut > 0 /\ Len(s) > cut THEN SubSeq(s, 1, cut) ELSE s
  BY DEF Shortened
<1> HIDE DEF cut, m
<1>3. CASE Len(s) > m
  <2>1. cut = m /\ cut > 0
    BY <1>1, <1>3
  <2>2. Shortened(s, q) = SubSeq(s, 1, m)
    BY <1>2, <1>3, <2>1
  <2>3. \A i \in 1 .. m : s[i] \in A
    BY <1>1, <1>3, ElementOfSeq
  <2>4. SubSeq(s, 1, m) \in Seq(A) /\ Len(SubSeq(s, 1, m)) = IF 1 <= m THEN m - 1 + 1 ELSE 0
    BY <1>1, <2>3, SubSeqProperties
  <2> QED
    BY <1>1, <1>3, <2>2, <2>4 DEF m
<1>4. CASE ~(Len(s) > m)
  <2>1. ~(cut > 0 /\ Len(s) > cut)
    BY <1>1, <1>4
  <2>2. Shortened(s, q) = s
    BY <1>2, <2>1
  <2> QED
    BY <1>4, <2>2 DEF m
<1> QED
  BY <1>3, <1>4

\* The slices of a proper request, in the order of its blocks.
Slices(q) == [b \in Blocks(q) |-> Slice(q, b)]

\* What Read joins.
LEMMA JoinedJoins ==
  ASSUME NEW q, Proper(q)
  PROVE  \E g : Joins(g, Slices(q), First(q), Last(q)) /\ Joined(q) = g[First(q)]
<1> DEFINE J(g) == g = [b \in Blocks(q) |->
                          Slice(q, b) \o (IF b = End(q) - 1 THEN << >> ELSE g[b + 1])]
<1>1. /\ First(q) \in Nat /\ Last(q) \in Nat /\ First(q) <= Last(q)
      /\ Blocks(q) = First(q) .. Last(q)
  BY ProperShape
<1>2. ASSUME NEW g
      PROVE  J(g) <=> Joins(g, Slices(q), First(q), Last(q))
  <2>1. \A b \in Blocks(q) : Slices(q)[b] = Slice(q, b)
    BY DEF Slices
  <2> QED
    BY <1>1, <2>1 DEF Joins, Last
<1>3. \E g : J(g)
  BY <1>1, <1>2, JoinsExist
<1> DEFINE f == CHOOSE g : J(g)
<1>4. J(f)
  BY <1>3, Zenon
<1>5. Joined(q) = f[First(q)]
  BY Zenon DEF Joined
<1> HIDE DEF f, J
<1> QED
  BY <1>2, <1>4, <1>5

\* Every slice of a proper request has at most a block's bytes, and the last
\* one none beyond the request.
LEMMA SliceShape ==
  ASSUME TypeOK, SliceInv, NEW q, Proper(q)
  PROVE  /\ \A b \in Blocks(q) : /\ Slice(q, b) \in Seq(0 .. Size - 1)
                                /\ Len(Slice(q, b)) <= BlockSize
         /\ Len(Slice(q, Last(q))) <= Rest(q)
<1>1. /\ Blocks(q) \subseteq Block /\ Last(q) \in Block
      /\ Rest(q) \in 1 .. BlockSize /\ BlockSize \in Nat
  BY ProperShape, SizeAssumption
<1>2. \A b \in Block : cache[b] \in Seq(0 .. Size - 1) /\ Len(cache[b]) <= BlockSize
  BY DEF TypeOK, SliceInv
<1>3. \A b \in Block : b # Last(q) => Slice(q, b) = cache[b]
  BY DEF Slice, Last
<1> DEFINE s == cache[Last(q)]
<1>4. Slice(q, Last(q)) = Shortened(s, q)
  BY DEF Slice, Last
<1>5. s \in Seq(0 .. Size - 1) /\ Len(s) <= BlockSize
  BY <1>1, <1>2
<1> HIDE DEF s
<1>6. Len(s) \in Nat
  BY <1>5, LenProperties
<1>7. /\ Shortened(s, q) \in Seq(0 .. Size - 1)
      /\ Len(Shortened(s, q)) = IF Len(s) > Rest(q) THEN Rest(q) ELSE Len(s)
  BY <1>5, ShortenedShape
<1>8. Len(Shortened(s, q)) <= Rest(q) /\ Len(Shortened(s, q)) <= BlockSize
  BY <1>1, <1>5, <1>6, <1>7
<1> QED
  BY <1>1, <1>2, <1>3, <1>4, <1>7, <1>8

\* Read never returns more than was asked for.
LEMMA AssembledBound ==
  ASSUME TypeOK, SliceInv, NEW q, Proper(q)
  PROVE  Assembled(q) \in Seq(0 .. Size - 1) /\ Len(Assembled(q)) <= q.size
<1> DEFINE A == 0 .. Size - 1
           j == Joined(q)
           s == Slices(q)
           bound == (Last(q) - First(q)) * BlockSize + Rest(q)
<1>1. /\ First(q) \in Nat /\ Last(q) \in Nat /\ First(q) <= Last(q)
      /\ Blocks(q) = First(q) .. Last(q) /\ Last(q) \in Blocks(q)
      /\ Rest(q) \in Nat /\ BlockSize \in Nat
  BY ProperShape, SizeAssumption
<1>2. PICK g : Joins(g, s, First(q), Last(q)) /\ j = g[First(q)]
  BY JoinedJoins
<1>3. /\ \A b \in First(q) .. Last(q) : s[b] \in Seq(A) /\ Len(s[b]) <= BlockSize
      /\ Len(s[Last(q)]) <= Rest(q)
  BY <1>1, SliceShape DEF Slices
<1> HIDE DEF A, s
<1>4. j \in Seq(A) /\ Len(j) <= bound
  <2> DEFINE f == First(q)
             l == Last(q)
             m == Rest(q)
             n == BlockSize
  <2>1. /\ f \in Nat /\ l \in Nat /\ f <= l /\ m \in Nat /\ n \in Nat
        /\ \A b \in f .. l : s[b] \in Seq(A) /\ Len(s[b]) <= n
        /\ Len(s[l]) <= m /\ Joins(g, s, f, l)
    BY <1>1, <1>2, <1>3
  <2> HIDE DEF f, l, m, n
  <2>2. g[f] \in Seq(A) /\ Len(g[f]) <= (l - f) * n + m
    BY <2>1, JoinedLength
  <2> QED
    BY <1>2, <2>2 DEF f, l, m, n
<1>5. Lead(q) \in Nat /\ q.size \in Nat /\ Lead(q) + q.size = bound
  BY CutShape, RequestShape DEF Proper
<1> HIDE DEF j, bound
<1>6. Len(j) \in Nat /\ \A i \in Lead(q) + 1 .. Len(j) : j[i] \in A
  BY <1>4, <1>5, LenProperties, ElementOfSeq
<1>7. /\ SubSeq(j, Lead(q) + 1, Len(j)) \in Seq(A)
      /\ Len(SubSeq(j, Lead(q) + 1, Len(j)))
           = IF Lead(q) + 1 <= Len(j) THEN Len(j) - (Lead(q) + 1) + 1 ELSE 0
  BY <1>5, <1>6, SubSeqProperties
<1>8. Assembled(q) = SubSeq(j, Lead(q) + 1, Len(j))
  BY DEF Assembled, j
<1>9. Len(Assembled(q)) <= q.size
  <2> DEFINE u == Len(Assembled(q))
             v == Len(j)
  <2>1. /\ u = IF Lead(q) + 1 <= v THEN v - (Lead(q) + 1) + 1 ELSE 0
        /\ v \in Nat /\ v <= Lead(q) + q.size
    BY <1>4, <1>5, <1>6, <1>7, <1>8
  <2> HIDE DEF u, v
  <2>2. u <= q.size
    BY <1>5, <2>1
  <2> QED
    BY <2>2 DEF u
<1> QED
  BY <1>7, <1>8, <1>9 DEF A

\* The slices Read joins when no answer was cut short: whole blocks, and the
\* bytes of the last one up to the end of the request or of the file.
LEMMA WholeSlices ==
  ASSUME TypeOK, SliceInv, ~short, NEW q, Proper(q), Complete(q)
  PROVE  LET e == IF Stop(q) < Size THEN Stop(q) ELSE Size
         IN  /\ e \in Nat /\ Last(q) * BlockSize <= e
             /\ Slice(q, Last(q)) = Bytes(Last(q) * BlockSize, e)
             /\ \A b \in First(q) .. Last(q) - 1 :
                  Slice(q, b) = Bytes(b * BlockSize, (b + 1) * BlockSize)
<1> DEFINE e == IF Stop(q) < Size THEN Stop(q) ELSE Size
           l == Last(q)
           m == Rest(q)
           n == BlockSize
           a == l * n
           c == BlockEnd(l)
<1>1. /\ First(q) \in Nat /\ l \in Nat /\ First(q) <= l
      /\ Blocks(q) = First(q) .. l /\ Blocks(q) \subseteq Block /\ l \in Block
      /\ m \in 1 .. n /\ Stop(q) = a + m /\ Size \in Nat /\ n \in Nat \ {0}
  BY ProperShape, SizeAssumption
<1>2. \A b \in Blocks(q) : cache[b] = Bytes(b * n, BlockEnd(b))
  BY <1>1, WholeAnswer DEF SliceInv, Complete
<1>3. /\ a \in Nat /\ c \in Nat /\ a <= c /\ a <= Size
      /\ c = IF Size < a + n THEN Size ELSE a + n
  BY <1>1, BlockBegins DEF BlockEnd
<1>4. \A b \in First(q) .. l - 1 : Slice(q, b) = Bytes(b * n, (b + 1) * n)
  <2> SUFFICES ASSUME NEW b \in First(q) .. l - 1
               PROVE  Slice(q, b) = Bytes(b * n, (b + 1) * n)
    OBVIOUS
  <2>1. b \in Blocks(q) /\ b \in Nat /\ b # l /\ b + 1 \in Nat /\ b + 1 <= l
    BY <1>1
  <2>2. Slice(q, b) = Bytes(b * n, BlockEnd(b))
    BY <1>2, <2>1 DEF Slice, Last
  <2>3. (b + 1) * n \in Nat /\ (b + 1) * n <= a
    BY <1>1, <2>1, ProductMonotone
  <2>4. BlockEnd(b) = (b + 1) * n
    BY <1>1, <1>3, <2>3 DEF BlockEnd
  <2> QED
    BY <2>2, <2>4
<1>5. Slice(q, l) = Bytes(a, e)
  <2> DEFINE s == Bytes(a, c)
  <2>1. Slice(q, l) = Shortened(s, q)
    BY <1>1, <1>2 DEF Slice, Last
  <2>2. s \in Seq(Nat) /\ Len(s) = c - a
    BY <1>3, BytesSeq
  <2>3. Len(s) <= n
    <3> HIDE DEF a, c, n, s
    <3>1. c - a <= n
      BY <1>1, <1>3
    <3> QED
      BY <2>2, <3>1
  <2>4. Shortened(s, q) = IF Len(s) > m THEN SubSeq(s, 1, m) ELSE s
    BY <2>2, <2>3, ShortenedShape
  <2>0. e = IF a + m < Size THEN a + m ELSE Size
    BY <1>1
  <2> HIDE DEF a, c, e, l, m, n, s
  <2>5. CASE Len(s) > m
    <3>1. e = a + m /\ a + m <= c
      BY <1>1, <1>3, <2>0, <2>2, <2>5
    <3>2. a \in Nat /\ c \in Nat /\ e \in Nat /\ a <= a /\ a <= e /\ e <= c
      BY <1>1, <1>3, <3>1
    <3>3. SubSeq(s, a - a + 1, e - a) = Bytes(a, e)
      BY <3>2, BytesPart DEF s
    <3>4. SubSeq(s, 1, m) = Bytes(a, e)
      <4>1. a - a + 1 = 1 /\ e - a = m
        BY <1>1, <1>3, <3>1
      <4> QED
        BY <3>3, <4>1
    <3> QED
      BY <2>1, <2>4, <2>5, <3>1, <3>4
  <2>6. CASE ~(Len(s) > m)
    <3>1. e = c
      BY <1>1, <1>3, <2>0, <2>2, <2>6
    <3> QED
      BY <2>1, <2>4, <2>6, <3>1 DEF s
  <2> QED
    BY <2>5, <2>6
<1>6. e \in Nat /\ a <= e
  BY <1>1, <1>3
<1> QED
  BY <1>4, <1>5, <1>6

\* Read returns exactly the bytes it was asked for.
LEMMA AssembledExact ==
  ASSUME TypeOK, SliceInv, ~short, NEW q, Proper(q), Complete(q)
  PROVE  Assembled(q) = Wanted(q)
<1> DEFINE e == IF Stop(q) < Size THEN Stop(q) ELSE Size
           f == First(q)
           l == Last(q)
           n == BlockSize
           s == Slices(q)
           j == Joined(q)
<1>1. /\ f \in Nat /\ l \in Nat /\ f <= l /\ Blocks(q) = f .. l /\ l \in Blocks(q)
      /\ n \in Nat /\ Stop(q) \in Nat /\ Size \in Nat
  BY ProperShape, SizeAssumption
<1>2. /\ e \in Nat /\ l * n <= e
      /\ s[l] = Bytes(l * n, e)
      /\ \A b \in f .. l - 1 : s[b] = Bytes(b * n, (b + 1) * n)
  BY <1>1, WholeSlices DEF Slices
<1>3. PICK g : Joins(g, s, f, l) /\ j = g[f]
  BY JoinedJoins
<1>4. /\ q.offset \in Nat /\ q.size \in Nat /\ q.offset < Size
      /\ Stop(q) = q.offset + q.size
      /\ Lead(q) \in Nat /\ f * n \in Nat /\ q.offset = f * n + Lead(q)
  BY RequestShape DEF Proper, Stop
<1>5. e = IF q.offset + q.size < Size THEN q.offset + q.size ELSE Size
  BY <1>4
<1>6. q.offset <= e
  BY <1>1, <1>4
<1>7. Wanted(q) = Bytes(q.offset, e)
  BY <1>5 DEF Wanted, Bytes
<1> HIDE DEF e, f, l, n, s
<1>8. j = Bytes(f * n, e)
  <2>1. g[f] = Bytes(f * n, e)
    BY ONLY <1>1, <1>2, <1>3, JoinedBytes
  <2> QED
    BY <1>3, <2>1
<1> DEFINE a == f * n
           k == e - a
<1>9. /\ a \in Nat /\ k \in Nat /\ Lead(q) <= k /\ a + k = e /\ a <= e
      /\ a + Lead(q) = q.offset
  BY <1>2, <1>4, <1>6
<1>10. j = Bytes(a, e)
  BY <1>8
<1> HIDE DEF a, k, j
<1>11. Len(j) = k
  BY <1>2, <1>9, <1>10, BytesSeq DEF k
<1>12. SubSeq(Bytes(a, e), Lead(q) + 1, k) = Bytes(q.offset, e)
  <2> DEFINE b == q.offset
  <2>1. a \in Nat /\ b \in Nat /\ e \in Nat /\ a <= b /\ b <= e /\ e <= e
    BY <1>2, <1>4, <1>6, <1>9
  <2>2. b - a + 1 = Lead(q) + 1 /\ e - a = k
    BY <1>4, <1>9 DEF k
  <2> HIDE DEF b
  <2>3. SubSeq(Bytes(a, e), b - a + 1, e - a) = Bytes(b, e)
    BY <2>1, BytesPart
  <2> QED
    BY <2>2, <2>3 DEF b
<1> QED
  BY <1>7, <1>9, <1>10, <1>11, <1>12 DEF Assembled, j

\* The leading bytes that Read drops are there.
LEMMA LeadThere ==
  ASSUME TypeOK, SliceInv, ~short, NEW q, Proper(q), Complete(q)
  PROVE  ~TooShort(q)
<1> DEFINE f == First(q)
           a == f * BlockSize
           s == cache[f]
<1>1. /\ f \in Nat /\ f \in Blocks(q) /\ f \in Block
      /\ Rest(q) \in 1 .. BlockSize /\ Stop(q) = Last(q) * BlockSize + Rest(q)
      /\ BlockSize \in Nat \ {0} /\ Size \in Nat
  BY ProperShape, SizeAssumption
<1>2. /\ q.offset \in Nat /\ q.size \in Nat /\ q.offset < Size
      /\ Stop(q) = q.offset + q.size
      /\ Lead(q) \in 0 .. BlockSize - 1 /\ q.offset = a + Lead(q)
  BY RequestShape DEF Proper, Stop
<1>3. /\ a \in Nat /\ a <= BlockEnd(f) /\ BlockEnd(f) \in Nat
      /\ BlockEnd(f) = IF Size < a + BlockSize THEN Size ELSE a + BlockSize
      /\ BlockEnd(f) <= a + BlockSize
  BY <1>1, BlockBegins DEF BlockEnd
<1>4. s = Bytes(a, BlockEnd(f))
  BY <1>1, WholeAnswer DEF SliceInv, Complete
<1>5. s \in Seq(Nat) /\ Len(s) = BlockEnd(f) - a
  BY <1>3, <1>4, BytesSeq
<1> HIDE DEF a, s
<1>6. Len(s) > Lead(q) /\ Len(s) <= BlockSize
  BY <1>1, <1>2, <1>3, <1>5
<1>7. CASE f = Last(q)
  <2>1. Slice(q, f) = Shortened(s, q)
    BY <1>7 DEF Slice, Last, s
  <2>2. Len(Shortened(s, q)) = IF Len(s) > Rest(q) THEN Rest(q) ELSE Len(s)
    BY <1>5, <1>6, ShortenedShape
  <2>3. Rest(q) = Lead(q) + q.size
    BY <1>1, <1>2, <1>3, <1>7 DEF a
  <2> QED
    BY <1>1, <1>2, <1>5, <1>6, <2>1, <2>2, <2>3 DEF TooShort
<1>8. CASE f # Last(q)
  <2>1. Slice(q, f) = s
    BY <1>8 DEF Slice, Last, s
  <2> QED
    BY <1>2, <1>5, <1>6, <2>1 DEF TooShort
<1> QED
  BY <1>7, <1>8

-----------------------------------------------------------------------------
(* What Read returns.                                                      *)

\* A reader that has passed the early returns of Read has a proper request.
RequestInv ==
  \A r \in Reader : pc[r] \in {"wait", "grab", "fail"} => Proper(req[r])

ResultType == result \in [Reader -> [kind : {"data", "error", "panic"}, bytes : Seq(0 .. Size - 1)]]

\* Every action keeps the slices whole,
LEMMA SliceStep ==
  ASSUME TypeOK, SliceInv, [AnyNext]_vars
  PROVE  SliceInv'
<1> USE DEF SliceInv
<1>1. ASSUME NEW r \in Reader, NEW q \in [offset : Nat, size : Nat], Read(r, q)
      PROVE  SliceInv'
  <2>1. Len(Nil) <= BlockSize
    BY SizeAssumption DEF Nil
  <2>2. cache' = [b \in Block |-> IF b \in Purged(q) THEN Nil ELSE cache[b]] /\ short' = short
    BY <1>1 DEF Read
  <2>3. \A b \in Block : cache'[b] = Nil \/ cache'[b] = cache[b]
    BY <2>2
  <2> QED
    BY <2>1, <2>2, <2>3
<1>2. ASSUME NEW b \in Block, NEW k \in Lost, Fetched(b, k)
      PROVE  SliceInv'
  <2>1. cache' = [cache EXCEPT ![b] = Answer(b, k)] /\ short' = (short \/ k > 0)
    BY <1>2 DEF Fetched
  <2>2. Len(Answer(b, k)) <= BlockSize
    BY AnswerLength
  <2>3. ~short' => ~short /\ k = 0
    <3>1. ~short' => ~short /\ ~(k > 0)
      BY <2>1, Zenon
    <3>2. k \in Nat
      BY SizeAssumption
    <3>3. ~(k > 0) => k = 0
      BY <3>2
    <3> QED
      BY <3>1, <3>3
  <2>4. \A x \in Block : cache'[x] = IF x = b THEN Answer(b, k) ELSE cache[x]
    BY <2>1 DEF TypeOK
  <2> QED
    BY <2>2, <2>3, <2>4
<1>3. CASE UNCHANGED <<cache, short>>
  BY <1>3
<1> QED
  BY <1>1, <1>2, <1>3
  DEF AnyNext, ReadAtEnd, ReadPanics, ReadBlocks, Panic, FetchFailed, Interrupted, Grab, GrabPanics,
      GrabMissing, GiveUp, vars, handle

\* and every request proper.
LEMMA RequestStep ==
  ASSUME TypeOK, RequestInv, [AnyNext]_vars
  PROVE  RequestInv'
<1> SUFFICES ASSUME NEW x \in Reader, pc'[x] \in {"wait", "grab", "fail"}
             PROVE  Proper(req'[x])
  BY DEF RequestInv, Proper, OutOfRange, Blocks, First, End
<1>1. ASSUME NEW r \in Reader, NEW q \in [offset : Nat, size : Nat], ReadAtEnd(r, q)
      PROVE  Proper(req'[x])
  BY <1>1 DEF ReadAtEnd, RequestInv, TypeOK
<1>2. ASSUME NEW r \in Reader, NEW q \in [offset : Nat, size : Nat], Read(r, q)
      PROVE  Proper(req'[x])
  <2>1. Proper(q)
    BY <1>2 DEF Read, Proper
  <2> QED
    BY <1>2, <2>1 DEF Read, RequestInv, TypeOK
<1>3. ASSUME NEW r \in Reader, NEW q \in [offset : Nat, size : Nat],
             ReadPanics(r, q) \/ ReadBlocks(r, q)
      PROVE  Proper(req'[x])
  BY <1>3 DEF ReadPanics, ReadBlocks, Panic, RequestInv, TypeOK
<1>4. ASSUME NEW r \in Reader, GrabMissing(r)
      PROVE  Proper(req'[x])
  BY <1>4 DEF GrabMissing, Ready, RequestInv, TypeOK
<1>5. ASSUME NEW r \in Reader, Interrupted(r) \/ Grab(r) \/ GrabPanics(r) \/ GiveUp(r)
      PROVE  Proper(req'[x])
  BY <1>5 DEF Interrupted, Grab, GrabPanics, GiveUp, Return, Panic, RequestInv, TypeOK
<1>6. CASE UNCHANGED <<pc, req>>
  BY <1>6 DEF RequestInv
<1> QED
  BY <1>1, <1>2, <1>3, <1>4, <1>5, <1>6
  DEF AnyNext, Fetched, FetchFailed, Close, vars, readers

\* What a Read that ends with result v for request q has to be like.
Exact(q, v) ==
  /\ v \in [kind : {"data", "error", "panic"}, bytes : Seq(0 .. Size - 1)]
  /\ ~short /\ v.kind = "data" /\ v # Empty => v.bytes = Wanted(q)
  /\ Len(v.bytes) <= q.size
  /\ v.kind = "panic" => Recovers

\* An error or no bytes are always right,
LEMMA NothingExact ==
  ASSUME NEW q \in [offset : Nat, size : Nat]
  PROVE  Exact(q, Error) /\ Exact(q, Empty) /\ (Recovers => Exact(q, Panicked))
<1>1. Error.kind = "error" /\ Error.bytes = << >> /\ Empty.kind = "data" /\ Empty.bytes = << >>
  BY DEF Error, Empty, Data
<1>2. << >> \in Seq(0 .. Size - 1) /\ Len(<< >>) = 0
  OBVIOUS
<1>3. Error \in [kind : {"data", "error", "panic"}, bytes : Seq(0 .. Size - 1)]
  BY <1>2 DEF Error
<1>4. Empty \in [kind : {"data", "error", "panic"}, bytes : Seq(0 .. Size - 1)]
  BY <1>2 DEF Empty, Data
<1>5. /\ Panicked \in [kind : {"data", "error", "panic"}, bytes : Seq(0 .. Size - 1)]
      /\ Panicked.kind = "panic" /\ Panicked.bytes = << >>
  BY <1>2 DEF Panicked
<1> QED
  BY <1>1, <1>2, <1>3, <1>4, <1>5 DEF Exact

\* and what Read assembles is.
LEMMA GrabExact ==
  ASSUME TypeOK, SliceInv, NEW q, Proper(q), Complete(q)
  PROVE  Exact(q, Data(Assembled(q)))
<1> DEFINE s == Assembled(q)
<1>1. s \in Seq(0 .. Size - 1) /\ Len(s) <= q.size
  BY AssembledBound
<1>2. ~short => s = Wanted(q)
  BY AssembledExact
<1> HIDE DEF s
<1>3. /\ Data(s).kind = "data" /\ Data(s).bytes = s
      /\ Data(s) \in [kind : {"data", "error", "panic"}, bytes : Seq(0 .. Size - 1)]
  BY <1>1 DEF Data
<1>4. Exact(q, Data(s))
  BY <1>1, <1>2, <1>3 DEF Exact
<1> QED
  BY <1>4 DEF s

\* Every result that is returned is exact.
ResultInv ==
  /\ ResultType
  /\ \A r \in Reader : pc[r] = "idle" => Exact(req[r], result[r])

LEMMA ResultStep ==
  ASSUME TypeOK, SliceInv, RequestInv, ResultInv, [AnyNext]_vars
  PROVE  ResultInv'
<1> DEFINE T == [kind : {"data", "error", "panic"}, bytes : Seq(0 .. Size - 1)]
<1>0. /\ result \in [Reader -> T] /\ pc \in [Reader -> {"idle", "wait", "grab", "fail", "blocked", "panic"}]
      /\ req \in [Reader -> [offset : Nat, size : Nat]]
  BY DEF ResultInv, ResultType, TypeOK
<1>1. ~short' => ~short
  BY DEF AnyNext, ReadAtEnd, Read, ReadPanics, ReadBlocks, Panic, Fetched, FetchFailed, Interrupted,
         Grab, GrabPanics, GrabMissing, GiveUp, vars, handle
<1> SUFFICES /\ result' \in [Reader -> T]
             /\ \A x \in Reader : pc'[x] = "idle" => Exact(req'[x], result'[x])
  BY <1>1 DEF ResultInv, ResultType, Exact, Wanted, Empty, Data
<1>2. ASSUME NEW r \in Reader, NEW q \in [offset : Nat, size : Nat], NEW v \in T, Exact(q, v),
             req' = req \/ req' = [req EXCEPT ![r] = q], req'[r] = q,
             pc' = [pc EXCEPT ![r] = "idle"], result' = [result EXCEPT ![r] = v]
      PROVE  /\ result' \in [Reader -> T]
             /\ \A x \in Reader : pc'[x] = "idle" => Exact(req'[x], result'[x])
  <2> HIDE DEF T
  <2>1. result' \in [Reader -> T]
    BY <1>0, <1>2
  <2>2. ASSUME NEW x \in Reader, pc'[x] = "idle"
        PROVE  Exact(req'[x], result'[x])
    <3>1. CASE x = r
      BY <1>0, <1>2, <3>1
    <3>2. CASE x # r
      <4>1. pc[x] = "idle" /\ req'[x] = req[x] /\ result'[x] = result[x]
        BY <1>0, <1>2, <2>2, <3>2
      <4> QED
        BY <4>1 DEF ResultInv
    <3> QED
      BY <3>1, <3>2
  <2> QED
    BY <2>1, <2>2
<1>3. ASSUME NEW r \in Reader, NEW q \in [offset : Nat, size : Nat], ReadAtEnd(r, q)
      PROVE  /\ result' \in [Reader -> T]
             /\ \A x \in Reader : pc'[x] = "idle" => Exact(req'[x], result'[x])
  <2>1. q \in [offset : Nat, size : Nat]
    OBVIOUS
  <2>2. Exact(q, Empty) /\ Empty \in T
    BY <2>1, NothingExact DEF Exact
  <2>3. /\ req' = [req EXCEPT ![r] = q] /\ result' = [result EXCEPT ![r] = Empty]
        /\ pc' = pc /\ pc[r] = "idle"
    BY <1>3 DEF ReadAtEnd
  <2> HIDE DEF T
  <2>4. req'[r] = q /\ pc' = [pc EXCEPT ![r] = "idle"]
    BY <1>0, <2>3
  <2> QED
    BY <1>2, <2>1, <2>2, <2>3, <2>4
<1>4. ASSUME NEW r \in Reader, Interrupted(r) \/ GiveUp(r) \/ Grab(r)
      PROVE  /\ result' \in [Reader -> T]
             /\ \A x \in Reader : pc'[x] = "idle" => Exact(req'[x], result'[x])
  <2> DEFINE q == req[r]
  <2>1. q \in [offset : Nat, size : Nat] /\ Exact(q, Error) /\ Exact(q, Empty)
    BY <1>0, NothingExact
  <2>2. Grab(r) => Exact(q, Data(Assembled(q)))
    <3>1. Grab(r) => Proper(q) /\ Complete(q)
      BY DEF Grab, Ready, RequestInv
    <3> QED
      BY <3>1, GrabExact
  <2>3. PICK v \in {Error, Empty, Data(Assembled(q))} :
          /\ Exact(q, v) /\ req' = req
          /\ pc' = [pc EXCEPT ![r] = "idle"] /\ result' = [result EXCEPT ![r] = v]
    BY <1>4, <2>1, <2>2 DEF Interrupted, GiveUp, Grab, Return
  <2>4. v \in T
    BY <2>3 DEF Exact
  <2>5. req'[r] = q
    BY <2>3
  <2> HIDE DEF T, q
  <2> QED
    BY <1>2, <2>1, <2>3, <2>4, <2>5
<1>5. ASSUME NEW r \in Reader, UNCHANGED result,
             pc' = [pc EXCEPT ![r] = "wait"] \/ pc' = [pc EXCEPT ![r] = "grab"]
               \/ pc' = [pc EXCEPT ![r] = "fail"] \/ pc' = [pc EXCEPT ![r] = "blocked"]
               \/ pc' = [pc EXCEPT ![r] = "panic"],
             req' = req \/ \E q \in [offset : Nat, size : Nat] : req' = [req EXCEPT ![r] = q]
      PROVE  /\ result' \in [Reader -> T]
             /\ \A x \in Reader : pc'[x] = "idle" => Exact(req'[x], result'[x])
  <2> HIDE DEF T
  <2>1. \A x \in Reader : pc'[x] = "idle" => pc[x] = "idle" /\ x # r
    BY <1>0, <1>5
  <2>2. \A x \in Reader : x # r => req'[x] = req[x]
    BY <1>0, <1>5
  <2> QED
    BY <1>0, <1>5, <2>1, <2>2 DEF ResultInv
<1>6. CASE UNCHANGED <<pc, req, result>>
  BY <1>0, <1>6 DEF ResultInv
<1>7. ASSUME NEW r \in Reader, NEW q \in [offset : Nat, size : Nat], Panic(r),
             req' = req \/ req' = [req EXCEPT ![r] = q], req'[r] = q
      PROVE  /\ result' \in [Reader -> T]
             /\ \A x \in Reader : pc'[x] = "idle" => Exact(req'[x], result'[x])
  <2>1. Recovers => Exact(q, Panicked) /\ Panicked \in T
    BY NothingExact DEF Exact
  <2> HIDE DEF T
  <2>2. CASE Recovers /\ pc' = [pc EXCEPT ![r] = "idle"] /\ result' = [result EXCEPT ![r] = Panicked]
    BY <1>2, <1>7, <2>1, <2>2
  <2>3. CASE pc' = [pc EXCEPT ![r] = "panic"] /\ UNCHANGED result
    BY <1>5, <1>7, <2>3
  <2> QED
    BY <1>7, <2>2, <2>3 DEF Panic
<1>8. ASSUME NEW r \in Reader, NEW q \in [offset : Nat, size : Nat],
             Read(r, q) \/ ReadPanics(r, q) \/ ReadBlocks(r, q)
      PROVE  /\ result' \in [Reader -> T]
             /\ \A x \in Reader : pc'[x] = "idle" => Exact(req'[x], result'[x])
  <2> HIDE DEF T
  <2>1. CASE Read(r, q) \/ ReadBlocks(r, q)
    BY <1>5, <2>1 DEF Read, ReadBlocks
  <2>2. CASE ReadPanics(r, q)
    <3>1. Panic(r) /\ req' = [req EXCEPT ![r] = q] /\ req'[r] = q
      BY <1>0, <2>2 DEF ReadPanics
    <3> QED
      BY <1>7, <3>1
  <2> QED
    BY <1>8, <2>1, <2>2
<1>9. ASSUME NEW r \in Reader, GrabPanics(r) \/ GrabMissing(r)
      PROVE  /\ result' \in [Reader -> T]
             /\ \A x \in Reader : pc'[x] = "idle" => Exact(req'[x], result'[x])
  <2> HIDE DEF T
  <2>1. req' = req /\ req[r] \in [offset : Nat, size : Nat]
    BY <1>0, <1>9 DEF GrabPanics, GrabMissing
  <2>2. CASE GrabMissing(r)
    BY <1>5, <2>1, <2>2 DEF GrabMissing
  <2>3. CASE GrabPanics(r)
    BY <1>7, <2>1, <2>3 DEF GrabPanics
  <2> QED
    BY <1>9, <2>2, <2>3
<1> HIDE DEF T
<1> QED
  BY <1>3, <1>4, <1>6, <1>8, <1>9
  DEF AnyNext, Fetched, FetchFailed, Close, vars, readers

\* What Read returns is not what becomes of a Read that panics.
LEMMA EmptyNoPanic == Empty # Panicked /\ Error # Panicked /\ \A t : Data(t) # Panicked
<1>1. Error.kind = "error" /\ Panicked.kind = "panic" /\ \A t : Data(t).kind = "data"
  BY DEF Error, Panicked, Data
<1> QED
  BY <1>1 DEF Empty

\* A panic needs a request beyond the end of the file, or an answer cut short;
\* one that leaves the mutex locked needs such a request.
LEMMA PanicStep ==
  ASSUME TypeOK, SliceInv, RequestInv, ResultInv, PanicsOnlyBeyondEnd, [AnyNext]_vars
  PROVE  PanicsOnlyBeyondEnd'
<1> DEFINE Gone(x) == pc[x] = "panic" \/ (pc[x] = "idle" /\ result[x] = Panicked)
<1>1. \A q \in stuck' : ~Fits(q)
  <2>1. ASSUME NEW r \in Reader, NEW q \in [offset : Nat, size : Nat], ReadPanics(r, q)
        PROVE  stuck' = stuck \/ (stuck' = {q} /\ ~Fits(q))
    BY <2>1, FitsInRange DEF ReadPanics
  <2>2. \/ stuck' = stuck
        \/ \E q \in [offset : Nat, size : Nat] : stuck' = {q} /\ ~Fits(q)
    BY <2>1 DEF AnyNext, ReadAtEnd, Read, ReadBlocks, Fetched, FetchFailed, Close, Interrupted,
                Grab, GrabPanics, GrabMissing, GiveUp, vars, handle
  <2> QED
    BY <2>2 DEF PanicsOnlyBeyondEnd
<1>2. ASSUME ~short', NEW x \in Reader, Gone(x)'
      PROVE  ~Fits(req'[x])
  <2>0. ~short
    BY <1>2 DEF AnyNext, ReadAtEnd, Read, ReadPanics, ReadBlocks, Panic, Fetched, FetchFailed,
                Interrupted, Grab, GrabPanics, GrabMissing, GiveUp, vars, handle
  <2>1. Gone(x) => ~Fits(req[x])
    BY <2>0 DEF PanicsOnlyBeyondEnd
  <2>2. ASSUME NEW r \in Reader, NEW q \in [offset : Nat, size : Nat], ReadPanics(r, q)
        PROVE  ~Fits(req'[x])
    <3>1. ~Fits(q)
      BY <2>2, FitsInRange DEF ReadPanics
    <3>2. /\ req' = [req EXCEPT ![r] = q]
          /\ x # r => pc'[x] = pc[x] /\ result'[x] = result[x]
      BY <2>2 DEF ReadPanics, Panic, TypeOK, ResultInv, ResultType
    <3> QED
      BY <1>2, <2>1, <3>1, <3>2 DEF TypeOK
  <2>3. ASSUME NEW r \in Reader, GrabPanics(r)
        PROVE  FALSE
    <3>1. Proper(req[r])
      BY <2>3 DEF GrabPanics, Ready, RequestInv
    <3> QED
      BY <2>0, <2>3, <3>1, LeadThere DEF GrabPanics
  <2>4. Error # Panicked /\ \A t : Data(t) # Panicked
    BY EmptyNoPanic
  <2>5. DOMAIN pc = Reader /\ DOMAIN req = Reader /\ DOMAIN result = Reader
    BY DEF TypeOK, ResultInv, ResultType
  <2>6. ASSUME NEW r \in Reader, NEW q \in [offset : Nat, size : Nat],
               ReadAtEnd(r, q) \/ Read(r, q) \/ ReadBlocks(r, q)
        PROVE  Gone(x) /\ req'[x] = req[x]
    <3>1. \/ pc' = pc /\ result' = [result EXCEPT ![r] = Data(<< >>)]
          \/ result' = result /\ \E p \in {"wait", "grab", "blocked"} : pc' = [pc EXCEPT ![r] = p]
      BY <2>6 DEF ReadAtEnd, Read, ReadBlocks, Empty
    <3>2. req' = [req EXCEPT ![r] = q]
      BY <2>6 DEF ReadAtEnd, Read, ReadBlocks
    <3>3. pc[r] = "idle"
      BY <2>6 DEF ReadAtEnd, Read, ReadBlocks
    <3>4. CASE x = r
      BY <1>2, <2>4, <2>5, <3>1, <3>3, <3>4
    <3>5. CASE x # r
      BY <1>2, <2>5, <3>1, <3>2, <3>5
    <3> QED
      BY <3>4, <3>5
  <2>7. ASSUME NEW r \in Reader, Interrupted(r) \/ Grab(r) \/ GrabMissing(r) \/ GiveUp(r)
        PROVE  Gone(x) /\ req'[x] = req[x]
    <3>1. req' = req
      BY <2>7 DEF Interrupted, Grab, GrabMissing, GiveUp, Return
    <3>2. \/ result' = result /\ pc' = [pc EXCEPT ![r] = "fail"]
          \/ /\ pc' = [pc EXCEPT ![r] = "idle"]
             /\ result' = [result EXCEPT ![r] = Error] \/ \E t : result' = [result EXCEPT ![r] = Data(t)]
      BY <2>7 DEF Interrupted, Grab, GrabMissing, GiveUp, Return, Empty
    <3>3. CASE x = r
      BY <1>2, <2>4, <2>5, <3>2, <3>3
    <3>4. CASE x # r
      BY <1>2, <2>5, <3>1, <3>2, <3>4
    <3> QED
      BY <3>3, <3>4
  <2>8. CASE UNCHANGED <<pc, req, result>>
    BY <1>2, <2>1, <2>8
  <2> QED
    BY <2>1, <2>2, <2>3, <2>6, <2>7, <2>8
    DEF AnyNext, Fetched, FetchFailed, Close, vars, readers
<1> QED
  BY <1>1, <1>2 DEF PanicsOnlyBeyondEnd, Fits

\* The three hold at first.
LEMMA ReadInit ==
  ASSUME Init
  PROVE  SliceInv /\ RequestInv /\ ResultInv
<1>1. Len(Nil) <= BlockSize
  BY SizeAssumption DEF Nil
<1>2. SliceInv /\ RequestInv
  BY <1>1 DEF Init, SliceInv, RequestInv
<1>3. [offset |-> 0, size |-> 0] \in [offset : Nat, size : Nat]
  OBVIOUS
<1>4. Exact([offset |-> 0, size |-> 0], Empty)
  BY <1>3, NothingExact
<1>5. ResultInv
  BY <1>4 DEF Init, ResultInv, ResultType, Exact
<1> QED
  BY <1>2, <1>5

\* As long as no peer's file was cut short after it was hashed, no Read of a
\* request that fits the file's blocks panics, and none panics on a short slice;
\* and cut short or not, only a request that does not fit leaves the handle's
\* mutex locked when its panic is recovered.
THEOREM PanicsExplained == Spec => []PanicsOnlyBeyondEnd
<1>1. Init => SliceInv /\ RequestInv /\ ResultInv /\ PanicsOnlyBeyondEnd
  <2>1. Init => PanicsOnlyBeyondEnd
    BY EmptyNoPanic DEF Init, PanicsOnlyBeyondEnd
  <2> QED
    BY <2>1, ReadInit
<1>2. TypeOK /\ SliceInv /\ RequestInv /\ ResultInv /\ PanicsOnlyBeyondEnd /\ [AnyNext]_vars
        => SliceInv' /\ RequestInv' /\ ResultInv' /\ PanicsOnlyBeyondEnd'
  BY SliceStep, RequestStep, ResultStep, PanicStep
<1> QED
  BY <1>1, <1>2, NextIsAny, TypeCorrect, PTL DEF Spec

\* Every Read that returns bytes returns exactly those that were asked for,
\* whatever other readers fetched, purged or fetched again while it waited; and
\* it never returns more than was asked for, even from files that were cut.
THEOREM ReadsExact == Spec => []ExactBytes
<1>1. Init => SliceInv /\ RequestInv /\ ResultInv
  BY ReadInit
<1>2. TypeOK /\ SliceInv /\ RequestInv /\ ResultInv /\ [AnyNext]_vars
        => SliceInv' /\ RequestInv' /\ ResultInv'
  BY SliceStep, RequestStep, ResultStep
<1>3. ResultInv => ExactBytes
  BY DEF ResultInv, Exact, ExactBytes, Returned
<1> QED
  BY <1>1, <1>2, <1>3, NextIsAny, TypeCorrect, PTL DEF Spec

-----------------------------------------------------------------------------
(***************************************************************************)
(* Stream.                                                                 *)
(***************************************************************************)

\* The variables of the stream have their types, and the offset tells how much
\* was delivered: whole buffers as long as the stream goes on.
StreamType ==
  /\ start \in Nat
  /\ out \in Seq(0 .. Size - 1)
  /\ offset = start + Len(out)
  /\ stream \in {"open", "reading", "eof", "error", "closed"}
  /\ stream \in {"open", "reading"} => \E k \in Nat : Len(out) = k * BufSize

\* The handle is read between Begin and Returns, from the stream's offset on.
TurnInv ==
  /\ stream # "reading" => \A r \in Reader : pc[r] = "idle"
  /\ stream = "reading" =>
       \A r \in Reader : req[r] = [offset |-> offset, size |-> BufSize]

\* A fetch that is over has left its block, an error, or there is nothing to leave.
MissInv ==
  ~short => \A b \in active \ running :
              cache[b] # Nil \/ lastErr \/ b * BlockSize >= Size

\* Every block a Read still needs is there or was asked for.
WaitInv ==
  \A r \in Reader : pc[r] \in {"wait", "grab"} =>
    /\ pc[r] = "grab" => waiting[r] = {}
    /\ \A b \in Blocks(req[r]) :
         cache[b] # Nil \/ (b \in active /\ (b \in running => b \in waiting[r]))

\* A Read gives up because of an error, or of a block behind the file.
FailInv ==
  ~short => \A r \in Reader : pc[r] = "fail" =>
              lastErr \/ \E b \in Blocks(req[r]) : b * BlockSize >= Size

\* A slice is the beginning of its block.
PlaceInv ==
  \A b \in Block : \A i \in 1 .. Len(cache[b]) : cache[b][i] = b * BlockSize + i - 1

\* A Read beyond the end of the file does not panic.
CrashInv == \A r \in Reader : pc[r] = "panic" => req[r].offset < Size

Whole == ~short /\ ~Overreads

\* What a Read of the stream has returned is what it asked for,
TailInv ==
  Whole /\ stream = "reading" =>
    \A r \in Reader : pc[r] = "idle" /\ result[r].kind = "data" =>
                        result[r].bytes = Wanted(req[r])

\* and so is what was delivered.
OutInv == Whole => Len(out) <= Abstract!Total /\ out = Abstract!Prefix(Len(out))

Aligned == start % BufSize = 0 /\ BlockSize % BufSize = 0

PieceInv ==
  Aligned /\ stream = "reading" =>
    \A r \in Reader : pc[r] = "idle" =>
      \A i \in 1 .. Len(result[r].bytes) : result[r].bytes[i] = req[r].offset + i - 1

PlacedInv == Aligned => out = Abstract!Prefix(Len(out))

-----------------------------------------------------------------------------
(* What Fetch does below a stream.                                         *)

\* What FetchProofs shows of the handle and its readers.
FetchInv ==
  /\ TypeOK /\ ChannelsSound /\ SliceInv
  /\ RequestInv /\ PanicsOnlyBeyondEnd /\ ResultInv

LEMMA FetchInit == Init => FetchInv
<1> SUFFICES ASSUME Init
             PROVE  FetchInv
  OBVIOUS
<1>1. TypeOK /\ ChannelsSound
  <2>1. Nil \in Seq(0 .. Size - 1)
    BY DEF Nil
  <2>2. [offset |-> 0, size |-> 0] \in [offset : Nat, size : Nat]
    OBVIOUS
  <2>3. TypeOK
    BY <2>1, <2>2 DEF Init, TypeOK
  <2> QED
    BY <2>3 DEF Init, ChannelsSound
<1>2. PanicsOnlyBeyondEnd
  BY EmptyNoPanic DEF Init, PanicsOnlyBeyondEnd
<1> QED
  BY <1>1, <1>2, ReadInit DEF FetchInv

LEMMA FetchStep ==
  ASSUME FetchInv, [AnyNext]_vars
  PROVE  FetchInv'
BY TypeStep, ChannelsStep, SliceStep, RequestStep, PanicStep, ResultStep DEF FetchInv

\* A step of the stream is a step of Fetch or none.
LEMMA StreamSteps ==
  ASSUME StreamType, [StreamNext]_svars
  PROVE  [AnyNext]_vars
<1>1. ASSUME NEW r \in Reader, Begin(r)
      PROVE  AnyNext
  <2>1. [offset |-> offset, size |-> BufSize] \in [offset : Nat, size : Nat]
    <3>1. offset \in Nat /\ BufSize \in Nat
      BY StreamAssumption, LenProperties DEF StreamType
    <3> QED
      BY <3>1
  <2> QED
    BY <1>1, <2>1 DEF Begin, AnyNext
<1>2. ASSUME NEW r \in Reader, Returns(r)
      PROVE  UNCHANGED vars
  BY <1>2 DEF Returns
<1>3. CASE CloseStream
  BY <1>3 DEF CloseStream
<1>4. CASE Fetching
  BY <1>4 DEF Fetching, AnyNext
<1>5. CASE UNCHANGED svars
  BY <1>5 DEF svars
<1> QED
  BY <1>1, <1>2, <1>3, <1>4, <1>5 DEF StreamNext, Copying

\* Once an answer was cut short it stays so.
LEMMA ShortStays ==
  ASSUME [AnyNext]_vars, ~short'
  PROVE  ~short
BY DEF AnyNext, ReadAtEnd, Read, ReadPanics, ReadBlocks, Panic, Fetched, FetchFailed, Interrupted,
       Grab, GrabPanics, GrabMissing, GiveUp, vars, handle

\* Every slice stays the beginning of its block.
LEMMA PlaceStep ==
  ASSUME FetchInv, PlaceInv, [AnyNext]_vars
  PROVE  PlaceInv'
<1>0. cache \in [Block -> Seq(0 .. Size - 1)]
  BY DEF FetchInv, TypeOK
<1>1. ASSUME NEW r \in Reader, NEW q \in [offset : Nat, size : Nat], Read(r, q)
      PROVE  PlaceInv'
  <2>1. cache' = [b \in Block |-> IF b \in Purged(q) THEN Nil ELSE cache[b]]
    BY <1>1 DEF Read
  <2>2. \A b \in Block : cache'[b] = Nil \/ cache'[b] = cache[b]
    BY <2>1
  <2>3. Len(Nil) = 0
    BY DEF Nil
  <2> QED
    BY <2>2, <2>3 DEF PlaceInv
<1>2. ASSUME NEW b \in Block, NEW k \in Lost, Fetched(b, k)
      PROVE  PlaceInv'
  <2> DEFINE s == Answer(b, k)
             left == Size - b * BlockSize
             n == (IF left < BlockSize THEN left ELSE BlockSize) - k
  <2>1. DOMAIN s = 1 .. Len(s)
    BY AnswerType, LenProperties
  <2>2. DOMAIN s = 1 .. n /\ \A i \in 1 .. n : s[i] = b * BlockSize + i - 1
    BY DEF Answer
  <2>3. \A x \in Block : cache'[x] = IF x = b THEN s ELSE cache[x]
    BY <1>0, <1>2 DEF Fetched
  <2> HIDE DEF s, n
  <2>4. \A i \in 1 .. Len(s) : s[i] = b * BlockSize + i - 1
    BY <2>1, <2>2
  <2> QED
    BY <2>3, <2>4 DEF PlaceInv
<1>3. CASE UNCHANGED cache
  BY <1>3 DEF PlaceInv
<1> QED
  BY <1>1, <1>2, <1>3
  DEF AnyNext, ReadAtEnd, ReadPanics, ReadBlocks, Panic, FetchFailed, Interrupted, Grab, GrabPanics,
      GrabMissing, GiveUp, vars, handle

\* Only a Read within the file panics.
LEMMA CrashStep ==
  ASSUME FetchInv, CrashInv, [AnyNext]_vars
  PROVE  CrashInv'
<1> SUFFICES ASSUME NEW x \in Reader, pc'[x] = "panic"
             PROVE  req'[x].offset < Size
  BY DEF CrashInv
<1>0. pc \in [Reader -> {"idle", "wait", "grab", "fail", "blocked", "panic"}]
      /\ req \in [Reader -> [offset : Nat, size : Nat]]
  BY DEF FetchInv, TypeOK
<1>1. ASSUME NEW r \in Reader, NEW q \in [offset : Nat, size : Nat],
             ReadAtEnd(r, q) \/ Read(r, q) \/ ReadPanics(r, q) \/ ReadBlocks(r, q)
      PROVE  req'[x].offset < Size
  BY <1>0, <1>1 DEF ReadAtEnd, Read, ReadPanics, ReadBlocks, Panic, CrashInv
<1>2. ASSUME NEW r \in Reader, GrabPanics(r)
      PROVE  req'[x].offset < Size
  <2>1. req[r].offset < Size
    BY <1>2 DEF GrabPanics, Ready, FetchInv, RequestInv, Proper
  <2> QED
    BY <1>0, <1>2, <2>1 DEF GrabPanics, Panic, CrashInv
<1>3. ASSUME NEW r \in Reader, Interrupted(r) \/ Grab(r) \/ GrabMissing(r) \/ GiveUp(r)
      PROVE  req'[x].offset < Size
  BY <1>0, <1>3 DEF Interrupted, Grab, GrabMissing, GiveUp, Return, CrashInv
<1>4. CASE UNCHANGED <<pc, req>>
  BY <1>4 DEF CrashInv
<1> QED
  BY <1>1, <1>2, <1>3, <1>4
  DEF AnyNext, Fetched, FetchFailed, Close, vars, readers

\* A whole answer is Nil only for the block behind the file.
LEMMA WholeNotNil ==
  ASSUME NEW b \in Block, Answer(b, 0) = Nil
  PROVE  b * BlockSize >= Size
<1> DEFINE a == b * BlockSize
           e == BlockEnd(b)
<1>1. /\ a \in Nat /\ e \in Nat /\ a <= e /\ Size \in Nat /\ BlockSize \in Nat \ {0}
      /\ e = IF Size < a + BlockSize THEN Size ELSE a + BlockSize
  BY BlockBegins, SizeAssumption DEF BlockEnd
<1>2. Bytes(a, e) = << >>
  BY WholeAnswer DEF Nil
<1> HIDE DEF a, e
<1>3. DOMAIN Bytes(a, e) = 1 .. e - a
  BY DEF Bytes
<1>4. 1 .. e - a = {}
  BY <1>2, <1>3
<1>5. ~(1 \in 1 .. e - a)
  BY <1>4
<1>6. e <= a
  BY <1>1, <1>5
<1>7. a >= Size
  BY <1>1, <1>6
<1> QED
  BY <1>7 DEF a

\* Whatever fetch has ended leaves something behind.
LEMMA MissStep ==
  ASSUME FetchInv, MissInv, [AnyNext]_vars
  PROVE  MissInv'
<1> SUFFICES ASSUME ~short', NEW x \in active' \ running', ~lastErr', x * BlockSize < Size
             PROVE  cache'[x] # Nil
  <2>1. \A x \in active' : x * BlockSize \in Nat /\ Size \in Nat
    <3>1. active' \subseteq Block
      BY FetchStep DEF FetchInv, TypeOK
    <3> QED
      BY <3>1, BlockBegins, SizeAssumption
  <2> QED
    BY <2>1 DEF MissInv
<1>0. /\ cache \in [Block -> Seq(0 .. Size - 1)] /\ active \subseteq Block /\ x \in Block
      /\ running \subseteq active
  BY FetchStep DEF FetchInv, TypeOK, ChannelsSound
<1>1. ~short
  BY ShortStays
<1>2. ASSUME x \in active \ running, ~lastErr
      PROVE  cache[x] # Nil
  <2>1. ~(x * BlockSize >= Size)
    BY <1>0, BlockBegins, SizeAssumption
  <2> QED
    BY <1>1, <1>2, <2>1 DEF MissInv
<1>3. ASSUME NEW r \in Reader, NEW q \in [offset : Nat, size : Nat], Read(r, q)
      PROVE  cache'[x] # Nil
  <2>1. /\ x \in active \ running /\ x \notin Purged(q)
        /\ ~lastErr
        /\ cache' = [b \in Block |-> IF b \in Purged(q) THEN Nil ELSE cache[b]]
    BY <1>3 DEF Read
  <2>2. cache'[x] = cache[x]
    BY <1>0, <2>1
  <2> QED
    BY <1>2, <2>1, <2>2
<1>4. ASSUME NEW b \in Block, NEW k \in Lost, Fetched(b, k)
      PROVE  cache'[x] # Nil
  <2>1. /\ cache' = [cache EXCEPT ![b] = Answer(b, k)] /\ short' = (short \/ k > 0)
        /\ running' = running \ {b} /\ active' = active /\ lastErr' = lastErr
    BY <1>4 DEF Fetched, Close
  <2>2. CASE x = b
    <3>1. k = 0
      <4>1. ~(k > 0)
        BY <2>1, Zenon
      <4>2. k \in Nat
        BY SizeAssumption
      <4> QED
        BY <4>1, <4>2
    <3>2. cache'[x] = Answer(b, 0)
      BY <1>0, <2>1, <2>2, <3>1
    <3>3. ~(b * BlockSize >= Size)
      BY <2>2, BlockBegins, SizeAssumption
    <3> QED
      BY <3>2, <3>3, WholeNotNil
  <2>3. CASE x # b
    BY <1>0, <1>2, <2>1, <2>3
  <2> QED
    BY <2>2, <2>3
<1>5. ASSUME NEW b \in Block, FetchFailed(b)
      PROVE  cache'[x] # Nil
  BY <1>5 DEF FetchFailed
<1>6. CASE UNCHANGED <<cache, active, running, lastErr>>
  BY <1>2, <1>6
<1> QED
  BY <1>3, <1>4, <1>5, <1>6
  DEF AnyNext, ReadAtEnd, ReadPanics, ReadBlocks, Panic, Interrupted, Grab, GrabPanics,
      GrabMissing, GiveUp, vars, handle

\* There is one reader, so that nobody else purges a block it waits for.
LEMMA SoleReader ==
  ASSUME OwnHandle, NEW r \in Reader, NEW x \in Reader
  PROVE  r = x
BY DEF OwnHandle

LEMMA WaitStep ==
  ASSUME OwnHandle, FetchInv, WaitInv, [AnyNext]_vars
  PROVE  WaitInv'
<1> SUFFICES ASSUME NEW x \in Reader, pc'[x] \in {"wait", "grab"}
             PROVE  /\ pc'[x] = "grab" => waiting'[x] = {}
                    /\ \A b \in Blocks(req'[x]) :
                         cache'[b] # Nil
                           \/ (b \in active' /\ (b \in running' => b \in waiting'[x]))
  BY DEF WaitInv, Blocks, First, End
<1>0. /\ cache \in [Block -> Seq(0 .. Size - 1)] /\ active \subseteq Block
      /\ running \subseteq active /\ \A b \in running : cache[b] = Nil
      /\ pc \in [Reader -> {"idle", "wait", "grab", "fail", "blocked", "panic"}]
      /\ req \in [Reader -> [offset : Nat, size : Nat]]
      /\ waiting \in [Reader -> SUBSET Block]
  BY DEF FetchInv, TypeOK, ChannelsSound
<1>1. ASSUME NEW r \in Reader, NEW q \in [offset : Nat, size : Nat], Read(r, q)
      PROVE  /\ pc'[x] = "grab" => waiting'[x] = {}
             /\ \A b \in Blocks(req'[x]) :
                  cache'[b] # Nil
                    \/ (b \in active' /\ (b \in running' => b \in waiting'[x]))
  <2>1. /\ x = r /\ req'[x] = q /\ waiting'[x] = Unfetched(q) \cap running'
        /\ pc'[x] = IF Unfetched(q) = {} THEN "grab" ELSE "wait"
    BY <1>0, <1>1, SoleReader DEF Read
  <2>2. ASSUME NEW b \in Blocks(q), cache'[b] = Nil
        PROVE  b \in active' /\ (b \in running' => b \in waiting'[x])
    <3>1. b \notin Purged(q)
      <4>1. First(q) \in Nat /\ b \in First(q) .. End(q) - 1 /\ End(q) \in Nat
        BY RequestShape DEF Blocks
      <4> QED
        BY <4>1 DEF Purged
    <3>2. b \in Block
      BY <1>1 DEF Read, OutOfRange
    <3>3. b \in Unfetched(q)
      BY <1>1, <2>2, <3>1, <3>2 DEF Read, Unfetched
    <3>4. b \in active'
      BY <1>1, <3>1, <3>3 DEF Read, ToFetch
    <3> QED
      BY <2>1, <3>3, <3>4
  <2>3. pc'[x] = "grab" => waiting'[x] = {}
    BY <2>1
  <2> QED
    BY <2>1, <2>2, <2>3
<1>2. ASSUME NEW r \in Reader, NEW q \in [offset : Nat, size : Nat],
             ReadAtEnd(r, q) \/ ReadPanics(r, q) \/ ReadBlocks(r, q)
      PROVE  FALSE
  BY <1>0, <1>2, SoleReader DEF ReadAtEnd, ReadPanics, ReadBlocks, Panic
<1>3. ASSUME NEW r \in Reader,
             Interrupted(r) \/ Grab(r) \/ GrabPanics(r) \/ GrabMissing(r) \/ GiveUp(r)
      PROVE  FALSE
  BY <1>0, <1>3, SoleReader DEF Interrupted, Grab, GrabPanics, GrabMissing, GiveUp, Return, Panic
<1>4. ASSUME NEW b \in Block, b \in running, Close(b), NEW s,
             cache' = cache \/ cache' = [cache EXCEPT ![b] = s]
      PROVE  /\ pc'[x] = "grab" => waiting'[x] = {}
             /\ \A y \in Blocks(req'[x]) :
                  cache'[y] # Nil
                    \/ (y \in active' /\ (y \in running' => y \in waiting'[x]))
  <2>1. /\ pc' = pc /\ req' = req /\ active' = active /\ running' = running \ {b}
        /\ waiting'[x] = waiting[x] \ {b}
    BY <1>0, <1>4 DEF Close
  <2>2. \A y \in Blocks(req[x]) :
          cache[y] # Nil \/ (y \in active /\ (y \in running => y \in waiting[x]))
    BY <2>1 DEF WaitInv
  <2>3. pc[x] = "grab" => waiting[x] = {}
    BY <2>1 DEF WaitInv
  <2>4. Blocks(req[x]) \subseteq Block
    BY <2>1 DEF FetchInv, RequestInv, Proper, OutOfRange
  <2>5. \A y \in Block : y # b => cache'[y] = cache[y]
    BY <1>0, <1>4
  <2> QED
    BY <1>0, <1>4, <2>1, <2>2, <2>3, <2>4, <2>5
<1>5. ASSUME NEW b \in Block, NEW k \in Lost, Fetched(b, k)
      PROVE  b \in running /\ Close(b) /\ cache' = [cache EXCEPT ![b] = Answer(b, k)]
  BY <1>5 DEF Fetched
<1>6. ASSUME NEW b \in Block, FetchFailed(b)
      PROVE  b \in running /\ Close(b) /\ cache' = cache
  BY <1>6 DEF FetchFailed
<1>7. CASE UNCHANGED vars
  BY <1>7 DEF vars, handle, readers, WaitInv
<1> QED
  BY <1>1, <1>2, <1>3, <1>4, <1>5, <1>6, <1>7 DEF AnyNext

\* A Read gives up for one of the two reasons.
LEMMA FailStep ==
  ASSUME OwnHandle, FetchInv, MissInv, WaitInv, FailInv, [AnyNext]_vars
  PROVE  FailInv'
<1> SUFFICES ASSUME ~short', NEW x \in Reader, pc'[x] = "fail"
             PROVE  lastErr' \/ \E b \in Blocks(req'[x]) : b * BlockSize >= Size
  BY DEF FailInv, Blocks, First, End
<1>0. /\ pc \in [Reader -> {"idle", "wait", "grab", "fail", "blocked", "panic"}]
      /\ req \in [Reader -> [offset : Nat, size : Nat]]
  BY DEF FetchInv, TypeOK
<1>1. ~short
  BY ShortStays
<1>2. ASSUME NEW r \in Reader, GrabMissing(r)
      PROVE  lastErr' \/ \E b \in Blocks(req'[x]) : b * BlockSize >= Size
  <2>1. /\ x = r /\ req' = req /\ lastErr' = lastErr
        /\ pc[r] \in {"wait", "grab"} /\ waiting[r] = {}
    BY <1>2, SoleReader DEF GrabMissing, Ready, WaitInv, handle
  <2>2. PICK b \in Blocks(req[r]) : cache[b] = Nil
    BY <1>2 DEF GrabMissing, Complete
  <2>3. b \in active \ running
    BY <2>1, <2>2 DEF WaitInv
  <2>4. lastErr \/ b * BlockSize >= Size
    BY <1>1, <2>2, <2>3 DEF MissInv
  <2> QED
    BY <2>1, <2>4
<1>3. ASSUME NEW r \in Reader, NEW q \in [offset : Nat, size : Nat],
             ReadAtEnd(r, q) \/ Read(r, q) \/ ReadPanics(r, q) \/ ReadBlocks(r, q)
      PROVE  FALSE
  BY <1>0, <1>3, SoleReader DEF ReadAtEnd, Read, ReadPanics, ReadBlocks, Panic
<1>4. ASSUME NEW r \in Reader, Interrupted(r) \/ Grab(r) \/ GrabPanics(r) \/ GiveUp(r)
      PROVE  FALSE
  BY <1>0, <1>4, SoleReader DEF Interrupted, Grab, GrabPanics, GiveUp, Return, Panic
<1>5. CASE UNCHANGED <<pc, req>> /\ (lastErr => lastErr')
  BY <1>1, <1>5 DEF FailInv
<1> QED
  BY <1>2, <1>3, <1>4, <1>5
  DEF AnyNext, Fetched, FetchFailed, Close, vars, handle, readers

-----------------------------------------------------------------------------
(* One Read after the other.                                               *)

\* What the stream asks for.
Piece == [offset |-> offset, size |-> BufSize]

LEMMA PieceType ==
  ASSUME StreamType
  PROVE  /\ offset \in Nat /\ BufSize \in Nat \ {0} /\ Len(out) \in Nat
         /\ Piece \in [offset : Nat, size : Nat]
         /\ Piece.offset = offset /\ Piece.size = BufSize
<1>1. Len(out) \in Nat /\ start \in Nat /\ offset = start + Len(out)
  BY LenProperties DEF StreamType
<1>2. BufSize \in Nat \ {0}
  BY StreamAssumption
<1>3. offset \in Nat
  BY <1>1
<1> QED
  BY <1>1, <1>2, <1>3 DEF Piece

\* A Read returns as many bytes as the buffer holds, or the stream is over.
LEMMA StreamTypeStep ==
  ASSUME FetchInv, StreamType, TurnInv, [StreamNext]_svars
  PROVE  StreamType'
<1>1. ASSUME NEW r \in Reader, Returns(r), result[r].kind # "error"
      PROVE  StreamType'
  <2> DEFINE s == result[r].bytes
  <2>1. /\ s \in Seq(0 .. Size - 1) /\ Len(s) <= BufSize
        /\ stream = "reading"
    <3>1. pc[r] = "idle" /\ stream = "reading"
      BY <1>1 DEF Returns
    <3>2. Exact(req[r], result[r]) /\ req[r] = Piece
      BY <3>1 DEF FetchInv, ResultInv, TurnInv, Piece
    <3> QED
      BY <3>1, <3>2, PieceType DEF Exact
  <2>2. /\ out' = out \o s /\ offset' = offset + Len(s) /\ start' = start
        /\ stream' = IF Len(s) < BufSize THEN "eof" ELSE "open"
    BY <1>1 DEF Returns
  <2> HIDE DEF s
  <2>3. Len(s) \in Nat /\ Len(out) \in Nat /\ BufSize \in Nat /\ start \in Nat
        /\ offset = start + Len(out) /\ out \in Seq(0 .. Size - 1)
    BY <2>1, LenProperties, PieceType DEF StreamType
  <2>4. out \o s \in Seq(0 .. Size - 1) /\ Len(out \o s) = Len(out) + Len(s)
    BY <2>1, <2>3, ConcatProperties
  <2>5. offset' = start' + Len(out')
    BY <2>2, <2>3, <2>4
  <2>6. ASSUME stream' \in {"open", "reading"}
        PROVE  \E k \in Nat : Len(out') = k * BufSize
    <3>1. Len(s) = BufSize
      BY <2>1, <2>2, <2>3, <2>6
    <3>2. PICK k \in Nat : Len(out) = k * BufSize
      BY <2>1 DEF StreamType
    <3>3. (k + 1) * BufSize = k * BufSize + BufSize /\ k + 1 \in Nat
      BY <2>3
    <3>4. Len(out') = (k + 1) * BufSize
      BY <2>2, <2>4, <3>1, <3>2, <3>3
    <3> QED
      BY <3>3, <3>4
  <2>7. stream' \in {"open", "reading", "eof", "error", "closed"}
    BY <2>2
  <2> QED
    BY <2>2, <2>3, <2>4, <2>5, <2>6, <2>7 DEF StreamType
<1>2. ASSUME UNCHANGED <<start, offset, out>>,
             stream' \in {"open", "reading", "eof", "error", "closed"},
             stream' \in {"open", "reading"} => stream \in {"open", "reading"}
      PROVE  StreamType'
  BY <1>2 DEF StreamType
<1>3. ASSUME NEW r \in Reader, Returns(r), result[r].kind = "error"
      PROVE  StreamType'
  BY <1>2, <1>3 DEF Returns
<1>4. ASSUME NEW r \in Reader, Begin(r)
      PROVE  StreamType'
  BY <1>2, <1>4 DEF Begin
<1>5. CASE CloseStream
  BY <1>2, <1>5 DEF CloseStream
<1>6. CASE Fetching \/ UNCHANGED svars
  <2>1. stream \in {"open", "reading", "eof", "error", "closed"}
    BY DEF StreamType
  <2> QED
    BY <1>2, <1>6, <2>1 DEF Fetching, svars
<1> QED
  BY <1>1, <1>3, <1>4, <1>5, <1>6 DEF StreamNext, Copying

\* The handle is read between Begin and Returns only.
LEMMA TurnStep ==
  ASSUME OwnHandle, FetchInv, StreamType, TurnInv, [StreamNext]_svars
  PROVE  TurnInv'
<1>0. /\ pc \in [Reader -> {"idle", "wait", "grab", "fail", "blocked", "panic"}]
      /\ req \in [Reader -> [offset : Nat, size : Nat]]
  BY DEF FetchInv, TypeOK
<1>1. ASSUME NEW r \in Reader, Begin(r)
      PROVE  TurnInv'
  <2>1. /\ stream' = "reading" /\ offset' = offset
        /\ req' = [req EXCEPT ![r] = [offset |-> offset, size |-> BufSize]]
    BY <1>1 DEF Begin, ReadAtEnd, Read, ReadPanics
  <2>2. \A x \in Reader : req'[x] = [offset |-> offset, size |-> BufSize]
    BY <1>0, <2>1, SoleReader
  <2> QED
    BY <2>1, <2>2 DEF TurnInv
<1>2. ASSUME NEW r \in Reader, Returns(r)
      PROVE  TurnInv'
  <2>1. pc' = pc /\ pc[r] = "idle" /\ stream' # "reading"
    BY <1>2 DEF Returns, vars, readers
  <2> QED
    BY <2>1, SoleReader DEF TurnInv
<1>3. CASE CloseStream
  BY <1>3 DEF CloseStream, TurnInv, vars, readers
<1>4. CASE Fetching
  <2>1. stream' = stream /\ offset' = offset /\ req' = req
    BY <1>4 DEF Fetching, Fetched, FetchFailed, Close, Grab, GrabPanics, GrabMissing, GiveUp,
                Return, Panic
  <2>2. ASSUME stream # "reading"
        PROVE  pc' = pc
    <3>1. \A r \in Reader : pc[r] = "idle"
      BY <2>2 DEF TurnInv
    <3> QED
      BY <1>4, <3>1 DEF Fetching, Fetched, FetchFailed, Close, Grab, GrabPanics, GrabMissing,
                        GiveUp, Ready
  <2> QED
    BY <2>1, <2>2 DEF TurnInv
<1>5. CASE UNCHANGED svars
  BY <1>5 DEF svars, vars, readers, TurnInv
<1> QED
  BY <1>1, <1>2, <1>3, <1>4, <1>5 DEF StreamNext, Copying

\* Unless it overreads, the stream never needs the block behind the file.
LEMMA NoOverread ==
  ASSUME StreamType, stream = "reading", ~Overreads, Proper(Piece), NEW b \in Blocks(Piece)
  PROVE  ~(b * BlockSize >= Size)
<1> DEFINE q == Piece
<1>1. /\ Size \in Nat /\ BlockSize \in Nat \ {0} /\ BufSize \in Nat \ {0}
      /\ start \in Nat /\ offset \in Nat /\ Len(out) \in Nat /\ offset = start + Len(out)
      /\ q.offset = offset /\ q.size = BufSize
  BY SizeAssumption, PieceType DEF StreamType
<1>2. /\ Last(q) \in Nat /\ b <= Last(q) /\ b \in Block /\ Rest(q) \in 1 .. BlockSize
      /\ Stop(q) = Last(q) * BlockSize + Rest(q) /\ Stop(q) \in Nat /\ offset < Size
  <2>1. Blocks(q) = First(q) .. Last(q) /\ First(q) \in Nat
    BY ProperShape
  <2> QED
    BY <1>1, <2>1, ProperShape DEF Proper
<1>3. Stop(q) = offset + BufSize
  BY <1>1 DEF Stop
<1> HIDE DEF q
<1> SUFFICES ASSUME b * BlockSize >= Size
             PROVE  FALSE
  OBVIOUS
<1>4. b \in Nat /\ b * BlockSize = Size
  <2>1. b \in Nat /\ b * BlockSize \in Nat /\ b * BlockSize <= Size
    BY <1>2, BlockBegins
  <2> QED
    BY <1>1, <2>1
<1>5. Size % BlockSize = 0
  <2>1. (b * BlockSize + 0) % BlockSize = 0
    <3>1. 0 \in 0 .. BlockSize - 1
      BY <1>1
    <3> QED
      BY <1>1, <1>4, <3>1, Remainder
  <2>2. b * BlockSize + 0 = Size
    BY <1>1, <1>4
  <2> QED
    BY <2>1, <2>2
<1>6. Size < offset + BufSize
  <2>1. b * BlockSize <= Last(q) * BlockSize /\ Last(q) * BlockSize \in Nat
    BY <1>1, <1>2, <1>4, ProductMonotone
  <2> QED
    BY <1>1, <1>2, <1>3, <1>4, <2>1
<1>7. PICK k \in Nat : Len(out) = k * BufSize
  BY DEF StreamType
<1> DEFINE m == Size - offset
<1>8. m \in 1 .. BufSize - 1 \/ m = 0
  BY <1>1, <1>2, <1>6
<1>9. m # 0
  BY <1>1, <1>2
<1>10. (k * BufSize + m) % BufSize = m
  <2>1. m \in 0 .. BufSize - 1
    BY <1>1, <1>8
  <2> HIDE DEF m
  <2> QED
    BY <1>1, <2>1, Remainder
<1>11. k * BufSize + m = Size - start
  BY <1>1, <1>7
<1>12. start < Size
  BY <1>1, <1>2
<1> HIDE DEF m
<1> QED
  BY <1>5, <1>9, <1>10, <1>11, <1>12 DEF Overreads

\* There is nothing to be had at the end of the file.
LEMMA WantedNothing ==
  ASSUME NEW q \in [offset : Nat, size : Nat], q.offset >= Size
  PROVE  Wanted(q) = << >>
<1> DEFINE n == (IF q.offset + q.size < Size THEN q.offset + q.size ELSE Size) - q.offset
<1>1. Size \in Nat /\ q.offset \in Nat /\ q.size \in Nat
  BY SizeAssumption
<1>2. n \in Int /\ n <= 0
  BY <1>1
<1>3. 1 .. n = {}
  BY <1>2
<1>4. Wanted(q) = [i \in 1 .. n |-> q.offset + i - 1]
  BY DEF Wanted
<1> HIDE DEF n
<1> QED
  BY <1>3, <1>4

\* What becomes of a stream is settled when it is opened.
LEMMA WholeBefore ==
  ASSUME StreamType, [StreamNext]_svars, Whole'
  PROVE  Whole
<1>1. ~short
  BY StreamSteps, ShortStays DEF Whole
<1>2. start' = start
  BY DEF StreamNext, Copying, Begin, Returns, CloseStream, Fetching, svars
<1> QED
  BY <1>1, <1>2 DEF Whole, Overreads

\* What a Read returns is what is left in the file, up to a whole buffer.
LEMMA TailStep ==
  ASSUME OwnHandle, FetchInv, StreamType, TurnInv, FailInv, TailInv, [StreamNext]_svars
  PROVE  TailInv'
<1> SUFFICES ASSUME Whole', stream' = "reading",
                    NEW x \in Reader, pc'[x] = "idle", result'[x].kind = "data"
             PROVE  result'[x].bytes = Wanted(req'[x])
  BY DEF TailInv, Wanted
<1>0. /\ pc \in [Reader -> {"idle", "wait", "grab", "fail", "blocked", "panic"}]
      /\ req \in [Reader -> [offset : Nat, size : Nat]]
      /\ DOMAIN result = Reader
  BY DEF FetchInv, TypeOK, ResultInv, ResultType
<1>1. Whole
  BY WholeBefore
<1>2. ASSUME NEW r \in Reader, Begin(r)
      PROVE  result'[x].bytes = Wanted(req'[x])
  <2>1. x = r /\ (ReadAtEnd(r, Piece) \/ Read(r, Piece) \/ ReadPanics(r, Piece))
    BY <1>2, SoleReader DEF Begin, Piece
  <2>2. ReadAtEnd(r, Piece)
    BY <1>0, <2>1 DEF Read, ReadPanics, Panic, OwnHandle
  <2>3. req'[x] = Piece /\ result'[x] = Empty /\ Piece.offset >= Size
    BY <1>0, <2>1, <2>2 DEF ReadAtEnd
  <2>4. Wanted(Piece) = << >>
    BY <2>3, PieceType, WantedNothing
  <2> QED
    BY <2>3, <2>4 DEF Empty, Data
<1>3. ASSUME stream = "reading", UNCHANGED <<pc, req, result>>
      PROVE  result'[x].bytes = Wanted(req'[x])
  BY <1>1, <1>3 DEF TailInv
<1>4. ASSUME NEW r \in Reader, Grab(r)
      PROVE  result'[x].bytes = Wanted(req'[x])
  <2>1. /\ x = r /\ req' = req /\ Complete(req[r]) /\ Proper(req[r])
        /\ result' = [result EXCEPT ![r] = Data(Assembled(req[r]))]
    BY <1>4, SoleReader DEF Grab, Return, Ready, FetchInv, RequestInv
  <2>2. Assembled(req[r]) = Wanted(req[r])
    BY <1>1, <2>1, AssembledExact DEF FetchInv, Whole
  <2>3. result'[x] = Data(Assembled(req[r]))
    BY <1>0, <2>1
  <2> QED
    BY <2>1, <2>2, <2>3 DEF Data
<1>5. ASSUME NEW r \in Reader, GiveUp(r), stream = "reading"
      PROVE  FALSE
  <2>1. /\ x = r /\ pc[r] = "fail"
        /\ result' = [result EXCEPT ![r] = IF lastErr THEN Error ELSE Empty]
    BY <1>5, SoleReader DEF GiveUp, Return
  <2>2. ~lastErr
    BY <1>0, <2>1 DEF Error
  <2>3. req[r] = Piece /\ Proper(req[r])
    BY <1>5, <2>1 DEF TurnInv, Piece, FetchInv, RequestInv
  <2>4. \E b \in Blocks(Piece) : b * BlockSize >= Size
    BY <1>1, <2>1, <2>2, <2>3 DEF FailInv, Whole
  <2> QED
    BY <1>1, <1>5, <2>3, <2>4, NoOverread DEF Whole
<1>6. ASSUME NEW r \in Reader, GrabPanics(r) \/ GrabMissing(r)
      PROVE  FALSE
  BY <1>0, <1>6, SoleReader DEF GrabPanics, GrabMissing, Panic, OwnHandle
<1>7. CASE Fetching
  <2>1. stream = "reading"
    BY <1>7 DEF Fetching
  <2>2. ASSUME NEW b \in Block, (\E k \in Lost : Fetched(b, k)) \/ FetchFailed(b)
        PROVE  UNCHANGED <<pc, req, result>>
    BY <2>2 DEF Fetched, FetchFailed, Close
  <2> QED
    BY <1>3, <1>4, <1>5, <1>6, <1>7, <2>1, <2>2 DEF Fetching
<1>8. CASE UNCHANGED svars
  BY <1>3, <1>8 DEF svars, vars, readers
<1> QED
  BY <1>2, <1>7, <1>8 DEF StreamNext, Copying, Returns, CloseStream

\* Delivered bytes are a run of the file's.
LEMMA PrefixRun ==
  ASSUME NEW n \in Nat, start \in Nat
  PROVE  Abstract!Prefix(n) = Bytes(start, start + n)
<1>1. (start + n) - start = n
  OBVIOUS
<1> QED
  BY <1>1 DEF Abstract!Prefix, Bytes

\* A Read of the stream adds what is wanted of the file to what was delivered.
LEMMA Delivered ==
  ASSUME StreamType, Whole, OutInv
  PROVE  LET s == Wanted(Piece) n == Len(out) + Len(s)
         IN  /\ Len(s) \in Nat /\ out \o s = Abstract!Prefix(n)
             /\ n \in Len(out) .. Abstract!Total
             /\ Len(s) < BufSize => n = Abstract!Total
<1> DEFINE q == Piece
           l == Len(out)
           t == Abstract!Total
           e == IF offset + BufSize < Size THEN offset + BufSize ELSE Size
<1>1. /\ Size \in Nat /\ BufSize \in Nat \ {0} /\ start \in Nat /\ l \in Nat
      /\ offset \in Nat /\ offset = start + l /\ q \in [offset : Nat, size : Nat]
      /\ q.offset = offset /\ q.size = BufSize
      /\ out \in Seq(0 .. Size - 1)
  BY SizeAssumption, PieceType DEF StreamType
<1>2. /\ l <= t /\ out = Abstract!Prefix(l)
      /\ t = IF start < Size THEN Size - start ELSE 0
  BY DEF OutInv, Abstract!Total
<1>3. out = Bytes(start, offset)
  BY <1>1, <1>2, PrefixRun
<1>4. CASE offset >= Size
  <2>1. Wanted(q) = << >>
    BY <1>1, <1>4, WantedNothing
  <2>2. out \o << >> = out
    BY <1>1, ConcatEmptySeq
  <2>3. Len(<< >>) = 0
    OBVIOUS
  <2> HIDE DEF l, t, q
  <2>4. l = t /\ l + 0 = l
    BY <1>1, <1>2, <1>4
  <2> QED
    BY <1>1, <1>2, <2>1, <2>2, <2>3, <2>4 DEF l, t, q
<1>5. CASE offset < Size
  <2>1. e \in Nat /\ offset <= e /\ e <= Size /\ e <= offset + BufSize /\ start <= offset
    BY <1>1, <1>5
  <2>2. Wanted(q) = Bytes(offset, e)
    BY <1>1 DEF Wanted, Bytes
  <2>3. e - offset < BufSize => e = Size
    BY <1>1, <1>5
  <2> HIDE DEF e
  <2>4. Len(Bytes(offset, e)) = e - offset
    BY <1>1, <2>1, BytesSeq
  <2>5. out \o Bytes(offset, e) = Bytes(start, e)
    BY <1>1, <1>3, <2>1, BytesJoin
  <2> DEFINE n == l + (e - offset)
  <2>6. n \in Nat /\ start + n = e /\ l <= n /\ e - offset \in Nat
    BY <1>1, <2>1
  <2>7. Abstract!Prefix(n) = Bytes(start, e)
    <3> HIDE DEF n
    <3> QED
      BY <1>1, <2>6, PrefixRun
  <2> HIDE DEF l, t, q
  <2>8. t = Size - start
    BY <1>1, <1>2, <1>5
  <2>9. n <= t /\ t \in Nat
    BY <1>1, <2>1, <2>6, <2>8
  <2>10. e - offset < BufSize => n = t
    BY <1>1, <2>1, <2>3, <2>6, <2>8
  <2> HIDE DEF n
  <2>11. n \in l .. t
    BY <1>1, <2>6, <2>9
  <2> QED
    BY <2>2, <2>4, <2>5, <2>6, <2>7, <2>10, <2>11 DEF n, l, t, q
<1> QED
  BY <1>1, <1>4, <1>5

\* What was delivered stays the beginning of what there is to deliver.
LEMMA OutStep ==
  ASSUME OwnHandle, FetchInv, StreamType, TurnInv, TailInv, OutInv, [StreamNext]_svars
  PROVE  OutInv'
<1> SUFFICES ASSUME Whole'
             PROVE  /\ Len(out') <= Abstract!Total' /\ out' = Abstract!Prefix(Len(out))'
  BY DEF OutInv
<1>1. Whole
  BY WholeBefore
<1>2. ASSUME NEW r \in Reader, Returns(r), result[r].kind # "error"
      PROVE  /\ Len(out') <= Abstract!Total' /\ out' = Abstract!Prefix(Len(out))'
  <2> DEFINE s == Wanted(Piece)
  <2>1. /\ start' = start /\ out' = out \o result[r].bytes
        /\ stream = "reading" /\ pc[r] = "idle"
    BY <1>2 DEF Returns
  <2>2. result[r].kind = "data"
    BY <1>2, <2>1 DEF FetchInv, ResultInv, Exact, OwnHandle
  <2>3. result[r].bytes = s
    BY <1>1, <2>1, <2>2 DEF TailInv, TurnInv, Piece
  <2>4. s \in Seq(0 .. Size - 1)
    BY <2>3 DEF FetchInv, ResultInv, ResultType
  <2>5. Len(out \o s) = Len(out) + Len(s)
    BY <2>4, ConcatProperties DEF StreamType
  <2>6. /\ Len(s) \in Nat /\ out \o s = Abstract!Prefix(Len(out) + Len(s))
        /\ Len(out) + Len(s) \in Len(out) .. Abstract!Total
    BY <1>1, Delivered
  <2> HIDE DEF s
  <2>7. Len(out') = Len(out) + Len(s) /\ out' = Abstract!Prefix(Len(out'))
    BY <2>1, <2>3, <2>5, <2>6
  <2>8. Len(out) \in Nat /\ Abstract!Total \in Nat
    <3>1. start \in Nat /\ Size \in Nat
      BY SizeAssumption DEF StreamType
    <3> QED
      BY <3>1, PieceType DEF Abstract!Total
  <2>9. Len(out') <= Abstract!Total
    BY <2>6, <2>7, <2>8
  <2>10. Abstract!Total' = Abstract!Total /\ Abstract!Prefix(Len(out))' = Abstract!Prefix(Len(out'))
    BY <2>1 DEF Abstract!Total, Abstract!Prefix
  <2> QED
    BY <2>7, <2>9, <2>10
<1>3. ASSUME UNCHANGED <<start, out>>
      PROVE  /\ Len(out') <= Abstract!Total' /\ out' = Abstract!Prefix(Len(out))'
  BY <1>1, <1>3 DEF OutInv, Abstract!Total, Abstract!Prefix
<1>4. ASSUME NEW r \in Reader, Begin(r) \/ (Returns(r) /\ result[r].kind = "error")
      PROVE  UNCHANGED <<start, out>>
  BY <1>4 DEF Begin, Returns
<1>5. CASE CloseStream \/ Fetching \/ UNCHANGED svars
  BY <1>3, <1>5 DEF CloseStream, Fetching, svars
<1> QED
  BY <1>2, <1>3, <1>4, <1>5 DEF StreamNext, Copying

-----------------------------------------------------------------------------
(* Streams in step with the blocks.                                        *)

\* An aligned stream asks for bytes of a single block.
LEMMA AlignedSingle ==
  ASSUME StreamType, stream = "reading", Aligned
  PROVE  Stop(Piece) <= First(Piece) * BlockSize + BlockSize
<1> DEFINE q == Piece
           f == First(q)
           n == BufSize
           d == start \div n
           c == BlockSize \div n
<1>1. /\ n \in Nat \ {0} /\ BlockSize \in Nat \ {0} /\ start \in Nat /\ Len(out) \in Nat
      /\ offset = start + Len(out) /\ offset \in Nat
      /\ q \in [offset : Nat, size : Nat] /\ q.offset = offset /\ q.size = n
  BY SizeAssumption, PieceType DEF StreamType
<1>2. PICK k \in Nat : Len(out) = k * n
  BY DEF StreamType
<1>3. d \in Nat /\ start = d * n
  <2>1. d \in Nat /\ start = n * d + (start % n) /\ start % n = 0
    BY <1>1 DEF Aligned
  <2>2. n * d = d * n /\ d * n \in Nat
    BY <1>1, <2>1
  <2> HIDE DEF d, n
  <2> QED
    BY <1>1, <2>1, <2>2
<1>4. c \in Nat /\ BlockSize = c * n
  <2>1. c \in Nat /\ BlockSize = n * c + (BlockSize % n) /\ BlockSize % n = 0
    BY <1>1 DEF Aligned
  <2>2. n * c = c * n /\ c * n \in Nat
    BY <1>1, <2>1
  <2> HIDE DEF c, n
  <2> QED
    BY <1>1, <2>1, <2>2
<1>5. /\ f \in Nat /\ f * BlockSize \in Nat /\ Lead(q) \in 0 .. BlockSize - 1
      /\ offset = f * BlockSize + Lead(q) /\ Stop(q) = offset + n
  BY <1>1, RequestShape DEF Stop
<1> HIDE DEF q, f, n, d, c
<1>6. offset = (d + k) * n /\ d + k \in Nat
  <2>1. (d + k) * n = d * n + k * n
    BY <1>1, <1>2, <1>3
  <2> QED
    BY <1>1, <1>2, <1>3, <2>1
<1> DEFINE u == f * c + c
<1>7. u \in Nat /\ f * BlockSize + BlockSize = u * n
  <2>1. f * c \in Nat /\ f * (c * n) = (f * c) * n
    BY <1>1, <1>4, <1>5
  <2>2. (f * c + c) * n = (f * c) * n + c * n
    BY <1>1, <1>4, <2>1
  <2>3. u \in Nat
    BY <1>4, <2>1
  <2> QED
    BY <1>4, <2>1, <2>2, <2>3
<1> HIDE DEF u
<1>8. d + k < u
  <2>1. (d + k) * n < u * n
    BY <1>1, <1>5, <1>6, <1>7
  <2> QED
    BY <1>1, <1>6, <1>7, <2>1, ProductReflects
<1>9. (d + k + 1) * n <= u * n
  <2>1. d + k + 1 <= u /\ d + k + 1 \in Nat
    BY <1>6, <1>7, <1>8
  <2> QED
    BY <1>1, <1>7, <2>1, ProductMonotone
<1>10. (d + k + 1) * n = (d + k) * n + n
  BY <1>1, <1>6
<1> QED
  BY <1>5, <1>6, <1>7, <1>9, <1>10 DEF q, f

\* Such a request fits the blocks with bytes in them.
LEMMA AlignedFits ==
  ASSUME StreamType, stream = "reading", Aligned, offset < Size
  PROVE  Fits(Piece)
<1> DEFINE q == Piece
           f == First(q)
           C == (Size + BlockSize - 1) \div BlockSize
<1>1. /\ BufSize \in Nat \ {0} /\ BlockSize \in Nat \ {0} /\ Size \in Nat /\ offset \in Nat
      /\ q \in [offset : Nat, size : Nat] /\ q.offset = offset /\ q.size = BufSize
      /\ Size + BlockSize - 1 \in Nat
  BY SizeAssumption, PieceType
<1>2. /\ f \in Nat /\ f * BlockSize \in Nat /\ Lead(q) \in 0 .. BlockSize - 1
      /\ offset = f * BlockSize + Lead(q)
  BY <1>1, RequestShape
<1>3. Stop(q) <= f * BlockSize + BlockSize /\ Stop(q) = offset + BufSize
  BY <1>1, AlignedSingle DEF Stop
<1>4. C \in Nat /\ C * BlockSize \in Nat /\ Size + BlockSize - 1 < C * BlockSize + BlockSize
  BY <1>1, Division
<1> HIDE DEF C, f, q
<1>5. f < C
  <2>1. f * BlockSize < C * BlockSize
    BY <1>1, <1>2, <1>4
  <2> QED
    BY <1>1, <1>2, <1>4, <2>1, ProductReflects
<1>6. (f + 1) * BlockSize <= C * BlockSize /\ (f + 1) * BlockSize = f * BlockSize + BlockSize
  <2>1. f + 1 <= C /\ f + 1 \in Nat
    BY <1>2, <1>4, <1>5
  <2> QED
    BY <1>1, <1>2, <1>4, <2>1, ProductMonotone
<1>7. offset + BufSize <= C * BlockSize
  BY <1>1, <1>2, <1>3, <1>4, <1>6
<1> QED
  BY <1>1, <1>7 DEF Fits, C, q

\* The bytes of a request for a single block are in place, even if the block
\* is short.
LEMMA SingleInPlace ==
  ASSUME FetchInv, PlaceInv, NEW q, Proper(q), Stop(q) <= First(q) * BlockSize + BlockSize
  PROVE  \A i \in 1 .. Len(Assembled(q)) : Assembled(q)[i] = q.offset + i - 1
<1> DEFINE f == First(q)
           A == 0 .. Size - 1
           c == cache[f]
           j == Slice(q, f)
<1>1. /\ f \in Nat /\ f \in Block /\ f <= Last(q) /\ Last(q) \in Nat
      /\ Blocks(q) = f .. Last(q) /\ f * BlockSize \in Nat
      /\ Rest(q) \in 1 .. BlockSize /\ Stop(q) = Last(q) * BlockSize + Rest(q)
      /\ Stop(q) \in Nat /\ BlockSize \in Nat \ {0}
  BY ProperShape, BlockBegins, SizeAssumption
<1>2. Last(q) = f
  <2> HIDE DEF f
  <2>1. Last(q) * BlockSize < (f + 1) * BlockSize
    <3>1. (f + 1) * BlockSize = f * BlockSize + BlockSize /\ Last(q) * BlockSize \in Nat
      BY <1>1
    <3> QED
      BY <1>1, <3>1 DEF f
  <2>2. Last(q) < f + 1
    BY <1>1, <2>1, ProductReflects
  <2> QED
    BY <1>1, <2>2
<1>3. c \in Seq(A) /\ Len(c) <= BlockSize
      /\ \A i \in 1 .. Len(c) : c[i] = f * BlockSize + i - 1
  BY <1>1 DEF FetchInv, TypeOK, SliceInv, PlaceInv
<1>4. j = Shortened(c, q)
  BY <1>2 DEF Slice, Last
<1> HIDE DEF A, c, j
<1>5. j \in Seq(A) /\ \A i \in 1 .. Len(j) : j[i] = f * BlockSize + i - 1
  <2>1. /\ Shortened(c, q) = IF Len(c) > Rest(q) THEN SubSeq(c, 1, Rest(q)) ELSE c
        /\ Shortened(c, q) \in Seq(A)
        /\ Len(Shortened(c, q)) = IF Len(c) > Rest(q) THEN Rest(q) ELSE Len(c)
    BY <1>3, ShortenedShape
  <2>2. Len(c) \in Nat
    BY <1>3, LenProperties
  <2>3. CASE Len(c) > Rest(q)
    <3> DEFINE m == Rest(q)
    <3>1. \A i \in 1 .. m : c[i] \in A
      BY <1>1, <1>3, <2>2, <2>3, ElementOfSeq
    <3>2. \A i \in 1 .. m - 1 + 1 : SubSeq(c, 1, m)[i] = c[1 + i - 1]
      BY <1>1, <3>1, SubSeqProperties
    <3> HIDE DEF m
    <3>3. m \in Nat /\ m < Len(c) /\ j = SubSeq(c, 1, m) /\ Len(j) = m
      <4>1. m \in Nat /\ m < Len(c)
        BY <1>1, <2>2, <2>3 DEF m
      <4>2. Shortened(c, q) = SubSeq(c, 1, m) /\ Len(Shortened(c, q)) = m
        BY ONLY <2>1, <2>3, Zenon DEF m
      <4> QED
        BY ONLY <1>4, <4>1, <4>2, Zenon
    <3>4. ASSUME NEW i \in 1 .. m
          PROVE  j[i] = f * BlockSize + i - 1
      <4>1. i \in 1 .. m - 1 + 1 /\ 1 + i - 1 = i /\ i \in 1 .. Len(c)
        BY <2>2, <3>3
      <4>2. j[i] = c[i]
        BY <3>2, <3>3, <4>1
      <4> QED
        BY <1>3, <4>1, <4>2
    <3> QED
      BY <1>4, <2>1, <3>3, <3>4
  <2>4. CASE ~(Len(c) > Rest(q))
    BY <1>3, <1>4, <2>1, <2>4
  <2> QED
    BY <2>3, <2>4
<1>6. Joined(q) = j
  <2>1. PICK g : Joins(g, Slices(q), f, Last(q)) /\ Joined(q) = g[f]
    BY JoinedJoins
  <2>2. g[f] = Slices(q)[f] \o << >>
    <3>1. f \in f .. Last(q)
      BY <1>1
    <3> HIDE DEF f
    <3> QED
      BY <1>2, <2>1, <3>1 DEF Joins
  <2>3. Slices(q)[f] = j
    <3>1. f \in Blocks(q)
      BY <1>1
    <3> QED
      BY <3>1 DEF Slices, j
  <2>4. j \o << >> = j
    BY <1>5, ConcatEmptySeq
  <2> QED
    BY <2>1, <2>2, <2>3, <2>4, Zenon
<1>7. Assembled(q) = SubSeq(j, Lead(q) + 1, Len(j))
  BY <1>6 DEF Assembled
<1>8. Lead(q) \in Nat /\ q.offset = f * BlockSize + Lead(q) /\ Len(j) \in Nat
  BY <1>5, RequestShape, LenProperties DEF Proper
<1> DEFINE m == Lead(q) + 1
           t == SubSeq(j, m, Len(j))
<1>9. /\ Len(t) = IF m <= Len(j) THEN Len(j) - m + 1 ELSE 0
      /\ \A i \in 1 .. Len(j) - m + 1 : t[i] = j[m + i - 1]
  <2>1. m \in Int /\ Len(j) \in Int
    BY <1>8
  <2>2. \A i \in m .. Len(j) : j[i] \in A
    BY <1>5, <1>8, ElementOfSeq
  <2> HIDE DEF m
  <2> QED
    BY <2>1, <2>2, SubSeqProperties
<1> HIDE DEF t
<1>10. ASSUME NEW i \in 1 .. Len(t)
       PROVE  t[i] = q.offset + i - 1
  <2>1. i \in 1 .. Len(j) - m + 1 /\ m + i - 1 \in 1 .. Len(j)
    BY <1>8, <1>9
  <2> DEFINE k == m + i - 1
  <2>2. t[i] = j[k]
    BY <1>9, <2>1
  <2>3. k \in 1 .. Len(j) /\ k = Lead(q) + i
    BY <1>8, <2>1
  <2> HIDE DEF k, f
  <2>4. j[k] = f * BlockSize + k - 1
    BY <1>5, <2>3
  <2> QED
    <3> DEFINE a == f * BlockSize
    <3>1. a \in Nat /\ q.offset = a + Lead(q) /\ j[k] = a + k - 1
      BY <1>1, <1>8, <2>4 DEF f
    <3>2. i \in Int
      BY <2>1
    <3> HIDE DEF a
    <3> QED
      BY <1>8, <2>2, <2>3, <3>1, <3>2
<1> QED
  BY <1>7, <1>10 DEF t

\* What a Read of an aligned stream returns is in place,
LEMMA PieceStep ==
  ASSUME OwnHandle, FetchInv, PlaceInv, StreamType, TurnInv, PieceInv, [StreamNext]_svars
  PROVE  PieceInv'
<1> SUFFICES ASSUME Aligned', stream' = "reading", NEW x \in Reader, pc'[x] = "idle"
             PROVE  \A i \in 1 .. Len(result'[x].bytes) :
                      result'[x].bytes[i] = req'[x].offset + i - 1
  BY DEF PieceInv
<1>0. /\ pc \in [Reader -> {"idle", "wait", "grab", "fail", "blocked", "panic"}]
      /\ req \in [Reader -> [offset : Nat, size : Nat]]
      /\ DOMAIN result = Reader
  BY DEF FetchInv, TypeOK, ResultInv, ResultType
<1>1. Aligned
  BY DEF Aligned, StreamNext, Copying, Begin, Returns, CloseStream, Fetching, svars
<1>2. ASSUME result'[x].bytes = << >>
      PROVE  \A i \in 1 .. Len(result'[x].bytes) :
               result'[x].bytes[i] = req'[x].offset + i - 1
  <2>1. Len(result'[x].bytes) = 0
    BY <1>2
  <2> QED
    BY <2>1
<1>3. ASSUME stream = "reading", UNCHANGED <<pc, req, result>>
      PROVE  \A i \in 1 .. Len(result'[x].bytes) :
               result'[x].bytes[i] = req'[x].offset + i - 1
  BY <1>1, <1>3 DEF PieceInv
<1>4. ASSUME NEW r \in Reader, Begin(r)
      PROVE  result'[x].bytes = << >>
  <2>1. x = r /\ (ReadAtEnd(r, Piece) \/ Read(r, Piece) \/ ReadPanics(r, Piece))
    BY <1>4, SoleReader DEF Begin, Piece
  <2>2. ReadAtEnd(r, Piece)
    BY <1>0, <2>1 DEF Read, ReadPanics, Panic, OwnHandle
  <2>3. result'[x] = Empty
    BY <1>0, <2>1, <2>2 DEF ReadAtEnd
  <2> QED
    BY <2>3 DEF Empty, Data
<1>5. ASSUME NEW r \in Reader, Grab(r), stream = "reading"
      PROVE  \A i \in 1 .. Len(result'[x].bytes) :
               result'[x].bytes[i] = req'[x].offset + i - 1
  <2>1. /\ x = r /\ req' = req /\ Proper(req[r])
        /\ result' = [result EXCEPT ![r] = Data(Assembled(req[r]))]
    BY <1>5, SoleReader DEF Grab, Return, Ready, FetchInv, RequestInv
  <2>2. req[r] = Piece
    BY <1>5 DEF TurnInv, Piece
  <2>3. Stop(Piece) <= First(Piece) * BlockSize + BlockSize
    BY <1>1, <1>5, AlignedSingle
  <2>4. \A i \in 1 .. Len(Assembled(req[r])) : Assembled(req[r])[i] = req[r].offset + i - 1
    BY <2>1, <2>2, <2>3, SingleInPlace
  <2>5. result'[x].bytes = Assembled(req[r])
    BY <1>0, <2>1 DEF Data
  <2> QED
    BY <2>1, <2>4, <2>5
<1>6. ASSUME NEW r \in Reader, GiveUp(r)
      PROVE  result'[x].bytes = << >>
  <2>1. x = r /\ result' = [result EXCEPT ![r] = IF lastErr THEN Error ELSE Empty]
    BY <1>6, SoleReader DEF GiveUp, Return
  <2>2. result'[x] = Error \/ result'[x] = Empty
    BY <1>0, <2>1
  <2> QED
    BY <2>2 DEF Error, Empty, Data
<1>7. ASSUME NEW r \in Reader, GrabPanics(r) \/ GrabMissing(r)
      PROVE  FALSE
  BY <1>0, <1>7, SoleReader DEF GrabPanics, GrabMissing, Panic, OwnHandle
<1>8. CASE Fetching
  <2>1. stream = "reading"
    BY <1>8 DEF Fetching
  <2>2. ASSUME NEW b \in Block, (\E k \in Lost : Fetched(b, k)) \/ FetchFailed(b)
        PROVE  UNCHANGED <<pc, req, result>>
    BY <2>2 DEF Fetched, FetchFailed, Close
  <2> QED
    BY <1>2, <1>3, <1>5, <1>6, <1>7, <1>8, <2>1, <2>2 DEF Fetching
<1>9. CASE UNCHANGED svars
  BY <1>3, <1>9 DEF svars, vars, readers
<1> QED
  BY <1>2, <1>4, <1>8, <1>9 DEF StreamNext, Copying, Returns, CloseStream

\* and so is all it delivers.
LEMMA PlacedStep ==
  ASSUME FetchInv, StreamType, TurnInv, PieceInv, PlacedInv, [StreamNext]_svars
  PROVE  PlacedInv'
<1> SUFFICES ASSUME Aligned'
             PROVE  out' = Abstract!Prefix(Len(out))'
  BY DEF PlacedInv
<1>1. Aligned
  BY DEF Aligned, StreamNext, Copying, Begin, Returns, CloseStream, Fetching, svars
<1>2. ASSUME NEW r \in Reader, Returns(r), result[r].kind # "error"
      PROVE  out' = Abstract!Prefix(Len(out))'
  <2> DEFINE s == result[r].bytes
             l == Len(out)
             n == Len(s)
  <2>1. /\ start' = start /\ out' = out \o s /\ stream = "reading" /\ pc[r] = "idle"
    BY <1>2 DEF Returns
  <2>2. s \in Seq(0 .. Size - 1)
    BY DEF FetchInv, ResultInv, ResultType
  <2>3. \A i \in 1 .. n : s[i] = offset + i - 1
    <3>1. req[r].offset = offset
      BY <2>1, PieceType DEF TurnInv, Piece
    <3> QED
      BY <1>1, <2>1, <3>1 DEF PieceInv
  <2> HIDE DEF s
  <2>4. /\ l \in Nat /\ n \in Nat /\ start \in Nat /\ offset \in Nat /\ offset = start + l
        /\ out \in Seq(0 .. Size - 1)
    BY <2>2, LenProperties, PieceType DEF StreamType
  <2>5. Len(out \o s) = l + n
    BY <2>2, <2>4, ConcatProperties
  <2>6. out = Bytes(start, offset)
    <3>1. out = Abstract!Prefix(l)
      BY <1>1 DEF PlacedInv
    <3> QED
      BY <2>4, <3>1, PrefixRun
  <2> HIDE DEF n, l
  <2> DEFINE e == offset + n
  <2>7. s = Bytes(offset, e)
    <3>1. e - offset = n /\ offset <= e /\ e \in Nat
      BY <2>4
    <3>2. /\ Bytes(offset, e) \in Seq(Nat) /\ Len(Bytes(offset, e)) = n
          /\ \A i \in 1 .. n : Bytes(offset, e)[i] = offset + i - 1
      <4> HIDE DEF e
      <4> QED
        BY <2>4, <3>1, BytesSeq
    <3>3. s \in Seq(Nat)
      <4>1. 0 .. Size - 1 \subseteq Nat
        BY SizeAssumption
      <4>2. s \in [1 .. Len(s) -> 0 .. Size - 1] /\ Len(s) \in Nat
        BY <2>2, LenProperties
      <4>3. s \in [1 .. Len(s) -> Nat]
        BY <4>1, <4>2
      <4> QED
        BY <4>2, <4>3, SeqDef, Zenon
    <3> HIDE DEF e
    <3>4. Len(s) = n
      BY DEF n
    <3>5. \A i \in 1 .. Len(s) : s[i] = Bytes(offset, e)[i]
      BY <2>3, <3>2, <3>4
    <3> QED
      BY <3>2, <3>3, <3>4, <3>5, SeqEqual
  <2>8. e \in Nat /\ start <= offset /\ offset <= e /\ start + (l + n) = e /\ l + n \in Nat
    BY <2>4
  <2> HIDE DEF e
  <2>9. out \o s = Bytes(start, e)
    BY <2>4, <2>6, <2>7, <2>8, BytesJoin
  <2> DEFINE m == l + n
  <2>10. Abstract!Prefix(m) = Bytes(start, e)
    <3>1. m \in Nat /\ start + m = e
      BY <2>8
    <3> HIDE DEF m
    <3> QED
      BY <2>4, <3>1, PrefixRun
  <2>11. Len(out') = m
    BY <2>1, <2>5
  <2> HIDE DEF m
  <2>12. Abstract!Prefix(Len(out))' = Abstract!Prefix(m)
    BY <2>1, <2>11 DEF Abstract!Prefix
  <2> QED
    BY <2>1, <2>9, <2>10, <2>12
<1>3. ASSUME UNCHANGED <<start, out>>
      PROVE  out' = Abstract!Prefix(Len(out))'
  BY <1>1, <1>3 DEF PlacedInv, Abstract!Prefix
<1>4. ASSUME NEW r \in Reader, Begin(r) \/ (Returns(r) /\ result[r].kind = "error")
      PROVE  UNCHANGED <<start, out>>
  BY <1>4 DEF Begin, Returns
<1>5. CASE CloseStream \/ Fetching \/ UNCHANGED svars
  BY <1>3, <1>5 DEF CloseStream, Fetching, svars
<1> QED
  BY <1>2, <1>3, <1>4, <1>5 DEF StreamNext, Copying

-----------------------------------------------------------------------------
(* The theorems.                                                           *)

StreamInv ==
  /\ FetchInv /\ PlaceInv /\ CrashInv /\ MissInv /\ WaitInv /\ FailInv
  /\ StreamType /\ TurnInv /\ TailInv /\ OutInv
  /\ PieceInv /\ PlacedInv

LEMMA StreamInitInv == StreamInit => StreamInv
<1> SUFFICES ASSUME StreamInit
             PROVE  StreamInv
  OBVIOUS
<1>1. Init
  BY DEF StreamInit
<1>2. FetchInv
  BY <1>1, FetchInit
<1>3. PlaceInv
  <2>1. Len(Nil) = 0
    BY DEF Nil
  <2> QED
    BY <1>1, <2>1 DEF Init, PlaceInv
<1>4. CrashInv /\ MissInv /\ WaitInv /\ FailInv
  BY <1>1 DEF Init, CrashInv, MissInv, WaitInv, FailInv
<1>5. start \in Nat /\ Len(out) = 0 /\ out = << >> /\ offset = start /\ stream = "open"
  BY StreamAssumption DEF StreamInit
<1>6. StreamType
  <2>1. << >> \in Seq(0 .. Size - 1)
    OBVIOUS
  <2>2. Len(out) = 0 * BufSize /\ offset = start + Len(out)
    BY <1>5, StreamAssumption
  <2> QED
    BY <1>5, <2>1, <2>2 DEF StreamType
<1>7. TurnInv /\ TailInv /\ PieceInv
  BY <1>1, <1>5 DEF Init, TurnInv, TailInv, PieceInv
<1>8. out = Abstract!Prefix(Len(out)) /\ Len(out) <= Abstract!Total
  <2>1. 1 .. 0 = {}
    OBVIOUS
  <2>2. Abstract!Prefix(0) = << >>
    BY <2>1 DEF Abstract!Prefix
  <2>3. Abstract!Total >= 0
    BY <1>5, SizeAssumption DEF Abstract!Total
  <2>4. Abstract!Total \in Int
    BY <1>5, SizeAssumption DEF Abstract!Total
  <2> QED
    BY <1>5, <2>2, <2>3, <2>4
<1> QED
  BY <1>2, <1>3, <1>4, <1>6, <1>7, <1>8 DEF StreamInv, OutInv, PlacedInv

LEMMA StreamStep ==
  ASSUME OwnHandle, StreamInv, [StreamNext]_svars
  PROVE  StreamInv'
<1>1. [AnyNext]_vars
  BY StreamSteps DEF StreamInv
<1>2. (FetchInv /\ PlaceInv /\ CrashInv /\ MissInv /\ WaitInv /\ FailInv)'
  BY <1>1, FetchStep, PlaceStep, CrashStep, MissStep, WaitStep, FailStep DEF StreamInv
<1>3. (StreamType /\ TurnInv /\ TailInv /\ OutInv)'
  BY StreamTypeStep, TurnStep, TailStep, OutStep DEF StreamInv
<1>4. (PieceInv /\ PlacedInv)'
  BY PieceStep, PlacedStep DEF StreamInv
<1> QED
  BY <1>2, <1>3, <1>4 DEF StreamInv

\* A stream in step with the blocks ends the process only if a peer's file was
\* cut short, and even then delivers no byte that is out of place.
THEOREM AlignedAlwaysSafe ==
  ASSUME OwnHandle
  PROVE  StreamSpec => []AlignedSafe
<1>1. StreamInv => AlignedSafe
  <2> SUFFICES ASSUME StreamInv, Aligned
               PROVE  (~short => ~crashed) /\ out = Abstract!Prefix(Len(out))
    BY DEF AlignedSafe, Aligned
  <2>1. ASSUME ~short, NEW r \in Reader, pc[r] = "panic"
        PROVE  FALSE
    <3>1. stream = "reading" /\ req[r] = Piece /\ StreamType
      BY <2>1 DEF StreamInv, TurnInv, Piece
    <3>2. req[r].offset = offset
      BY <3>1, PieceType
    <3>3. offset < Size /\ ~Fits(Piece)
      BY <2>1, <3>1, <3>2 DEF StreamInv, CrashInv, FetchInv, PanicsOnlyBeyondEnd
    <3> QED
      BY <3>1, <3>3, AlignedFits
  <2> QED
    BY <2>1 DEF crashed, StreamInv, PlacedInv
<1>2. StreamInv /\ [StreamNext]_svars => StreamInv'
  BY StreamStep
<1> QED
  BY <1>1, <1>2, StreamInitInv, PTL DEF StreamSpec

\* Every step of a stream is one of ByteStream, or none.
LEMMA StepRefines ==
  ASSUME OwnHandle, StreamInv, StreamInv', [StreamNext]_svars
  PROVE  [Abstract!Next]_(Abstract!vars)
<1> DEFINE Cut == short \/ Overreads
<1>1. CASE Cut'
  BY <1>1 DEF Abstract!Next, Abstract!LoseBytes
<1>2. CASE ~Cut'
  <2>1. Whole /\ Whole' /\ StreamType
    <3>1. Whole'
      BY <1>2 DEF Whole
    <3> QED
      BY <3>1, WholeBefore DEF StreamInv
  <2>2. ~Cut /\ Cut' = Cut
    BY <1>2, <2>1 DEF Whole
  <2>3. ASSUME UNCHANGED <<start, out>>, Seen' = Seen
        PROVE  UNCHANGED Abstract!vars
    BY <2>2, <2>3 DEF Abstract!vars
  <2>4. ASSUME UNCHANGED <<start, out>>, Seen = "open", Seen' = "broken"
        PROVE  Abstract!Next
    BY <2>2, <2>4 DEF Abstract!Next, Abstract!Break
  <2>5. (stream # "reading" => ~crashed) /\ (stream' # "reading" => ~crashed')
    BY DEF StreamInv, TurnInv, crashed
  <2>6. ASSUME stream \in {"open", "reading"}, stream' = "reading", UNCHANGED <<start, out>>,
               ~crashed
        PROVE  [Abstract!Next]_(Abstract!vars)
    BY <2>3, <2>4, <2>6 DEF Seen
  <2>7. ASSUME NEW r \in Reader, Begin(r)
        PROVE  [Abstract!Next]_(Abstract!vars)
    BY <2>5, <2>6, <2>7 DEF Begin
  <2>8. ASSUME NEW r \in Reader, Returns(r), result[r].kind = "error"
        PROVE  [Abstract!Next]_(Abstract!vars)
    BY <2>4, <2>8 DEF Returns, Seen
  <2>9. ASSUME NEW r \in Reader, Returns(r), result[r].kind # "error"
        PROVE  [Abstract!Next]_(Abstract!vars)
    <3> DEFINE s == Wanted(Piece)
               n == Len(out) + Len(s)
    <3>1. /\ start' = start /\ out' = out \o result[r].bytes /\ stream = "reading"
          /\ pc[r] = "idle" /\ ~crashed
          /\ stream' = IF Len(result[r].bytes) < BufSize THEN "eof" ELSE "open"
      BY <2>9 DEF Returns
    <3>2. result[r].kind = "data"
      BY <2>9, <3>1 DEF StreamInv, FetchInv, ResultInv, Exact, OwnHandle
    <3>3. result[r].bytes = s
      BY <2>1, <3>1, <3>2 DEF StreamInv, TailInv, TurnInv, Piece
    <3>4. /\ out \o s = Abstract!Prefix(n) /\ n \in Len(out) .. Abstract!Total
          /\ Len(s) < BufSize => n = Abstract!Total
      BY <2>1, Delivered DEF StreamInv
    <3>5. Seen = "open" /\ Seen' = stream'
      BY <2>5, <3>1 DEF Seen
    <3> HIDE DEF s, n
    <3>6. CASE Len(s) < BufSize
      <4>1. Abstract!Finish
        BY <3>1, <3>3, <3>4, <3>5, <3>6 DEF Abstract!Finish
      <4> QED
        BY <2>2, <4>1 DEF Abstract!Next
    <3>7. CASE ~(Len(s) < BufSize)
      <4>1. Abstract!Deliver
        BY <3>1, <3>3, <3>4, <3>5, <3>7 DEF Abstract!Deliver
      <4> QED
        BY <2>2, <4>1 DEF Abstract!Next
    <3> QED
      BY <3>6, <3>7
  <2>10. CASE CloseStream
    <3>1. Seen # "closed" /\ Seen' = "closed" /\ start' = start /\ out' = out
      BY <2>5, <2>10 DEF CloseStream, Seen
    <3> QED
      BY <2>2, <3>1 DEF Abstract!Next, Abstract!Close
  <2>11. CASE Fetching
    <3>1. stream' = stream /\ UNCHANGED <<start, out>>
      BY <2>11 DEF Fetching
    <3>2. CASE stream = "reading"
      <4>1. ~crashed
        BY <2>11 DEF Fetching, Fetched, FetchFailed, Grab, GrabPanics, GrabMissing, GiveUp, CanLock
      <4> QED
        BY <2>6, <3>1, <3>2, <4>1
    <3>3. CASE stream # "reading"
      BY <2>3, <2>5, <3>1, <3>3 DEF Seen
    <3> QED
      BY <3>2, <3>3
  <2>12. CASE UNCHANGED svars
    <3>1. Seen' = Seen
      BY <2>12 DEF Seen, crashed, svars, vars, readers
    <3> QED
      BY <2>3, <2>12, <3>1 DEF svars
  <2> QED
    BY <2>7, <2>8, <2>9, <2>10, <2>11, <2>12 DEF StreamNext, Copying
<1> QED
  BY <1>1, <1>2

\* A stream implements ByteStream: whatever is fetched, purged, prefetched or
\* fails, the client gets the bytes from its offset on, in order and without
\* gaps, and the end only after the last of them; unless an answer was cut
\* short, or the stream is one of those that overread.
THEOREM StreamImplements ==
  ASSUME OwnHandle
  PROVE  StreamSpec => Refines
<1>1. StreamInit => Abstract!Init
  <2> SUFFICES ASSUME StreamInit
               PROVE  Abstract!Init
    OBVIOUS
  <2>1. start \in Nat /\ out = << >>
    BY StreamAssumption DEF StreamInit
  <2>2. Seen = "open"
    BY DEF StreamInit, Init, Seen, crashed
  <2>3. (short \/ Overreads) \in BOOLEAN
    OBVIOUS
  <2> QED
    BY <2>1, <2>2, <2>3 DEF Abstract!Init
<1>2. StreamInv /\ StreamInv' /\ [StreamNext]_svars => [Abstract!Next]_(Abstract!vars)
  BY StepRefines
<1>3. StreamInv /\ [StreamNext]_svars => StreamInv'
  BY StreamStep
<1> QED
  BY <1>1, <1>2, <1>3, StreamInitInv, PTL DEF StreamSpec, Refines, Abstract!Spec
==============================================================================
