--------------------------- MODULE FrontendProofs ---------------------------
(***************************************************************************)
(* Proofs about Frontend for any names and hashes, any number of requests  *)
(* at once, any expiry and any number of changes.                          *)
(***************************************************************************)
EXTENDS Frontend, FiniteSetTheorems, TLAPS

\* The types.  A request is about a name of Root, unless it is a listing.
Entries  == [Name -> Hash \cup {Dir, None}]
Answers  == Entries \cup {Inner, None}
Places   == {"ask", "store", "use", "owners", "handle", "purge"}
Requests == [op : Op, dir : Key, name : Key, pc : Places, got : Answers]

About(r) ==
  /\ r.op # "list" => r.dir = Root /\ r.name \in Name
  /\ r.pc = "purge" => r.op \in {"lookup", "open"}

TypeInv ==
  /\ entry \in Entries
  /\ cache \in [Key -> Answers]
  /\ handler \in [Handler -> {Resting} \cup Requests]
  /\ \A h \in Handler : handler[h].pc # "rest" => About(handler[h])
  /\ misses \in [Name -> Nat]

\* The requests that are about to store a listing without n, those that will
\* miss n in the listing they have, and those that will purge the listing.
Late(n)  == {h \in Handler : At(h, "store") /\ handler[h].dir = Root /\ handler[h].got[n] = None}
Armed(n) == {h \in Handler : At(h, "use") /\ handler[h].op = "lookup" /\ handler[h].name = n
                             /\ handler[h].got[n] = None}
Purging  == {h \in Handler : At(h, "purge") /\ handler[h].op = "lookup"}

\* The cache has a listing without n.
Stale(n) == cache[Root] # None /\ cache[Root][n] = None

\* The requests that may miss n before another listing without it is stored: as
\* long as the cache has one, all but those that are on their way to store or
\* to purge; afterwards only those that have it already.
Able(n) == IF Stale(n) THEN Handler \ (Late(n) \cup Purging) ELSE Armed(n)

\* Every listing without n that is stored late makes one more request able to
\* miss n, and lets all of them do so once.  Hence a sum of the numbers up to
\* the number of requests that are not late.
Fits(k, late, able) ==
  LET m == Cardinality(Handler \ late)
  IN  2 * (k + Cardinality(able)) <= m * (m + 1)

Bounded(n) == Fits(misses[n], Late(n), Able(n))

\* The inductive invariant.
MissInv ==
  \A n \in Name : /\ entry[n] = None => misses[n] = 0
                  /\ Bounded(n)

-----------------------------------------------------------------------------
\* How the bound goes on.  The sizes are numbers, and those that are able are
\* some of those that are not late.
LEMMA Sizes ==
  ASSUME NEW late \in SUBSET Handler, NEW able \in SUBSET (Handler \ late)
  PROVE  /\ IsFiniteSet(Handler \ late) /\ IsFiniteSet(able)
         /\ Cardinality(Handler \ late) \in Nat
         /\ Cardinality(able) \in Nat
         /\ Cardinality(able) <= Cardinality(Handler \ late)
<1>1. IsFiniteSet(Handler \ late)
  <2>1. Handler \ late \in SUBSET Handler
    OBVIOUS
  <2> QED
    BY <2>1, FS_Subset, FrontendAssumption
<1>2. IsFiniteSet(able) /\ Cardinality(able) <= Cardinality(Handler \ late)
  BY <1>1, FS_Subset
<1> QED
  BY <1>1, <1>2, FS_CardinalityType

\* A name that was not missed yet.
LEMMA FitsFresh ==
  ASSUME NEW late \in SUBSET Handler, NEW able \in SUBSET (Handler \ late)
  PROVE  Fits(0, late, able)
<1> DEFINE m == Cardinality(Handler \ late)
           a == Cardinality(able)
<1>1. m \in Nat /\ a \in Nat /\ a <= m
  BY Sizes
<1>2. 2 * (0 + a) <= m * (m + 1)
  <2> HIDE DEF m, a
  <2>1. CASE m = 0
    BY <1>1, <2>1
  <2>2. CASE m >= 1
    <3>1. m * (m + 1) = m * m + m
      BY <1>1
    <3>2. m * m >= m
      BY <1>1, <2>2
    <3> QED
      BY <1>1, <3>1, <3>2
  <2> QED
    BY <1>1, <2>1, <2>2
<1> QED
  BY <1>2 DEF Fits

\* Fewer requests are able to miss it.
LEMMA FitsShrink ==
  ASSUME NEW late \in SUBSET Handler, NEW able \in SUBSET (Handler \ late),
         NEW k \in Nat, Fits(k, late, able),
         NEW less \in SUBSET able
  PROVE  Fits(k, late, less)
<1> DEFINE m == Cardinality(Handler \ late)
           a == Cardinality(able)
           b == Cardinality(less)
<1>1. m \in Nat /\ a \in Nat /\ b \in Nat /\ b <= a
  <2>1. less \in SUBSET (Handler \ late)
    OBVIOUS
  <2> QED
    BY <2>1, Sizes, FS_Subset
<1>2. 2 * (k + a) <= m * (m + 1)
  BY DEF Fits
<1>3. 2 * (k + b) <= m * (m + 1)
  <2> DEFINE q == m * (m + 1)
  <2> HIDE DEF m, a, b
  <2>1. q \in Nat /\ 2 * (k + a) <= q
    BY <1>1, <1>2
  <2>2. 2 * (k + b) <= q
    <3> HIDE DEF q
    <3> QED
      BY <1>1, <2>1
  <2> QED
    BY <2>2
<1> QED
  BY <1>3 DEF Fits

\* One of the late listings is stored, and all but the late become able.
LEMMA FitsGrow ==
  ASSUME NEW late \in SUBSET Handler, NEW able \in SUBSET (Handler \ late),
         NEW k \in Nat, Fits(k, late, able),
         NEW h \in late, NEW more \in SUBSET (Handler \ (late \ {h}))
  PROVE  Fits(k, late \ {h}, more)
<1> DEFINE m == Cardinality(Handler \ late)
           a == Cardinality(able)
           l == Cardinality(Handler \ (late \ {h}))
           b == Cardinality(more)
<1>1. m \in Nat /\ a \in Nat /\ b \in Nat /\ b <= l
  BY Sizes, late \ {h} \in SUBSET Handler
<1>2. l = m + 1
  <2>1. Handler \ (late \ {h}) = (Handler \ late) \cup {h}
    OBVIOUS
  <2>2. h \notin Handler \ late /\ IsFiniteSet(Handler \ late)
    BY Sizes
  <2>3. Cardinality((Handler \ late) \cup {h}) = Cardinality(Handler \ late) + 1
    BY ONLY <2>2, FS_AddElement
  <2> QED
    BY ONLY <2>1, <2>3
<1>3. 2 * (k + a) <= m * (m + 1)
  BY DEF Fits
<1>4. 2 * (k + b) <= l * (l + 1)
  <2> DEFINE q == m * (m + 1)
  <2> HIDE DEF m, a, b, l
  <2>1. q \in Nat
    BY <1>1
  <2>2. l * (l + 1) = q + 2 * m + 2
    BY <1>1, <1>2
  <2>3. 2 * (k + a) <= q
    BY <1>3
  <2> HIDE DEF q
  <2> QED
    BY <1>1, <1>2, <2>1, <2>2, <2>3
<1> QED
  BY <1>4 DEF Fits

\* A request that was able to miss the name has missed it.
LEMMA FitsMiss ==
  ASSUME NEW late \in SUBSET Handler, NEW able \in SUBSET (Handler \ late),
         NEW k \in Nat, Fits(k, late, able),
         NEW h \in able, NEW less \in SUBSET (able \ {h})
  PROVE  Fits(k + 1, late, less)
<1> DEFINE m == Cardinality(Handler \ late)
           a == Cardinality(able)
           b == Cardinality(less)
<1>1. m \in Nat /\ a \in Nat /\ b \in Nat
  BY Sizes, less \in SUBSET (Handler \ late)
<1>2. b <= a - 1
  <2>1. IsFiniteSet(able) /\ h \in able
    BY Sizes
  <2>2. IsFiniteSet(able \ {h}) /\ Cardinality(able \ {h}) = a - 1
    BY <2>1, FS_RemoveElement
  <2> QED
    BY <2>2, FS_Subset
<1>3. 2 * (k + a) <= m * (m + 1)
  BY DEF Fits
<1>4. 2 * ((k + 1) + b) <= m * (m + 1)
  <2> DEFINE q == m * (m + 1)
  <2> HIDE DEF m, a, b
  <2>1. q \in Nat /\ 2 * (k + a) <= q
    BY <1>1, <1>3
  <2>2. 2 * ((k + 1) + b) <= q
    <3> HIDE DEF q
    <3> QED
      BY <1>1, <1>2, <2>1
  <2> QED
    BY <2>2
<1> QED
  BY <1>4 DEF Fits

-----------------------------------------------------------------------------
\* The types.
LEMMA InitTypes == Init => TypeInv
  BY DEF Init, TypeInv, Entries, Answers, At, Resting

\* A step of a request h that leaves the others alone.
Only(h, new) == handler' = [handler EXCEPT ![h] = new]

\* A request that moves on keeps what it is about.
LEMMA MovedOn ==
  ASSUME NEW r \in Requests, NEW pc \in Places, About(r),
         pc = "purge" => r.op \in {"lookup", "open"}
  PROVE  /\ [r EXCEPT !.pc = pc] \in Requests
         /\ About([r EXCEPT !.pc = pc])
  BY DEF Requests, About

LEMMA Typed ==
  ASSUME TypeInv, NEW h \in Handler, handler[h].pc # "rest"
  PROVE  handler[h] \in Requests /\ About(handler[h])
  BY DEF TypeInv, Resting

LEMMA OnlyTypes ==
  ASSUME TypeInv, NEW h \in Handler, NEW new, Only(h, new),
         new = Resting \/ (new \in Requests /\ About(new))
  PROVE  /\ handler' \in [Handler -> {Resting} \cup Requests]
         /\ \A g \in Handler : handler'[g].pc # "rest" => About(handler'[g])
<1>1. new.pc # "rest" => About(new)
  BY DEF Resting
<1>2. new \in {Resting} \cup Requests
  OBVIOUS
<1> QED
  BY <1>1, <1>2 DEF TypeInv, Only

LEMMA GotoOnly ==
  ASSUME TypeInv, NEW h \in Handler, NEW pc, Goto(h, pc)
  PROVE  Only(h, [handler[h] EXCEPT !.pc = pc])
  BY DEF TypeInv, Goto, Only

LEMMA GotoTypes ==
  ASSUME TypeInv, NEW h \in Handler, NEW pc \in Places, Goto(h, pc),
         handler[h].pc # "rest",
         pc = "purge" => handler[h].op \in {"lookup", "open"}
  PROVE  /\ handler' \in [Handler -> {Resting} \cup Requests]
         /\ \A g \in Handler : handler'[g].pc # "rest" => About(handler'[g])
<1>1. handler[h] \in Requests /\ About(handler[h])
  BY Typed
<1>2. [handler[h] EXCEPT !.pc = pc] \in Requests /\ About([handler[h] EXCEPT !.pc = pc])
  BY <1>1, MovedOn
<1> QED
  BY <1>2, GotoOnly, OnlyTypes

LEMMA FinishTypes ==
  ASSUME TypeInv, NEW h \in Handler, Finish(h)
  PROVE  /\ handler' \in [Handler -> {Resting} \cup Requests]
         /\ \A g \in Handler : handler'[g].pc # "rest" => About(handler'[g])
  BY OnlyTypes DEF Finish, Only

LEMMA FailTypes ==
  ASSUME TypeInv, NEW h \in Handler, Fail(h), handler[h].pc # "rest"
  PROVE  /\ handler' \in [Handler -> {Resting} \cup Requests]
         /\ \A g \in Handler : handler'[g].pc # "rest" => About(handler'[g])
<1>1. CASE handler[h].op = "open"
  BY <1>1, GotoTypes DEF Fail, Places
<1>2. CASE handler[h].op # "open"
  BY <1>2, FinishTypes DEF Fail
<1> QED
  BY <1>1, <1>2

LEMMA NextTypes == TypeInv /\ [Next]_vars => TypeInv'
<1> SUFFICES ASSUME TypeInv, [Next]_vars PROVE TypeInv'
  OBVIOUS
<1> DEFINE HandlersTyped == /\ handler' \in [Handler -> {Resting} \cup Requests]
                            /\ \A g \in Handler : handler'[g].pc # "rest" => About(handler'[g])
           Kept == entry' = entry /\ misses' = misses
<1>0. ASSUME HandlersTyped, Kept, cache' \in [Key -> Answers] PROVE TypeInv'
  BY <1>0 DEF TypeInv
<1>1. ASSUME HandlersTyped, Kept, cache' = cache PROVE TypeInv'
  BY <1>0, <1>1 DEF TypeInv
<1> HIDE DEF HandlersTyped
<1>2. ASSUME NEW n \in Name, NEW x \in Hash \cup {Dir, None}, Change(n, x) PROVE TypeInv'
  BY <1>2 DEF TypeInv, Change, cached, Entries
<1>3. ASSUME NEW h \in Handler, NEW op \in Op, NEW k \in Key, NEW n \in Key, GetDirCached(h, op, k, n)
      PROVE  TypeInv'
  <2> DEFINE new == IF cache[k] # None THEN Request(op, k, n, "use", cache[k])
                    ELSE Request(op, k, n, "ask", None)
  <2>1. cache[k] \in Answers /\ None \in Answers
    BY DEF TypeInv, Answers
  <2>2. new \in Requests
    BY <2>1 DEF Requests, Request, Places
  <2>3. About(new)
    BY <1>3 DEF About, Request, GetDirCached, Key
  <2>4. Only(h, new)
    BY <1>3 DEF GetDirCached, Only
  <2> HIDE DEF new
  <2>5. HandlersTyped
    BY <2>2, <2>3, <2>4, OnlyTypes DEF HandlersTyped
  <2> QED
    BY <1>1, <1>3, <2>5 DEF GetDirCached, mastered, cached
<1>4. ASSUME NEW h \in Handler, GetDir(h) PROVE TypeInv'
  <2> DEFINE new == [handler[h] EXCEPT !.pc = "store", !.got = Listing(handler[h].dir)]
  <2>1. handler[h] \in Requests /\ About(handler[h])
    BY <1>4, Typed DEF GetDir, At
  <2>2. Listing(handler[h].dir) \in Answers
    BY <2>1 DEF Listing, Answers, Requests, Key, TypeInv
  <2>3. new \in Requests /\ About(new)
    BY <2>1, <2>2 DEF Requests, About, Places
  <2>4. Only(h, new)
    BY <1>4 DEF GetDir, Only, TypeInv
  <2> HIDE DEF new
  <2>5. HandlersTyped
    BY <2>3, <2>4, OnlyTypes DEF HandlersTyped
  <2> QED
    BY <1>1, <1>4, <2>5 DEF GetDir, mastered, cached
<1>5. ASSUME NEW h \in Handler, CallFails(h) PROVE TypeInv'
  <2>1. HandlersTyped
    BY <1>5, FailTypes DEF CallFails, HandlersTyped
  <2> QED
    BY <1>1, <1>5, <2>1 DEF CallFails, mastered, cached
<1>6. ASSUME NEW h \in Handler, Store(h) PROVE TypeInv'
  <2>1. HandlersTyped
    BY <1>6, GotoTypes DEF Store, At, Places, HandlersTyped
  <2>2. handler[h] \in Requests
    BY <1>6, Typed DEF Store, At
  <2>3. cache' \in [Key -> Answers]
    BY <1>6, <2>2 DEF Store, Requests, TypeInv
  <2> QED
    BY <1>0, <1>6, <2>1, <2>3 DEF Store, mastered
<1>7. ASSUME NEW h \in Handler, NoSuchDir(h) PROVE TypeInv'
  <2>1. HandlersTyped
    BY <1>7, FailTypes DEF NoSuchDir, At, HandlersTyped
  <2> QED
    BY <1>1, <1>7, <2>1 DEF NoSuchDir, mastered, cached
<1>8. ASSUME NEW h \in Handler, Lookup(h) PROVE TypeInv'
  <2>1. HandlersTyped
    BY <1>8, GotoTypes, FinishTypes DEF Lookup, At, Places, HandlersTyped
  <2>2. misses' \in [Name -> Nat]
    <3>1. handler[h] \in Requests /\ About(handler[h])
      BY <1>8, Typed DEF Lookup, At
    <3>2. handler[h].name \in Name
      BY <1>8, <3>1 DEF Lookup, About
    <3> QED
      BY <1>8, <3>2 DEF Lookup, TypeInv
  <2> QED
    BY <1>8, <2>1, <2>2 DEF Lookup, mastered, cached, HandlersTyped, TypeInv
<1>9. ASSUME NEW h \in Handler, Stat(h) \/ ListDir(h) \/ NewHandle(h) PROVE TypeInv'
  <2>1. HandlersTyped
    BY <1>9, FinishTypes DEF Stat, ListDir, NewHandle, HandlersTyped
  <2> QED
    BY <1>1, <1>9, <2>1 DEF Stat, ListDir, NewHandle, mastered, cached
<1>10. ASSUME NEW h \in Handler, GetFileInfo(h) PROVE TypeInv'
  <2>1. HandlersTyped
    BY <1>10, GotoTypes, FailTypes DEF GetFileInfo, At, Places, HandlersTyped
  <2> QED
    BY <1>1, <1>10, <2>1 DEF GetFileInfo, mastered, cached
<1>11. ASSUME NEW h \in Handler, Open(h) \/ GetFile(h) PROVE TypeInv'
  <2>1. HandlersTyped
    BY <1>11, GotoTypes, FinishTypes DEF Open, GetFile, At, Places, HandlersTyped
  <2> QED
    BY <1>1, <1>11, <2>1 DEF Open, GetFile, mastered, cached
<1>12. ASSUME NEW h \in Handler, Purge(h) PROVE TypeInv'
  <2>1. HandlersTyped
    BY <1>12, FinishTypes DEF Purge, HandlersTyped
  <2>2. cache' \in [Key -> Answers]
    BY <1>12 DEF Purge, TypeInv, Answers
  <2> QED
    BY <1>0, <1>12, <2>1, <2>2 DEF Purge, mastered
<1>13. ASSUME CachePurger PROVE TypeInv'
  BY <1>13 DEF CachePurger, TypeInv, Answers, mastered
<1>14. CASE UNCHANGED vars
  BY <1>14 DEF TypeInv, vars
<1> QED
  BY <1>2, <1>3, <1>4, <1>5, <1>6, <1>7, <1>8, <1>9, <1>10, <1>11, <1>12, <1>13, <1>14 DEF Next, Step

-----------------------------------------------------------------------------
\* What becomes of the sets, and of the bound, in a step.
LEMMA SetFacts ==
  ASSUME NEW n \in Name
  PROVE  /\ Late(n) \in SUBSET Handler
         /\ Able(n) \in SUBSET (Handler \ Late(n))
         /\ Armed(n) \subseteq Able(n)
<1>1. Late(n) \in SUBSET Handler
  BY DEF Late
<1>2. Armed(n) \subseteq Handler \ (Late(n) \cup Purging)
  BY DEF Armed, Late, Purging, At
<1> QED
  BY <1>1, <1>2 DEF Able

\* The same of the state after a step.
LEMMA SetFactsNext ==
  ASSUME NEW n \in Name
  PROVE  /\ Late(n)' \in SUBSET Handler
         /\ Able(n)' \in SUBSET (Handler \ Late(n)')
<1>1. Late(n)' \in SUBSET Handler
  BY DEF Late
<1>2. Armed(n)' \subseteq Handler \ (Late(n)' \cup Purging')
  BY DEF Armed, Late, Purging, At
<1> QED
  BY <1>1, <1>2 DEF Able

\* A step in which a name that is not missed, or no longer, becomes so.
LEMMA Fresh ==
  ASSUME NEW n \in Name, misses'[n] = 0
  PROVE  Bounded(n)'
<1>1. Fits(0, Late(n)', Able(n)')
  BY SetFactsNext, FitsFresh
<1> QED
  BY <1>1 DEF Bounded, Fits

\* A step after which no more requests are able to miss n.
LEMMA Calm ==
  ASSUME NEW n \in Name, misses[n] \in Nat, Bounded(n),
         misses'[n] = misses[n],
         Late(n)' = Late(n),
         Stale(n)' => Stale(n) /\ Purging \subseteq Purging',
         ~Stale(n)' => Armed(n)' \subseteq Armed(n)
  PROVE  Bounded(n)'
<1>1. Able(n)' \subseteq Able(n)
  <2>1. CASE Stale(n)'
    BY <2>1 DEF Able
  <2>2. CASE ~Stale(n)'
    <3>1. Able(n)' = Armed(n)'
      BY <2>2 DEF Able
    <3> QED
      BY <2>2, <3>1, SetFacts
  <2> QED
    BY <2>1, <2>2
<1>2. Fits(misses[n], Late(n), Able(n)')
  BY <1>1, SetFacts, FitsShrink DEF Bounded
<1> QED
  BY <1>2 DEF Bounded, Fits

\* A step with which one of the late requests has stored its listing, or failed.
LEMMA Grow ==
  ASSUME NEW n \in Name, misses[n] \in Nat, Bounded(n),
         misses'[n] = misses[n],
         NEW h \in Late(n), Late(n)' = Late(n) \ {h}
  PROVE  Bounded(n)'
<1>1. Fits(misses[n], Late(n) \ {h}, Able(n)')
  BY SetFacts, SetFactsNext, FitsGrow DEF Bounded
<1> QED
  BY <1>1 DEF Bounded, Fits

\* A miss of n.
LEMMA Missed ==
  ASSUME NEW n \in Name, misses[n] \in Nat, Bounded(n),
         misses'[n] = misses[n] + 1,
         NEW h \in Armed(n),
         Late(n)' = Late(n),
         Stale(n)' <=> Stale(n),
         Purging' = Purging \cup {h},
         Armed(n)' = Armed(n) \ {h}
  PROVE  Bounded(n)'
<1>1. h \in Able(n)
  BY SetFacts
<1>2. Able(n)' \subseteq Able(n) \ {h}
  BY DEF Able
<1>3. Fits(misses[n] + 1, Late(n), Able(n)')
  BY <1>1, <1>2, SetFacts, FitsMiss DEF Bounded
<1> QED
  BY <1>3 DEF Bounded, Fits

-----------------------------------------------------------------------------
\* A step of request h: it has no late listing before or after it, purges
\* nothing, and may miss n afterwards only if the cache already has a listing
\* without n.
LEMMA Quiet ==
  ASSUME TypeInv, NEW n \in Name, Bounded(n), NEW h \in Handler, NEW new, Only(h, new),
         h \notin Late(n), h \notin Purging,
         ~(new.pc = "store" /\ new.dir = Root /\ new.got[n] = None),
         new.pc = "use" /\ new.op = "lookup" /\ new.name = n /\ new.got[n] = None
           => h \in Armed(n) \/ Stale(n),
         cache'[Root] = cache[Root],
         misses' = misses
  PROVE  Bounded(n)'
<1>1. handler'[h] = new /\ \A g \in Handler \ {h} : handler'[g] = handler[g]
  BY DEF TypeInv, Only
<1>2. Late(n)' = Late(n)
  BY <1>1 DEF Late, At
<1>3. Stale(n)' <=> Stale(n)
  BY DEF Stale
<1>4. Purging \subseteq Purging'
  BY <1>1 DEF Purging, At
<1>5. ~Stale(n) => Armed(n)' \subseteq Armed(n)
  BY <1>1 DEF Armed, At
<1>6. misses[n] \in Nat
  BY DEF TypeInv
<1> QED
  BY <1>2, <1>3, <1>4, <1>5, <1>6, Calm

\* The requests that fail or finish, or go on to the owners or to a handle.
LEMMA QuietFinish ==
  ASSUME TypeInv, NEW n \in Name, Bounded(n), NEW h \in Handler, Finish(h),
         h \notin Late(n), h \notin Purging, cache' = cache, misses' = misses
  PROVE  Bounded(n)'
<1>1. Only(h, Resting)
  BY DEF Finish, Only
<1> QED
  BY <1>1, Quiet DEF Resting

LEMMA QuietGoto ==
  ASSUME TypeInv, NEW n \in Name, Bounded(n), NEW h \in Handler, NEW pc, Goto(h, pc),
         handler[h].pc # "rest", pc \notin {"store", "use"},
         h \notin Late(n), h \notin Purging, cache' = cache, misses' = misses
  PROVE  Bounded(n)'
<1>1. Only(h, [handler[h] EXCEPT !.pc = pc])
  BY GotoOnly
<1>2. [handler[h] EXCEPT !.pc = pc].pc = pc
  BY Typed DEF Requests
<1> QED
  BY <1>1, <1>2, Quiet

LEMMA QuietFail ==
  ASSUME TypeInv, NEW n \in Name, Bounded(n), NEW h \in Handler, Fail(h),
         handler[h].pc # "rest",
         h \notin Late(n), h \notin Purging, cache' = cache, misses' = misses
  PROVE  Bounded(n)'
<1>1. CASE handler[h].op = "open"
  BY <1>1, QuietGoto DEF Fail
<1>2. CASE handler[h].op # "open"
  BY <1>2, QuietFinish DEF Fail
<1> QED
  BY <1>1, <1>2

LEMMA StepMisses ==
  ASSUME TypeInv, MissInv, [Next]_vars, NEW n \in Name
  PROVE  Bounded(n)'
<1>0. Bounded(n) /\ misses[n] \in Nat /\ (entry[n] = None => misses[n] = 0)
  BY DEF MissInv, TypeInv
<1>1. ASSUME NEW k \in Name, NEW x \in Hash \cup {Dir, None}, Change(k, x) PROVE Bounded(n)'
  <2>1. CASE k = n
    <3>1. misses'[n] = 0
      BY <1>1, <2>1 DEF Change, TypeInv
    <3> QED
      BY <3>1, Fresh
  <2>2. CASE k # n
    <3>1. misses'[n] = misses[n] /\ handler' = handler /\ cache' = cache
      BY <1>1, <2>2 DEF Change, TypeInv, cached
    <3> QED
      BY <1>0, <3>1 DEF Bounded, Late, Able, Armed, Purging, Stale, At
  <2> QED
    BY <2>1, <2>2
<1>2. ASSUME NEW h \in Handler, NEW op \in Op, NEW k \in Key, NEW name \in Key,
             GetDirCached(h, op, k, name)
      PROVE  Bounded(n)'
  <2> DEFINE new == IF cache[k] # None THEN Request(op, k, name, "use", cache[k])
                    ELSE Request(op, k, name, "ask", None)
  <2>1. Only(h, new)
    BY <1>2 DEF GetDirCached, Only
  <2>2. h \notin Late(n) /\ h \notin Purging
    BY <1>2 DEF GetDirCached, Late, Purging, At
  <2>3. new.pc # "store"
    BY DEF Request
  <2>4. new.pc = "use" /\ new.op = "lookup" /\ new.name = n /\ new.got[n] = None => Stale(n)
    BY <1>2, FrontendAssumption DEF GetDirCached, Request, Stale
  <2>5. cache'[Root] = cache[Root] /\ misses' = misses
    BY <1>2 DEF GetDirCached, cached
  <2> HIDE DEF new
  <2> QED
    BY <1>0, <2>1, <2>2, <2>3, <2>4, <2>5, Quiet
<1>3. ASSUME NEW h \in Handler, GetDir(h) PROVE Bounded(n)'
  <2> DEFINE new == [handler[h] EXCEPT !.pc = "store", !.got = Listing(handler[h].dir)]
  <2>1. misses' = misses /\ cache' = cache
    BY <1>3 DEF GetDir, cached
  <2>2. CASE entry[n] = None
    BY <1>0, <2>1, <2>2, Fresh
  <2>3. CASE entry[n] # None
    <3>1. Only(h, new)
      BY <1>3 DEF GetDir, Only, TypeInv
    <3>2. h \notin Late(n) /\ h \notin Purging
      BY <1>3 DEF GetDir, Late, Purging, At
    <3>3. handler[h] \in Requests
      BY <1>3, Typed DEF GetDir, At
    <3>4. new.pc = "store" /\ new.dir = handler[h].dir /\ new.got = Listing(handler[h].dir)
      BY <3>3 DEF Requests
    <3>5. ~(new.dir = Root /\ new.got[n] = None)
      BY <2>3, <3>4 DEF Listing
    <3> HIDE DEF new
    <3> QED
      BY <1>0, <2>1, <3>1, <3>2, <3>4, <3>5, Quiet
  <2> QED
    BY <2>2, <2>3
<1>4. ASSUME NEW h \in Handler, CallFails(h) PROVE Bounded(n)'
  <2>1. h \notin Late(n) /\ h \notin Purging /\ handler[h].pc # "rest" /\ Fail(h)
    BY <1>4 DEF CallFails, Late, Purging, At
  <2> QED
    BY <1>0, <1>4, <2>1, QuietFail DEF CallFails, cached
<1>5. ASSUME NEW h \in Handler, Store(h) PROVE Bounded(n)'
  <2>1. handler[h] \in Requests /\ About(handler[h])
    BY <1>5, Typed DEF Store, At
  <2>2. /\ handler'[h] = [handler[h] EXCEPT !.pc = "use"]
        /\ \A g \in Handler \ {h} : handler'[g] = handler[g]
    BY <1>5 DEF Store, Goto, TypeInv
  <2>3. handler'[h].pc = "use" /\ handler'[h].op = handler[h].op /\ handler'[h].got = handler[h].got
    BY <2>1, <2>2 DEF Requests
  <2>4. misses' = misses
    BY <1>5 DEF Store
  <2>5. CASE h \in Late(n)
    <3>1. Late(n)' = Late(n) \ {h}
      BY <2>2, <2>3 DEF Late, At
    <3> QED
      BY <1>0, <2>4, <2>5, <3>1, Grow
  <2>6. CASE h \notin Late(n)
    <3>1. Late(n)' = Late(n) /\ Purging' = Purging
      <4>1. h \notin Purging /\ \A g \in Handler \ {h} : handler'[g] = handler[g]
        BY <1>5, <2>2 DEF Purging, Store, At
      <4>2. Late(n)' = Late(n)
        BY <2>3, <2>6, <4>1 DEF Late, At
      <4>3. Purging' = Purging
        BY <2>3, <4>1 DEF Purging, At
      <4> QED
        BY <4>2, <4>3
    <3>2. Stale(n)' => Stale(n)
      BY <1>5, <2>6 DEF Store, Stale, Late, TypeInv, At, Key
    <3>3. Armed(n)' \subseteq Armed(n)
      <4>1. handler[h].op = "lookup" => handler[h].got[n] # None
        BY <1>5, <2>1, <2>6 DEF Store, Late, About
      <4> QED
        BY <2>2, <2>3, <4>1 DEF Armed, At
    <3> QED
      BY <1>0, <2>4, <3>1, <3>2, <3>3, Calm
  <2> QED
    BY <2>5, <2>6
<1>6. ASSUME NEW h \in Handler, NoSuchDir(h) PROVE Bounded(n)'
  <2>1. misses' = misses /\ cache' = cache /\ Fail(h) /\ handler[h].pc = "store"
    BY <1>6 DEF NoSuchDir, cached, At
  <2>2. CASE h \in Late(n)
    <3>1. handler'[h].pc # "store" /\ \A g \in Handler \ {h} : handler'[g] = handler[g]
      <4>1. handler[h] \in Requests
        BY <2>1, Typed
      <4> QED
        BY <2>1, <4>1 DEF Fail, Goto, Finish, TypeInv, Resting, Requests
    <3>2. Late(n)' = Late(n) \ {h}
      BY <3>1 DEF Late, At
    <3> QED
      BY <1>0, <2>1, <2>2, <3>2, Grow
  <2>3. CASE h \notin Late(n)
    <3>1. h \notin Purging
      BY <2>1 DEF Purging, At
    <3> QED
      BY <1>0, <2>1, <2>3, <3>1, QuietFail
  <2> QED
    BY <2>2, <2>3
<1>7. ASSUME NEW h \in Handler, Lookup(h) PROVE Bounded(n)'
  <2>1. handler[h] \in Requests /\ handler[h].pc = "use" /\ handler[h].op = "lookup" /\ cache' = cache
    BY <1>7, Typed DEF Lookup, At, cached
  <2>2. h \notin Late(n) /\ h \notin Purging
    BY <2>1 DEF Late, Purging, At
  <2>3. CASE misses' = misses
    BY <1>0, <1>7, <2>1, <2>2, <2>3, QuietFinish, QuietGoto DEF Lookup
  <2>4. CASE misses' # misses
    <3> DEFINE name == handler[h].name
    <3>1. /\ Found(h) = None /\ Goto(h, "purge")
          /\ misses' = [misses EXCEPT ![name] = misses[name] + 1]
      BY <1>7, <2>4 DEF Lookup
    <3>2. /\ handler'[h] = [handler[h] EXCEPT !.pc = "purge"]
          /\ \A g \in Handler \ {h} : handler'[g] = handler[g]
      BY <3>1 DEF Goto, TypeInv
    <3>3. handler'[h].pc = "purge" /\ handler'[h].op = "lookup"
      BY <2>1, <3>2 DEF Requests
    <3>4. Late(n)' = Late(n) /\ Purging' = Purging \cup {h}
      <4>1. \A g \in Handler \ {h} : handler'[g] = handler[g]
        BY <3>2
      <4>2. Late(n)' = Late(n)
        BY <2>2, <3>3, <4>1 DEF Late, At
      <4>3. Purging' = Purging \cup {h}
        BY <3>3, <4>1 DEF Purging, At
      <4> QED
        BY <4>2, <4>3
    <3>5. Stale(n)' <=> Stale(n)
      BY <2>1 DEF Stale
    <3>6. Armed(n)' = Armed(n) \ {h}
      <4>1. \A g \in Handler \ {h} : handler'[g] = handler[g]
        BY <3>2
      <4> QED
        BY <3>3, <4>1 DEF Armed, At
    <3>7. CASE name = n
      <4>1. misses'[n] = misses[n] + 1
        BY <3>1, <3>7 DEF TypeInv
      <4>2. h \in Armed(n)
        BY <2>1, <3>1, <3>7 DEF Armed, Found, At
      <4> QED
        BY <1>0, <3>4, <3>5, <3>6, <4>1, <4>2, Missed
    <3>8. CASE name # n
      <4>1. misses'[n] = misses[n]
        BY <3>1, <3>8 DEF TypeInv
      <4> QED
        BY <1>0, <3>4, <3>5, <3>6, <4>1, Calm
    <3> QED
      BY <3>7, <3>8
  <2> QED
    BY <2>3, <2>4
<1>8. ASSUME NEW h \in Handler, Stat(h) \/ ListDir(h) \/ NewHandle(h) PROVE Bounded(n)'
  <2>1. h \notin Late(n) /\ h \notin Purging /\ Finish(h) /\ cache' = cache /\ misses' = misses
    BY <1>8 DEF Stat, ListDir, NewHandle, Late, Purging, At, cached
  <2> QED
    BY <1>0, <2>1, QuietFinish
<1>9. ASSUME NEW h \in Handler, GetFileInfo(h) \/ Open(h) \/ GetFile(h) PROVE Bounded(n)'
  <2>1. /\ h \notin Late(n) /\ h \notin Purging /\ cache' = cache /\ misses' = misses
        /\ handler[h].pc # "rest"
    BY <1>9 DEF GetFileInfo, Open, GetFile, Late, Purging, At, cached
  <2>2. Fail(h) \/ Finish(h) \/ Goto(h, "owners") \/ Goto(h, "handle") \/ Goto(h, "purge")
    BY <1>9 DEF GetFileInfo, Open, GetFile
  <2> QED
    BY <1>0, <2>1, <2>2, QuietFail, QuietFinish, QuietGoto
<1>10. ASSUME NEW h \in Handler, Purge(h) PROVE Bounded(n)'
  <2>1. handler[h] \in Requests /\ About(handler[h]) /\ handler[h].pc = "purge" /\ misses' = misses
    BY <1>10, Typed DEF Purge, At
  <2>2. handler'[h].pc = "rest" /\ \A g \in Handler \ {h} : handler'[g] = handler[g]
    BY <1>10 DEF Purge, Finish, TypeInv, Resting
  <2>3. Late(n)' = Late(n) /\ Armed(n)' = Armed(n)
    BY <2>1, <2>2 DEF Late, Armed, At
  <2>4. CASE handler[h].op = "lookup"
    <3>1. ~Stale(n)'
      BY <1>10, <2>1, <2>4 DEF Purge, PurgeKey, Stale, TypeInv, About, Key
    <3> QED
      BY <1>0, <2>1, <2>3, <3>1, Calm
  <2>5. CASE handler[h].op # "lookup"
    <3>1. PurgeKey(h) # Root
      BY <2>1, <2>5, FrontendAssumption DEF PurgeKey, About
    <3>2. Stale(n)' <=> Stale(n)
      BY <1>10, <3>1 DEF Purge, Stale, TypeInv, Key
    <3>3. Purging' = Purging
      BY <2>2, <2>5 DEF Purging, At
    <3> QED
      BY <1>0, <2>1, <2>3, <3>2, <3>3, Calm
  <2> QED
    BY <2>4, <2>5
<1>11. ASSUME CachePurger PROVE Bounded(n)'
  <2>1. handler' = handler /\ misses' = misses
    BY <1>11 DEF CachePurger
  <2>2. Late(n)' = Late(n) /\ Armed(n)' = Armed(n) /\ Purging' = Purging
    BY <2>1 DEF Late, Armed, Purging, At
  <2>3. Stale(n)' => Stale(n)
    BY <1>11 DEF CachePurger, Stale, Key
  <2> QED
    BY <1>0, <2>1, <2>2, <2>3, Calm
<1>12. CASE UNCHANGED vars
  BY <1>0, <1>12 DEF vars, Bounded, Late, Able, Armed, Purging, Stale, At
<1> QED
  BY <1>1, <1>2, <1>3, <1>4, <1>5, <1>6, <1>7, <1>8, <1>9, <1>10, <1>11, <1>12 DEF Next, Step

\* Nothing is missed that is not there.
LEMMA StepNone ==
  ASSUME TypeInv, MissInv, [Next]_vars, NEW n \in Name, entry'[n] = None
  PROVE  misses'[n] = 0
<1>1. ASSUME NEW k \in Name, NEW x \in Hash \cup {Dir, None}, Change(k, x) PROVE misses'[n] = 0
  BY <1>1 DEF Change, TypeInv, MissInv, Entries
<1>2. ASSUME entry' = entry, misses' = misses PROVE misses'[n] = 0
  BY <1>2 DEF MissInv
<1>3. ASSUME NEW h \in Handler, Lookup(h) PROVE misses'[n] = 0
  <2>1. entry' = entry
    BY <1>3 DEF Lookup, mastered
  <2>2. misses'[n] = misses[n]
    BY <1>3, <2>1 DEF Lookup, TypeInv
  <2> QED
    BY <2>1, <2>2 DEF MissInv
<1>4. CASE UNCHANGED vars
  BY <1>2, <1>4 DEF vars
<1>5. ASSUME NEW h \in Handler, Step(h), ~Lookup(h) PROVE entry' = entry /\ misses' = misses
  BY <1>5 DEF Step, GetDir, CallFails, Store, NoSuchDir, Stat, ListDir, GetFileInfo, Open,
     GetFile, NewHandle, Purge, mastered
<1>6. ASSUME NEW h \in Handler, NEW op \in Op, NEW k \in Key, NEW name \in Key,
             GetDirCached(h, op, k, name)
      PROVE  entry' = entry /\ misses' = misses
  BY <1>6 DEF GetDirCached, mastered
<1>7. ASSUME CachePurger PROVE entry' = entry /\ misses' = misses
  BY <1>7 DEF CachePurger, mastered
<1> QED
  BY <1>1, <1>2, <1>3, <1>4, <1>5, <1>6, <1>7 DEF Next

\* The bound of a name is largest when no request is late.
LEMMA BoundedMisses ==
  ASSUME TypeInv, NEW n \in Name, Bounded(n)
  PROVE  misses[n] <= (Cardinality(Handler) * (Cardinality(Handler) + 1)) \div 2
<1> DEFINE m == Cardinality(Handler \ Late(n))
           a == Cardinality(Able(n))
           c == Cardinality(Handler)
           k == misses[n]
<1>1. m \in Nat /\ a \in Nat /\ k \in Nat
  BY SetFacts, Sizes DEF TypeInv
<1>2. c \in Nat /\ m <= c
  <2>1. Handler \ Late(n) \in SUBSET Handler
    OBVIOUS
  <2> QED
    BY <2>1, FrontendAssumption, FS_Subset, FS_CardinalityType
<1>3. 2 * (k + a) <= m * (m + 1)
  BY DEF Bounded, Fits
<1> HIDE DEF m, a, c, k
<1>4. m * (m + 1) <= c * (c + 1)
  <2>1. PICK d \in Nat : c = m + d
    BY <1>1, <1>2, c - m \in Nat
  <2>2. c * (c + 1) = m * (m + 1) + (2 * (m * d) + d * d + d)
    BY <1>1, <2>1
  <2>3. m * d \in Nat /\ d * d \in Nat
    BY <1>1
  <2>4. m * (m + 1) \in Nat
    BY <1>1
  <2> QED
    BY <2>2, <2>3, <2>4
<1>5. k <= (c * (c + 1)) \div 2
  <2> DEFINE q == m * (m + 1)
             r == c * (c + 1)
  <2>1. q \in Nat /\ r \in Nat /\ 2 * (k + a) <= q /\ q <= r
    BY <1>1, <1>2, <1>3, <1>4
  <2> HIDE DEF q, r
  <2>2. k <= r \div 2
    BY <1>1, <2>1
  <2> QED
    BY <2>2 DEF r
<1> QED
  BY <1>5 DEF c, k

\* However often a published name is looked up, by any number N of requests at
\* once, N(N+1)/2 of them miss it at most: every miss purges the listing it
\* came from, and only a listing that was on its way can bring the name's
\* absence back (src/felib.go and src/fuse.go: GetDirCached, Lookup).
THEOREM MissesAlwaysBounded == Spec => []MissesBounded
<1>1. Init => TypeInv /\ MissInv
  <2> SUFFICES ASSUME Init PROVE TypeInv /\ MissInv
    OBVIOUS
  <2>1. \A n \in Name : misses[n] = 0
    BY DEF Init
  <2>2. \A n \in Name : Bounded(n)
    <3>1. ASSUME NEW n \in Name PROVE Fits(0, Late(n), Able(n))
      BY SetFacts, FitsFresh
    <3> QED
      BY <2>1, <3>1 DEF Bounded
  <2> QED
    BY <2>1, <2>2, InitTypes DEF MissInv
<1>2. TypeInv /\ MissInv /\ [Next]_vars => (TypeInv /\ MissInv)'
  BY NextTypes, StepMisses, StepNone DEF MissInv
<1>3. TypeInv /\ MissInv => MissesBounded
  BY BoundedMisses DEF MissInv, MissesBounded
<1> QED
  BY <1>1, <1>2, <1>3, PTL DEF Spec
=============================================================================
