---------------------------- MODULE InmemDBProofs ----------------------------
(***************************************************************************)
(* Proofs about InmemDB for any peers, users, paths and contents.          *)
(***************************************************************************)
EXTENDS InmemDB, FiniteSetTheorems, TLAPS

-----------------------------------------------------------------------------
(* Paths and directories.                                                  *)

\* The directories on the way to a path are directories below the root.
LEMMA AncestorsInDir ==
  ASSUME NEW p \in Path
  PROVE  /\ Ancestors(p) \subseteq Dir \ {Root}
         /\ Parent(p) \in Ancestors(p)
         /\ p \in Seq(Name)
         /\ Len(p) \in Nat
         /\ Len(p) >= 2
<1>1. p \in Seq(Name) /\ Len(p) \in Nat /\ Len(p) >= 2
  BY PathAssumption
<1>2. Ancestors(p) \subseteq Dir
  BY DEF Dir
<1>3. ASSUME NEW i \in 1 .. Len(p) - 1
      PROVE  SubSeq(p, 1, i) # << >>
  <2>1. Len(SubSeq(p, 1, i)) = i
    BY <1>1
  <2>2. Len(<< >>) = 0
    OBVIOUS
  <2> QED
    BY <2>1, <2>2
<1>4. Parent(p) \in Ancestors(p)
  BY <1>1 DEF Parent, Ancestors
<1> QED
  BY <1>1, <1>2, <1>3, <1>4 DEF Ancestors, Root

\* A path has finitely many ancestors.
LEMMA AncestorsFinite ==
  ASSUME NEW p \in Path
  PROVE  IsFiniteSet(Ancestors(p))
<1> DEFINE f == [i \in 1 .. Len(p) - 1 |-> SubSeq(p, 1, i)]
<1>1. Len(p) \in Nat
  BY AncestorsInDir
<1>2. IsFiniteSet(1 .. Len(p) - 1)
  BY <1>1, FS_Interval
<1>3. f \in Surjection(1 .. Len(p) - 1, Ancestors(p))
  BY DEF Surjection, Ancestors
<1> QED
  BY <1>2, <1>3, FS_Surjection

\* What storing a file creates in a directory is countable.
LEMMA NewEntriesFinite ==
  ASSUME NEW p \in Path, NEW d
  PROVE  Cardinality({x \in NewEntries(p) : Parent(x) = d}) \in Nat
<1>1. IsFiniteSet(Ancestors(p) \cup {p})
  BY AncestorsFinite, FS_AddElement
<1>2. {x \in NewEntries(p) : Parent(x) = d} \in SUBSET (Ancestors(p) \cup {p})
  BY DEF NewEntries
<1> QED
  BY <1>1, <1>2, FS_Subset, FS_CardinalityType

\* Sets of paths are finite.
LEMMA PathsFinite ==
  ASSUME NEW P \in SUBSET Path
  PROVE  IsFiniteSet(P) /\ Cardinality(P) \in Nat
BY PathAssumption, FS_Subset, FS_CardinalityType

-----------------------------------------------------------------------------
(* Type correctness.                                                       *)

\* Releasing the files of P keeps the types of the owner maps.
LEMMA ReleaseType ==
  ASSUME TypeOK, NEW P \in SUBSET Path, NEW o \in Owner
  PROVE  /\ Released(P, o) \in [Hash -> [Owner -> Int]]
         /\ Kept(P, o) \in [Hash -> SUBSET Owner]
<1>1. \A h \in Hash : HavingHash(P, h) \in SUBSET Path
  BY DEF HavingHash
<1>2. \A h \in Hash : Cardinality(HavingHash(P, h)) \in Nat
  BY <1>1, PathsFinite
<1>3. ASSUME NEW h \in Hash
      PROVE  [count[h] EXCEPT ![o] = @ - Cardinality(HavingHash(P, h))]
               \in [Owner -> Int]
  BY <1>2 DEF TypeOK
<1> QED
  BY <1>3 DEF Released, Kept, TypeOK

\* So does Store,
LEMMA StoreType ==
  ASSUME TypeOK, NEW o \in Owner, NEW p \in Path, NEW h \in Hash, Store(p, h, o)
  PROVE  /\ dirs \subseteq dirs'
         /\ dirs' \subseteq Dir \ {Root}
         /\ files' \in [Path -> Hash \cup {None}]
         /\ refs' \in [Dir -> Int]
         /\ mapped' \subseteq Hash
         /\ listed' \in [Hash -> SUBSET Owner]
         /\ count' \in [Hash -> [Owner -> Int]]
<1>1. dirs \subseteq dirs' /\ dirs' \subseteq Dir \ {Root}
  BY AncestorsInDir DEF Store, MakeDirs, TypeOK
<1>2. files' \in [Path -> Hash \cup {None}]
  BY DEF Store, TypeOK
<1>3. refs' \in [Dir -> Int]
  <2>1. \A d \in Dir : Cardinality({x \in NewEntries(p) : Parent(x) = d}) \in Nat
    BY NewEntriesFinite
  <2> QED
    BY <2>1 DEF Store, TypeOK
<1>4. mapped' \subseteq Hash
  BY DEF Store, MakeOwners, TypeOK
<1>5. {p} \in SUBSET Path
  OBVIOUS
<1>6. listed' \in [Hash -> SUBSET Owner]
  <2>1. Kept({p}, o) \in [Hash -> SUBSET Owner]
    BY <1>5, ReleaseType
  <2> QED
    BY <2>1 DEF Store
<1>7. count' \in [Hash -> [Owner -> Int]]
  <2> DEFINE R == Released({p}, o)
  <2>1. R \in [Hash -> [Owner -> Int]]
    BY <1>5, ReleaseType
  <2>2. count' = [R EXCEPT ![h][o] = @ + 1]
    BY DEF Store
  <2> HIDE DEF R
  <2>3. [R[h] EXCEPT ![o] = @ + 1] \in [Owner -> Int]
    BY <2>1
  <2> QED
    BY <2>1, <2>2, <2>3
<1> QED
  BY <1>1, <1>2, <1>3, <1>4, <1>6, <1>7

\* and Remove.
LEMMA RemoveType ==
  ASSUME TypeOK, NEW o \in Owner, NEW P \in SUBSET Path, Remove(P, o)
  PROVE  /\ dirs' = dirs
         /\ mapped' = mapped
         /\ files' \in [Path -> Hash \cup {None}]
         /\ refs' \in [Dir -> Int]
         /\ listed' \in [Hash -> SUBSET Owner]
         /\ count' \in [Hash -> [Owner -> Int]]
<1>1. \A d \in Dir : Unreferenced(P, d) \in SUBSET Path
  BY DEF Unreferenced
<1>2. \A d \in Dir : Cardinality(Unreferenced(P, d)) \in Nat
  BY <1>1, PathsFinite
<1>3. refs' \in [Dir -> Int]
  BY <1>2 DEF Remove, TypeOK
<1>4. files' \in [Path -> Hash \cup {None}]
  BY DEF Remove, TypeOK
<1>5. Released(P, o) \in [Hash -> [Owner -> Int]] /\ Kept(P, o) \in [Hash -> SUBSET Owner]
  BY ReleaseType
<1> QED
  BY <1>3, <1>4, <1>5 DEF Remove

\* The empty database a crash leaves is of the right type.
LEMMA CrashType ==
  ASSUME Crash
  PROVE  TypeOK'
<1>1. SharedTypeOK'
  BY DEF Crash, SharedTypeOK, NothingShared
<1>2. /\ dirs' \subseteq Dir \ {Root}
      /\ files' \in [Path -> Hash \cup {None}]
      /\ refs' \in [Dir -> Int]
      /\ mapped' \subseteq Hash
      /\ listed' \in [Hash -> SUBSET Owner]
      /\ count' \in [Hash -> [Owner -> Int]]
  BY DEF Crash, NoFiles, NoRefs, NoKeys, NoCounts
<1>3. reading' \in [Reader -> dirs' \cup {Root, None}] /\ up' \in BOOLEAN
  BY DEF Crash, Idle
<1> QED
  BY <1>1, <1>2, <1>3 DEF TypeOK

\* The files a disconnect destroys are paths.
LEMMA DestroyedPaths ==
  ASSUME NEW o \in Owner
  PROVE  Destroyed(o) \in SUBSET Path
BY DEF Destroyed

\* Every action preserves the types.
LEMMA TypeStep == TypeOK /\ [Next]_vars => TypeOK'
<1> SUFFICES ASSUME TypeOK, [Next]_vars
             PROVE  TypeOK'
  OBVIOUS
<1>1. ASSUME NEW o \in Owner, NEW p \in PathsOf(o), NEW h \in Content[p],
             SetFile(o, p, h)
      PROVE  TypeOK'
  <2>1. p \in Path /\ h \in Hash
    BY ContentAssumption DEF PathsOf
  <2>2. shared' \in [Owner -> [Path -> Hash \cup {None}]]
    BY <1>1, <2>1 DEF SetFile, Offer, TypeOK, SharedTypeOK
  <2> QED
    BY <1>1, <2>1, <2>2, StoreType DEF SetFile, TypeOK, SharedTypeOK
<1>2. ASSUME NEW o \in Owner, NEW p \in PathsOf(o), DeleteFile(o, p)
      PROVE  TypeOK'
  <2>1. p \in Path /\ {p} \in SUBSET Path
    BY DEF PathsOf
  <2>2. CASE Remove({p}, o) /\ Withdraw(o, p) /\ UNCHANGED <<reading, up>>
    <3>1. shared' \in [Owner -> [Path -> Hash \cup {None}]]
      BY <2>1, <2>2 DEF Withdraw, TypeOK, SharedTypeOK
    <3> QED
      BY <2>1, <2>2, <3>1, RemoveType DEF TypeOK, SharedTypeOK
  <2> QED
    BY <1>2, <2>2, CrashType DEF DeleteFile
<1>3. ASSUME NEW o \in Owner, PeerDisconnected(o)
      PROVE  TypeOK'
  <2>1. CASE Remove(Destroyed(o), o) /\ Forget(o) /\ UNCHANGED <<reading, up>>
    <3>1. shared' \in [Owner -> [Path -> Hash \cup {None}]]
      BY <2>1 DEF Forget, TypeOK, SharedTypeOK
    <3> QED
      BY <2>1, <3>1, DestroyedPaths, RemoveType DEF TypeOK, SharedTypeOK
  <2> QED
    BY <1>3, <2>1, CrashType DEF PeerDisconnected
<1>4. ASSUME NEW r \in Reader, NEW d \in Dir, GetDir(r, d)
      PROVE  TypeOK'
  BY <1>4 DEF GetDir, TypeOK, SharedTypeOK, tree, owners
<1>5. ASSUME NEW r \in Reader, GetDirEncoded(r)
      PROVE  TypeOK'
  BY <1>5 DEF GetDirEncoded, TypeOK, SharedTypeOK, tree, owners
<1>6. ASSUME NEW r \in Reader, NEW o \in Owner, NEW p \in Path, MapRace(r, o, p)
      PROVE  TypeOK'
  BY <1>6, CrashType DEF MapRace
<1>7. CASE Restart
  BY <1>7 DEF Restart, TypeOK, SharedTypeOK, tree, owners
<1>8. CASE UNCHANGED vars
  BY <1>8 DEF vars, TypeOK, SharedTypeOK, tree, owners
<1> QED
  BY <1>1, <1>2, <1>3, <1>4, <1>5, <1>6, <1>7, <1>8 DEF Next

\* The state of the in-memory database always has its type.
THEOREM TypeCorrect == Spec => []TypeOK
<1>1. Init => TypeOK
  BY DEF Init, TypeOK, SharedTypeOK, NothingShared, NoFiles, NoRefs, NoKeys,
         NoCounts, Idle
<1> QED
  BY <1>1, TypeStep, PTL DEF Spec

-----------------------------------------------------------------------------
(* The tree and the maps.                                                  *)

\* The parent of a directory on the way to p is another one, or the root.
LEMMA ParentOfAncestor ==
  ASSUME NEW p \in Path, NEW d \in Ancestors(p)
  PROVE  Parent(d) \in Ancestors(p) \cup {Root}
<1>1. p \in Seq(Name) /\ Len(p) \in Nat
  BY AncestorsInDir
<1>2. PICK i \in 1 .. Len(p) - 1 : d = SubSeq(p, 1, i)
  BY DEF Ancestors
<1>3. d \in Seq(Name) /\ Len(d) = i
  BY <1>1, <1>2
<1>4. Parent(d) = SubSeq(p, 1, i - 1)
  BY <1>1, <1>2, <1>3 DEF Parent
<1>5. CASE i = 1
  BY <1>1, <1>4, <1>5 DEF Root
<1>6. CASE i > 1
  <2>1. i - 1 \in 1 .. Len(p) - 1
    BY <1>1, <1>6
  <2> QED
    BY <1>4, <2>1 DEF Ancestors
<1> QED
  BY <1>5, <1>6

\* No write to a nil map: setFileLocked decrements owners[f.Hash] of a stored
\* file without testing that the inner map exists.
NoNilMapWrite ==
  /\ \A p \in Path : files[p] # None => files[p] \in mapped
  /\ \A h \in Hash : listed[h] # {} => h \in mapped

\* Every stored file can be reached by GetDir's walk from the root, and a
\* directory whose parent is missing never exists.
TreeReachable ==
  /\ \A p \in Path : files[p] # None => Ancestors(p) \subseteq dirs
  /\ \A d \in dirs : Parent(d) \in dirs \cup {Root}

\* Store keeps the tree connected and every stored hash in owners.
LEMMA StoreShape ==
  ASSUME TypeOK, NoNilMapWrite, TreeReachable,
         NEW o \in Owner, NEW p \in Path, NEW h \in Hash, Store(p, h, o)
  PROVE  NoNilMapWrite' /\ TreeReachable'
<1>1. files' = [files EXCEPT ![p] = h] /\ files \in [Path -> Hash \cup {None}]
  BY DEF Store, TypeOK
<1>2. mapped' = mapped \cup {h} /\ dirs' = dirs \cup Ancestors(p)
  BY DEF Store, MakeOwners, MakeDirs
<1>3. \A q \in Path : files'[q] # None => files'[q] \in mapped'
  BY <1>1, <1>2 DEF NoNilMapWrite
<1>4. ASSUME NEW g \in Hash, listed'[g] # {}
      PROVE  g \in mapped'
  <2>1. Kept({p}, o) \in [Hash -> SUBSET Owner]
    BY ReleaseType
  <2>2. g = h \/ Kept({p}, o)[g] # {}
    BY <1>4, <2>1 DEF Store
  <2>3. HavingHash({p}, g) # {} => files[p] = g
    BY DEF HavingHash
  <2>4. Kept({p}, o)[g] # {} => listed[g] # {} \/ files[p] = g
    BY <2>3 DEF Kept
  <2>5. files[p] = g => g \in mapped
    BY ContentAssumption DEF NoNilMapWrite
  <2> QED
    BY <1>2, <2>2, <2>4, <2>5 DEF NoNilMapWrite
<1>5. \A q \in Path : files'[q] # None => Ancestors(q) \subseteq dirs'
  BY <1>1, <1>2 DEF TreeReachable
<1>6. \A d \in dirs' : Parent(d) \in dirs' \cup {Root}
  BY <1>2, ParentOfAncestor DEF TreeReachable
<1> QED
  BY <1>3, <1>4, <1>5, <1>6 DEF NoNilMapWrite, TreeReachable

\* So does Remove.
LEMMA RemoveShape ==
  ASSUME TypeOK, NoNilMapWrite, TreeReachable,
         NEW o \in Owner, NEW P \in SUBSET Path, Remove(P, o)
  PROVE  NoNilMapWrite' /\ TreeReachable'
<1>1. /\ files' = [q \in Path |-> IF q \in P THEN None ELSE files[q]]
      /\ mapped' = mapped
      /\ dirs' = dirs
      /\ listed' = Kept(P, o)
  BY DEF Remove
<1>2. \A q \in Path : files'[q] # None => files'[q] = files[q]
  BY <1>1
<1>3. ASSUME NEW g \in Hash, listed'[g] # {}
      PROVE  g \in mapped
  <2>1. HavingHash(P, g) # {} => \E q \in Path : files[q] = g
    BY DEF HavingHash
  <2>2. listed[g] # {} \/ \E q \in Path : files[q] = g
    BY <1>1, <1>3, <2>1 DEF Kept
  <2> QED
    BY <2>2, ContentAssumption DEF NoNilMapWrite
<1> QED
  BY <1>1, <1>2, <1>3 DEF NoNilMapWrite, TreeReachable

\* The empty database satisfies both.
LEMMA CrashShape ==
  ASSUME Crash
  PROVE  NoNilMapWrite' /\ TreeReachable'
BY DEF Crash, NoNilMapWrite, TreeReachable, NoFiles, NoKeys

\* An action that leaves the tree and the owner maps alone preserves both.
LEMMA UnchangedShape ==
  ASSUME NoNilMapWrite, TreeReachable, UNCHANGED <<tree, owners>>
  PROVE  NoNilMapWrite' /\ TreeReachable'
BY DEF NoNilMapWrite, TreeReachable, tree, owners

\* Every action preserves both.
LEMMA ShapeStep ==
  TypeOK /\ NoNilMapWrite /\ TreeReachable /\ [Next]_vars
    => NoNilMapWrite' /\ TreeReachable'
<1> SUFFICES ASSUME TypeOK, NoNilMapWrite, TreeReachable, [Next]_vars
             PROVE  NoNilMapWrite' /\ TreeReachable'
  OBVIOUS
<1>1. ASSUME NEW o \in Owner, NEW p \in PathsOf(o), NEW h \in Content[p],
             SetFile(o, p, h)
      PROVE  NoNilMapWrite' /\ TreeReachable'
  <2>1. p \in Path /\ h \in Hash
    BY ContentAssumption DEF PathsOf
  <2> QED
    BY <1>1, <2>1, StoreShape DEF SetFile
<1>2. ASSUME NEW o \in Owner, NEW p \in PathsOf(o), DeleteFile(o, p)
      PROVE  NoNilMapWrite' /\ TreeReachable'
  <2>1. {p} \in SUBSET Path
    BY DEF PathsOf
  <2> QED
    BY <1>2, <2>1, RemoveShape, CrashShape DEF DeleteFile
<1>3. ASSUME NEW o \in Owner, PeerDisconnected(o)
      PROVE  NoNilMapWrite' /\ TreeReachable'
  BY <1>3, DestroyedPaths, RemoveShape, CrashShape DEF PeerDisconnected
<1>4. ASSUME NEW r \in Reader, NEW d \in Dir, GetDir(r, d)
      PROVE  NoNilMapWrite' /\ TreeReachable'
  BY <1>4, UnchangedShape DEF GetDir
<1>5. ASSUME NEW r \in Reader, GetDirEncoded(r)
      PROVE  NoNilMapWrite' /\ TreeReachable'
  BY <1>5, UnchangedShape DEF GetDirEncoded
<1>6. ASSUME NEW r \in Reader, NEW o \in Owner, NEW p \in Path, MapRace(r, o, p)
      PROVE  NoNilMapWrite' /\ TreeReachable'
  BY <1>6, CrashShape DEF MapRace
<1>7. CASE Restart
  BY <1>7, UnchangedShape DEF Restart
<1>8. CASE UNCHANGED vars
  BY <1>8, UnchangedShape DEF vars
<1> QED
  BY <1>1, <1>2, <1>3, <1>4, <1>5, <1>6, <1>7, <1>8 DEF Next

\* setFileLocked never writes to a nil map, whatever sequence of calls went
\* before it, and every stored file is reachable by GetDir.
LEMMA ShapeCorrect == Spec => [](NoNilMapWrite /\ TreeReachable)
<1>1. Init => NoNilMapWrite /\ TreeReachable
  BY DEF Init, NoNilMapWrite, TreeReachable, NoFiles, NoKeys
<1> QED
  BY <1>1, TypeCorrect, ShapeStep, PTL DEF Spec

-----------------------------------------------------------------------------
(* The owner counts.                                                       *)

\* The files o's user has with hash h in a tree f, and f without the files P.
Hold(f, o, h) == {p \in PathsOf(o) : f[p] = h}
Cleared(f, P) == [p \in Path |-> IF p \in P THEN None ELSE f[p]]

\* The counts c and keys l are those of the tree f.
Balanced(f, c, l) ==
  \A h \in Hash, o \in Owner :
    /\ c[h][o] = Cardinality(Hold(f, o, h))
    /\ o \in l[h] <=> Hold(f, o, h) # {}

\* With one machine per user no two peers write the same path.
LEMMA OneWriter ==
  ASSUME OnePerUser, NEW o1 \in Owner, NEW o2 \in Owner,
         NEW p \in PathsOf(o1), p \in PathsOf(o2)
  PROVE  o1 = o2
BY DEF OnePerUser, PathsOf

\* What somebody holds is a finite set.
LEMMA HoldFinite ==
  ASSUME NEW f, NEW o \in Owner, NEW h
  PROVE  IsFiniteSet(Hold(f, o, h)) /\ Cardinality(Hold(f, o, h)) \in Nat
<1>1. Hold(f, o, h) \in SUBSET Path
  BY DEF Hold, PathsOf
<1> QED
  BY <1>1, PathsFinite

\* Releasing files of o balances: the counts of o go down by what it no longer
\* holds, and those of the others stay.
LEMMA ReleaseBalanced ==
  ASSUME TypeOK, OnePerUser, Balanced(files, count, listed),
         NEW P \in SUBSET Path, NEW o \in Owner,
         \A p \in P : files[p] # None => p \in PathsOf(o)
  PROVE  Balanced(Cleared(files, P), Released(P, o), Kept(P, o))
<1> DEFINE f == Cleared(files, P)
<1> SUFFICES ASSUME NEW h \in Hash, NEW x \in Owner
             PROVE  /\ Released(P, o)[h][x] = Cardinality(Hold(f, x, h))
                    /\ x \in Kept(P, o)[h] <=> Hold(f, x, h) # {}
  BY DEF Balanced
<1>1. /\ count[h][x] = Cardinality(Hold(files, x, h))
      /\ x \in listed[h] <=> Hold(files, x, h) # {}
  BY DEF Balanced
<1>2. count \in [Hash -> [Owner -> Int]] /\ listed \in [Hash -> SUBSET Owner]
  BY DEF TypeOK
<1>3. Hold(f, x, h) = Hold(files, x, h) \ HavingHash(P, h)
  BY ContentAssumption DEF Hold, Cleared, HavingHash, PathsOf
<1>4. CASE x # o
  <2>1. Hold(files, x, h) \cap HavingHash(P, h) = {}
    BY <1>4, OneWriter, ContentAssumption DEF Hold, HavingHash
  <2>2. Hold(f, x, h) = Hold(files, x, h)
    BY <1>3, <2>1
  <2>3. Released(P, o)[h][x] = count[h][x]
    BY <1>2, <1>4 DEF Released
  <2>4. x \in Kept(P, o)[h] <=> x \in listed[h]
    BY <1>4 DEF Kept
  <2> QED
    BY <1>1, <2>2, <2>3, <2>4
<1>5. CASE x = o
  <2>1. HavingHash(P, h) \in SUBSET Hold(files, o, h)
    BY ContentAssumption DEF Hold, HavingHash
  <2>2. Hold(files, o, h) \cap HavingHash(P, h) = HavingHash(P, h)
    BY <2>1
  <2>3. IsFiniteSet(Hold(files, o, h)) /\ Cardinality(Hold(files, o, h)) \in Nat
    BY HoldFinite
  <2>4. IsFiniteSet(HavingHash(P, h)) /\ Cardinality(HavingHash(P, h)) \in Nat
    BY <2>1, <2>3, FS_Subset, FS_CardinalityType
  <2>5. Cardinality(Hold(f, o, h))
          = Cardinality(Hold(files, o, h)) - Cardinality(HavingHash(P, h))
    BY <1>3, <1>5, <2>2, <2>3, <2>4, FS_Difference
  <2>6. Released(P, o)[h][o] = count[h][o] - Cardinality(HavingHash(P, h))
    BY <1>2 DEF Released
  <2>7. Released(P, o)[h][o] = Cardinality(Hold(f, o, h))
    BY <1>1, <1>5, <2>5, <2>6
  <2>8. IsFiniteSet(Hold(f, o, h))
    BY HoldFinite
  <2>9. Released(P, o)[h][o] = 0 <=> Hold(f, o, h) = {}
    BY <2>7, <2>8, FS_EmptySet
  <2>10. CASE HavingHash(P, h) = {}
    <3>1. Kept(P, o)[h] = listed[h]
      BY <2>10 DEF Kept
    <3>2. Hold(f, o, h) = Hold(files, o, h)
      BY <1>3, <1>5, <2>10
    <3> QED
      BY <1>1, <1>5, <2>7, <3>1, <3>2
  <2>11. CASE HavingHash(P, h) # {}
    <3>1. o \in Kept(P, o)[h] <=> Released(P, o)[h][o] # 0
      BY <2>11 DEF Kept
    <3> QED
      BY <1>5, <2>7, <2>9, <3>1
  <2> QED
    BY <2>10, <2>11
<1> QED
  BY <1>4, <1>5

\* Acquiring a file balances: o has one more of its hash.
LEMMA AcquireBalanced ==
  ASSUME OnePerUser, NEW f \in [Path -> Hash \cup {None}],
         NEW c \in [Hash -> [Owner -> Int]], NEW l \in [Hash -> SUBSET Owner],
         Balanced(f, c, l), NEW o \in Owner, NEW p \in PathsOf(o), NEW h \in Hash,
         f[p] = None
  PROVE  Balanced([f EXCEPT ![p] = h], [c EXCEPT ![h][o] = @ + 1],
                  [l EXCEPT ![h] = @ \cup {o}])
<1> DEFINE f2 == [f EXCEPT ![p] = h]
           c2 == [c EXCEPT ![h][o] = @ + 1]
           l2 == [l EXCEPT ![h] = @ \cup {o}]
<1> SUFFICES ASSUME NEW g \in Hash, NEW x \in Owner
             PROVE  /\ c2[g][x] = Cardinality(Hold(f2, x, g))
                    /\ x \in l2[g] <=> Hold(f2, x, g) # {}
  BY DEF Balanced
<1>1. /\ c[g][x] = Cardinality(Hold(f, x, g))
      /\ x \in l[g] <=> Hold(f, x, g) # {}
  BY DEF Balanced
<1>2. p \in Path
  BY DEF PathsOf
<1>3. CASE x = o /\ g = h
  <2>1. Hold(f2, x, g) = Hold(f, x, g) \cup {p}
    BY <1>2, <1>3 DEF Hold, PathsOf
  <2>2. p \notin Hold(f, x, g)
    BY ContentAssumption DEF Hold
  <2>3. IsFiniteSet(Hold(f, x, g))
    BY HoldFinite
  <2>4. Cardinality(Hold(f2, x, g)) = Cardinality(Hold(f, x, g)) + 1
    BY <2>1, <2>2, <2>3, FS_AddElement
  <2>5. c2[g][x] = c[g][x] + 1
    BY <1>3
  <2>6. x \in l2[g]
    BY <1>3
  <2> QED
    BY <1>1, <2>1, <2>4, <2>5, <2>6
<1>4. CASE x # o \/ g # h
  <2>1. Hold(f2, x, g) = Hold(f, x, g)
    BY <1>2, <1>4, OneWriter, ContentAssumption DEF Hold, PathsOf
  <2>2. c2[g][x] = c[g][x]
    BY <1>4
  <2>3. x \in l2[g] <=> x \in l[g]
    BY <1>4
  <2> QED
    BY <1>1, <2>1, <2>2, <2>3
<1> QED
  BY <1>3, <1>4

-----------------------------------------------------------------------------
(* What connected peers published.                                         *)

\* Every stored file belongs to a peer and has a content it can have.
FilesOwned ==
  \A p \in Path :
    files[p] # None => files[p] \in Content[p] /\ \E o \in Owner : p \in PathsOf(o)

\* Peers publish under their own user only, and what they publish is stored.
SharedStored ==
  \A o \in Owner, p \in Path :
    shared[o][p] # None => p \in PathsOf(o) /\ files[p] = shared[o][p]

\* The inductive invariant for one machine per user.
CountInv ==
  /\ FilesOwned
  /\ SharedStored
  /\ Balanced(files, count, listed)

\* A disconnect destroys files of its own peer only.
LEMMA DestroyedOwn ==
  ASSUME TypeOK, OnePerUser, CountInv, NEW o \in Owner, NEW p \in Destroyed(o)
  PROVE  p \in PathsOf(o)
<1>1. p \in Path /\ files[p] \in mapped /\ listed[files[p]] = {o}
  BY DEF Destroyed, Victims
<1>2. files[p] \in Hash /\ files[p] # None
  BY <1>1, ContentAssumption DEF TypeOK
<1>3. PICK x \in Owner : p \in PathsOf(x)
  BY <1>1, <1>2 DEF CountInv, FilesOwned
<1>4. p \in Hold(files, x, files[p])
  BY <1>3 DEF Hold
<1>5. x \in listed[files[p]]
  BY <1>2, <1>4 DEF CountInv, Balanced
<1> QED
  BY <1>1, <1>3, <1>5

\* Removing files of o that are taken from `shared' as well preserves the
\* invariant.
LEMMA RemoveCount ==
  ASSUME TypeOK, OnePerUser, CountInv, NEW o \in Owner, NEW P \in SUBSET Path,
         \A p \in P : files[p] # None => p \in PathsOf(o),
         Remove(P, o),
         \A x \in Owner, p \in Path :
           shared'[x][p] # None => shared'[x][p] = shared[x][p] /\ ~(x = o /\ p \in P)
  PROVE  CountInv'
<1>1. files' = Cleared(files, P) /\ count' = Released(P, o) /\ listed' = Kept(P, o)
  BY DEF Remove, Cleared
<1>2. Balanced(files, count, listed)'
  <2>1. Balanced(files, count, listed)
    BY DEF CountInv
  <2>2. Balanced(Cleared(files, P), Released(P, o), Kept(P, o))
    BY <2>1, ReleaseBalanced
  <2> QED
    BY <1>1, <2>2 DEF Balanced, Hold, PathsOf
<1>3. FilesOwned'
  BY <1>1 DEF CountInv, FilesOwned, Cleared, PathsOf
<1>4. SharedStored'
  <2> SUFFICES ASSUME NEW x \in Owner, NEW p \in Path, shared'[x][p] # None
               PROVE  p \in PathsOf(x) /\ files'[p] = shared'[x][p]
    BY DEF SharedStored, PathsOf
  <2>1. shared'[x][p] = shared[x][p] /\ ~(x = o /\ p \in P)
    OBVIOUS
  <2>2. p \in PathsOf(x) /\ files[p] = shared[x][p]
    BY <2>1 DEF CountInv, SharedStored
  <2>3. p \notin P
    BY <2>1, <2>2, OneWriter
  <2> QED
    BY <1>1, <2>1, <2>2, <2>3 DEF Cleared
<1> QED
  BY <1>2, <1>3, <1>4 DEF CountInv

\* SetFile preserves it.
LEMMA SetFileCount ==
  ASSUME TypeOK, OnePerUser, CountInv,
         NEW o \in Owner, NEW p \in PathsOf(o), NEW h \in Content[p],
         SetFile(o, p, h)
  PROVE  CountInv'
<1>1. p \in Path /\ h \in Hash /\ {p} \in SUBSET Path
  BY ContentAssumption DEF PathsOf
<1>2. /\ files' = [files EXCEPT ![p] = h]
      /\ shared' = [shared EXCEPT ![o][p] = h]
      /\ count' = [Released({p}, o) EXCEPT ![h][o] = @ + 1]
      /\ listed' = [Kept({p}, o) EXCEPT ![h] = @ \cup {o}]
  BY DEF SetFile, Store, Offer
<1>3. files \in [Path -> Hash \cup {None}] /\ shared \in [Owner -> [Path -> Hash \cup {None}]]
  BY DEF TypeOK, SharedTypeOK
<1>4. Balanced(files, count, listed)'
  <2> DEFINE f == Cleared(files, {p})
             c == Released({p}, o)
             l == Kept({p}, o)
  <2>1. Balanced(f, c, l)
    BY <1>1, ReleaseBalanced DEF CountInv
  <2>2. f \in [Path -> Hash \cup {None}] /\ f[p] = None
    BY <1>1, <1>3 DEF Cleared
  <2>3. c \in [Hash -> [Owner -> Int]] /\ l \in [Hash -> SUBSET Owner]
    BY <1>1, ReleaseType
  <2>4. files' = [f EXCEPT ![p] = h]
    BY <1>1, <1>2, <1>3 DEF Cleared
  <2>5. count' = [c EXCEPT ![h][o] = @ + 1] /\ listed' = [l EXCEPT ![h] = @ \cup {o}]
    BY <1>2
  <2> HIDE DEF f, c, l
  <2>6. Balanced([f EXCEPT ![p] = h], [c EXCEPT ![h][o] = @ + 1],
                 [l EXCEPT ![h] = @ \cup {o}])
    BY <1>1, <2>1, <2>2, <2>3, AcquireBalanced
  <2> QED
    BY <2>4, <2>5, <2>6 DEF Balanced, Hold, PathsOf
<1>5. FilesOwned'
  BY <1>1, <1>2, <1>3 DEF CountInv, FilesOwned, PathsOf
<1>6. SharedStored'
  <2> SUFFICES ASSUME NEW x \in Owner, NEW q \in Path, shared'[x][q] # None
               PROVE  q \in PathsOf(x) /\ files'[q] = shared'[x][q]
    BY DEF SharedStored, PathsOf
  <2>1. CASE x = o /\ q = p
    BY <1>1, <1>2, <1>3, <2>1
  <2>2. CASE ~(x = o /\ q = p)
    <3>1. shared'[x][q] = shared[x][q]
      BY <1>1, <1>2, <1>3, <2>2
    <3>2. q \in PathsOf(x) /\ files[q] = shared[x][q]
      BY <3>1 DEF CountInv, SharedStored
    <3>3. q # p
      BY <2>2, <3>2, OneWriter
    <3> QED
      BY <1>2, <1>3, <3>1, <3>2, <3>3
  <2> QED
    BY <2>1, <2>2
<1> QED
  BY <1>4, <1>5, <1>6 DEF CountInv

\* So does everything else: an empty database satisfies it,
LEMMA EmptyCount ==
  ASSUME shared = NothingShared, files = NoFiles, listed = NoKeys, count = NoCounts
  PROVE  CountInv
<1>1. FilesOwned /\ SharedStored
  BY DEF FilesOwned, SharedStored, NoFiles, NothingShared
<1>2. ASSUME NEW h \in Hash, NEW o \in Owner
      PROVE  count[h][o] = Cardinality(Hold(files, o, h))
             /\ (o \in listed[h] <=> Hold(files, o, h) # {})
  <2>1. Hold(files, o, h) = {}
    BY ContentAssumption DEF Hold, NoFiles, PathsOf
  <2> QED
    BY <2>1, FS_EmptySet DEF NoKeys, NoCounts
<1> QED
  BY <1>1, <1>2 DEF CountInv, Balanced

\* also as the next state,
LEMMA CrashCount ==
  ASSUME Crash
  PROVE  CountInv'
<1>1. FilesOwned' /\ SharedStored'
  BY DEF Crash, FilesOwned, SharedStored, NoFiles, NothingShared
<1>2. ASSUME NEW h \in Hash, NEW o \in Owner
      PROVE  count'[h][o] = Cardinality(Hold(files', o, h))
             /\ (o \in listed'[h] <=> Hold(files', o, h) # {})
  <2>1. Hold(files', o, h) = {}
    BY ContentAssumption DEF Crash, Hold, NoFiles, PathsOf
  <2> QED
    BY <2>1, FS_EmptySet DEF Crash, NoKeys, NoCounts
<1> QED
  BY <1>1, <1>2 DEF CountInv, Balanced, Hold, PathsOf

\* and so does a step that changes nothing of it.
LEMMA UnchangedCount ==
  ASSUME CountInv, UNCHANGED <<shared, tree, owners>>
  PROVE  CountInv'
BY DEF CountInv, FilesOwned, SharedStored, Balanced, Hold, PathsOf, tree, owners

\* With one machine per user every action preserves the invariant.
LEMMA CountStep ==
  ASSUME OnePerUser, TypeOK, CountInv, [Next]_vars
  PROVE  CountInv'
<1>1. ASSUME NEW o \in Owner, NEW p \in PathsOf(o), NEW h \in Content[p],
             SetFile(o, p, h)
      PROVE  CountInv'
  BY <1>1, SetFileCount
<1>2. ASSUME NEW o \in Owner, NEW p \in PathsOf(o), DeleteFile(o, p)
      PROVE  CountInv'
  <2>1. CASE Remove({p}, o) /\ Withdraw(o, p)
    <3>1. {p} \in SUBSET Path /\ \A q \in {p} : q \in PathsOf(o)
      BY DEF PathsOf
    <3>2. \A x \in Owner, q \in Path :
            shared'[x][q] # None => shared'[x][q] = shared[x][q] /\ ~(x = o /\ q \in {p})
      BY <2>1, <3>1 DEF Withdraw, TypeOK, SharedTypeOK
    <3> QED
      BY <2>1, <3>1, <3>2, RemoveCount
  <2> QED
    BY <1>2, <2>1, CrashCount DEF DeleteFile
<1>3. ASSUME NEW o \in Owner, PeerDisconnected(o)
      PROVE  CountInv'
  <2>1. CASE Remove(Destroyed(o), o) /\ Forget(o)
    <3>1. Destroyed(o) \in SUBSET Path /\ \A q \in Destroyed(o) : q \in PathsOf(o)
      BY DestroyedPaths, DestroyedOwn
    <3>2. \A x \in Owner, q \in Path :
            shared'[x][q] # None =>
              shared'[x][q] = shared[x][q] /\ ~(x = o /\ q \in Destroyed(o))
      BY <2>1 DEF Forget, TypeOK, SharedTypeOK
    <3> QED
      BY <2>1, <3>1, <3>2, RemoveCount
  <2> QED
    BY <1>3, <2>1, CrashCount DEF PeerDisconnected
<1>4. ASSUME NEW r \in Reader, NEW d \in Dir, GetDir(r, d)
      PROVE  CountInv'
  BY <1>4, UnchangedCount DEF GetDir
<1>5. ASSUME NEW r \in Reader, GetDirEncoded(r)
      PROVE  CountInv'
  BY <1>5, UnchangedCount DEF GetDirEncoded
<1>6. ASSUME NEW r \in Reader, NEW o \in Owner, NEW p \in Path, MapRace(r, o, p)
      PROVE  CountInv'
  BY <1>6, CrashCount DEF MapRace
<1>7. CASE Restart
  BY <1>7, UnchangedCount DEF Restart
<1>8. CASE UNCHANGED vars
  BY <1>8, UnchangedCount DEF vars
<1> QED
  BY <1>1, <1>2, <1>3, <1>4, <1>5, <1>6, <1>7, <1>8 DEF Next

\* The invariant says what CountsExact and NothingLost say.
LEMMA CountInvMeans ==
  ASSUME TypeOK, CountInv
  PROVE  CountsExact /\ NothingLost
<1>1. CountsExact
  BY DEF CountInv, Balanced, Hold, CountsExact, Holding
<1>2. ASSUME NEW o \in Owner, NEW p \in Path, shared[o][p] # None
      PROVE  files[p] = shared[o][p] /\ o \in listed[shared[o][p]]
  <2>1. p \in PathsOf(o) /\ files[p] = shared[o][p]
    BY <1>2 DEF CountInv, SharedStored
  <2>2. shared[o][p] \in Hash
    BY <1>2 DEF TypeOK, SharedTypeOK
  <2>3. p \in Hold(files, o, shared[o][p])
    BY <2>1 DEF Hold
  <2> QED
    BY <2>1, <2>2, <2>3 DEF CountInv, Balanced
<1> QED
  BY <1>1, <1>2 DEF NothingLost

\* With one machine per user, owners[h][o] is at all times the number of o's
\* files with hash h; and what a connected peer has published can be found by
\* GetDir and GetOwners, whatever the other peers do.
THEOREM CountsCorrect == Spec => [](CountsExact /\ NothingLost)
<1>1. CASE ~OnePerUser
  <2>1. CountsExact /\ NothingLost
    BY <1>1 DEF CountsExact, NothingLost
  <2> QED
    BY <2>1, PTL
<1>2. CASE OnePerUser
  <2>1. Init => CountInv
    BY EmptyCount DEF Init
  <2>2. TypeOK /\ CountInv /\ [Next]_vars => CountInv'
    BY <1>2, CountStep
  <2>3. TypeOK /\ CountInv => CountsExact /\ NothingLost
    BY CountInvMeans
  <2> QED
    BY <2>1, <2>2, <2>3, TypeCorrect, PTL DEF Spec
<1> QED
  BY <1>1, <1>2

\* In particular, with one machine per user what a connected peer has published
\* stays published: GetDir shows it and GetOwners names the peer.
THEOREM NothingLostAlways == Spec => []NothingLost
BY CountsCorrect, PTL

-----------------------------------------------------------------------------
(* Exact answers.                                                          *)

\* Of a peer whose contents nobody else has, the tree holds what is shared, and
\* nothing else.
TreeExact ==
  \A o \in Owner : Private(o) => \A p \in PathsOf(o) : files[p] = shared[o][p]

\* A disconnect destroys every file of such a peer.
LEMMA DestroyedAll ==
  ASSUME OnePerUser, TypeOK, NoNilMapWrite, CountInv,
         NEW o \in Owner, Private(o), NEW p \in PathsOf(o), files[p] # None
  PROVE  p \in Destroyed(o)
<1> DEFINE h == files[p]
<1>1. p \in Path /\ h \in Hash /\ h \in Content[p] /\ h \in mapped
  BY DEF PathsOf, TypeOK, CountInv, FilesOwned, NoNilMapWrite
<1>2. o \in listed[h]
  <2>1. p \in Hold(files, o, h)
    BY DEF Hold
  <2> QED
    BY <1>1, <2>1 DEF CountInv, Balanced
<1>3. ASSUME NEW x \in listed[h]
      PROVE  x = o
  <2>1. x \in Owner
    BY <1>1 DEF TypeOK
  <2>2. Hold(files, x, h) # {}
    BY <1>1, <2>1 DEF CountInv, Balanced
  <2>3. PICK q \in PathsOf(x) : files[q] = h
    BY <2>2 DEF Hold
  <2>4. q \in Path /\ h \in Content[q]
    BY <1>1, <2>3, ContentAssumption DEF PathsOf, CountInv, FilesOwned
  <2>5. q \in PathsOf(o)
    BY <1>1, <2>4 DEF Private
  <2> QED
    BY <2>1, <2>3, <2>5, OneWriter
<1>4. listed[h] = {o}
  BY <1>2, <1>3
<1> QED
  BY <1>1, <1>4 DEF Destroyed, Victims

\* Every action keeps the tree exact.
LEMMA ExactStep ==
  ASSUME OnePerUser, TypeOK, NoNilMapWrite, CountInv, TreeExact, [Next]_vars
  PROVE  TreeExact'
<1> USE DEF PathsOf, Private
<1>0. files \in [Path -> Hash \cup {None}] /\ shared \in [Owner -> [Path -> Hash \cup {None}]]
  BY DEF TypeOK, SharedTypeOK
<1>1. ASSUME NEW o \in Owner, NEW p \in PathsOf(o), NEW h \in Content[p],
             SetFile(o, p, h)
      PROVE  TreeExact'
  <2>1. files' = [files EXCEPT ![p] = h] /\ shared' = [shared EXCEPT ![o][p] = h]
    BY <1>1 DEF SetFile, Store, Offer
  <2> QED
    BY <1>0, <2>1, OneWriter DEF TreeExact
<1>2. ASSUME NEW o \in Owner, NEW p \in PathsOf(o), DeleteFile(o, p)
      PROVE  TreeExact'
  <2>1. CASE Remove({p}, o) /\ Withdraw(o, p)
    <3>1. /\ files' = [q \in Path |-> IF q \in {p} THEN None ELSE files[q]]
          /\ shared' = [shared EXCEPT ![o][p] = None]
      BY <2>1 DEF Remove, Withdraw
    <3> QED
      BY <1>0, <3>1, OneWriter DEF TreeExact
  <2>2. CASE Crash
    BY <2>2 DEF Crash, TreeExact, NothingShared, NoFiles
  <2> QED
    BY <1>2, <2>1, <2>2 DEF DeleteFile
<1>3. ASSUME NEW o \in Owner, PeerDisconnected(o)
      PROVE  TreeExact'
  <2>1. CASE Remove(Destroyed(o), o) /\ Forget(o)
    <3> SUFFICES ASSUME NEW x \in Owner, Private(x), NEW q \in PathsOf(x)
                 PROVE  files'[q] = shared'[x][q]
      BY DEF TreeExact
    <3>1. /\ files' = [r \in Path |-> IF r \in Destroyed(o) THEN None ELSE files[r]]
          /\ shared' = [shared EXCEPT ![o] = [r \in Path |-> None]]
      BY <2>1 DEF Remove, Forget
    <3>2. CASE x = o
      BY <1>0, <3>1, <3>2, DestroyedAll
    <3>3. CASE x # o
      <4>1. q \notin Destroyed(o)
        BY <3>3, DestroyedOwn, OneWriter
      <4> QED
        BY <1>0, <3>1, <3>3, <4>1 DEF TreeExact
    <3> QED
      BY <3>2, <3>3
  <2>2. CASE Crash
    BY <2>2 DEF Crash, TreeExact, NothingShared, NoFiles
  <2> QED
    BY <1>3, <2>1, <2>2 DEF PeerDisconnected
<1>4. ASSUME NEW r \in Reader, NEW o \in Owner, NEW p \in Path, MapRace(r, o, p)
      PROVE  TreeExact'
  BY <1>4 DEF MapRace, Crash, TreeExact, NothingShared, NoFiles
<1>5. CASE UNCHANGED <<shared, tree>>
  BY <1>5 DEF TreeExact, tree
<1> QED
  BY <1>1, <1>2, <1>3, <1>4, <1>5
  DEF Next, GetDir, GetDirEncoded, Restart, vars

\* An exact tree makes for exact answers.
LEMMA ExactAnswers ==
  ASSUME TypeOK, CountInv, TreeExact
  PROVE  AnswersExact
<1>1. ASSUME NEW o \in Owner, Private(o), NEW h \in Hash
      PROVE  o \in listed[h] <=> o \in OwnersOf(h)
  <2>1. Hold(files, o, h) = {p \in Path : shared[o][p] = h}
    BY <1>1, ContentAssumption DEF Hold, PathsOf, TreeExact, CountInv, SharedStored
  <2>2. o \in listed[h] <=> Hold(files, o, h) # {}
    BY DEF CountInv, Balanced
  <2> QED
    BY <2>1, <2>2 DEF OwnersOf
<1> QED
  BY <1>1 DEF AnswersExact, TreeExact

\* With one machine per user, and for a peer that has no content in common with
\* another user, GetDir and GetOwners answer at all times with what it has
\* published while connected, and with nothing else.
THEOREM AnswersCorrect == Spec => []AnswersExact
<1>1. CASE ~OnePerUser
  <2>1. AnswersExact
    BY <1>1 DEF AnswersExact
  <2> QED
    BY <2>1, PTL
<1>2. CASE OnePerUser
  <2>1. Init => CountInv /\ TreeExact
    BY EmptyCount DEF Init, TreeExact, NothingShared, NoFiles, PathsOf
  <2>2. TypeOK /\ NoNilMapWrite /\ CountInv /\ TreeExact /\ [Next]_vars
          => CountInv' /\ TreeExact'
    BY <1>2, CountStep, ExactStep
  <2>3. TypeOK /\ CountInv /\ TreeExact => AnswersExact
    BY ExactAnswers
  <2> QED
    BY <2>1, <2>2, <2>3, TypeCorrect, ShapeCorrect, PTL DEF Spec
<1> QED
  BY <1>1, <1>2

-----------------------------------------------------------------------------
(* The reference counts of the directories.                                *)

\* A count c covers the directories C and the files F of a directory d; that of
\* the root and of a user's own directory is exact.
Covers(c, d, C, F) ==
  /\ c >= Cardinality(C) + Cardinality(F)
  /\ Len(d) <= 1 => c = Cardinality(C) + Cardinality(F)

\* The inductive invariant: RefsCover, for the directories that are not in the
\* tree as well, since storing a file may create any of them.
CoverInv ==
  /\ IsFiniteSet(dirs)
  /\ \A d \in Dir : Covers(refs[d], d, Children(d), FilesIn(d))
  /\ \A d \in dirs : refs[d] > 0

\* A directory has finitely many entries.
LEMMA EntriesFinite ==
  ASSUME NEW D, IsFiniteSet(D), NEW C \in SUBSET D, NEW F \in SUBSET Path
  PROVE  /\ IsFiniteSet(C) /\ Cardinality(C) \in Nat
         /\ IsFiniteSet(F) /\ Cardinality(F) \in Nat
BY PathsFinite, FS_Subset, FS_CardinalityType

\* A finite set is as large as a part of it and the rest.
LEMMA PartAndRest ==
  ASSUME NEW S, IsFiniteSet(S), NEW T \in SUBSET S
  PROVE  /\ IsFiniteSet(S \ T)
         /\ Cardinality(S) \in Nat /\ Cardinality(T) \in Nat
         /\ Cardinality(S \ T) \in Nat
         /\ Cardinality(S) = Cardinality(T) + Cardinality(S \ T)
<1>1. IsFiniteSet(T) /\ IsFiniteSet(S \ T)
  BY FS_Subset
<1>2. /\ Cardinality(S) \in Nat /\ Cardinality(T) \in Nat
      /\ Cardinality(S \ T) \in Nat
  BY <1>1, FS_CardinalityType
<1>3. S \cap T = T
  OBVIOUS
<1>4. Cardinality(S \ T) = Cardinality(S) - Cardinality(T)
  BY <1>3, FS_Difference
<1> QED
  BY <1>1, <1>2, <1>4

\* The union of two disjoint finite sets is as large as both together.
LEMMA DisjointAdds ==
  ASSUME NEW A, IsFiniteSet(A), NEW B, IsFiniteSet(B), A \cap B = {}
  PROVE  Cardinality(A \cup B) = Cardinality(A) + Cardinality(B)
<1>1. Cardinality(A \cap B) = 0
  BY FS_EmptySet
<1>2. Cardinality(A) \in Nat /\ Cardinality(B) \in Nat
  BY FS_CardinalityType
<1>3. Cardinality(A \cup B) = Cardinality(A) + Cardinality(B) - Cardinality(A \cap B)
  BY FS_Union
<1> QED
  BY <1>1, <1>2, <1>3

\* A path is longer than the directories on the way to it, and is one element
\* longer than its parent.
LEMMA AncestorsShorter ==
  ASSUME NEW p \in Path
  PROVE  p \notin Ancestors(p) /\ Len(Parent(p)) = Len(p) - 1
<1>1. p \in Seq(Name) /\ Len(p) \in Nat /\ Len(p) >= 2
  BY AncestorsInDir
<1>2. \A i \in 1 .. Len(p) - 1 : Len(SubSeq(p, 1, i)) = i
  BY <1>1
<1> QED
  BY <1>1, <1>2 DEF Ancestors, Parent

\* The walk to p enters every directory on the way: each is the parent of
\* another one, or of p.
LEMMA WalkEnters ==
  ASSUME NEW p \in Path, NEW d \in Ancestors(p)
  PROVE  \E x \in Ancestors(p) \cup {p} : Parent(x) = d
<1>1. p \in Seq(Name) /\ Len(p) \in Nat
  BY AncestorsInDir
<1>2. PICK i \in 1 .. Len(p) - 1 : d = SubSeq(p, 1, i)
  BY DEF Ancestors
<1>3. CASE i = Len(p) - 1
  BY <1>2, <1>3 DEF Parent
<1>4. CASE i < Len(p) - 1
  <2> DEFINE x == SubSeq(p, 1, i + 1)
  <2>1. x \in Ancestors(p)
    <3>1. i + 1 \in 1 .. Len(p) - 1
      BY <1>1, <1>4
    <3> QED
      BY <3>1 DEF Ancestors
  <2>2. x \in Seq(Name) /\ Len(x) = i + 1
    BY <1>1, <1>2, <1>4
  <2>3. Parent(x) = SubSeq(p, 1, i)
    BY <1>1, <1>2, <1>4, <2>2 DEF Parent
  <2> QED
    BY <1>2, <2>1, <2>3
<1> QED
  BY <1>1, <1>2, <1>3, <1>4

\* Storing a file adds to every count what it adds to the directory, and at
\* least one to that of a directory it creates.
LEMMA StoreCover ==
  ASSUME TypeOK, TreeReachable, CoverInv,
         NEW o \in Owner, NEW p \in Path, NEW h \in Hash, Store(p, h, o)
  PROVE  CoverInv'
<1>1. /\ dirs' = dirs \cup Ancestors(p)
      /\ files' = [files EXCEPT ![p] = h]
      /\ files \in [Path -> Hash \cup {None}]
      /\ h # None
  BY ContentAssumption DEF Store, MakeDirs, TypeOK
<1>2. IsFiniteSet(dirs')
  BY <1>1, AncestorsFinite, FS_Union DEF CoverInv
<1>3. ASSUME NEW d \in Dir
      PROVE  /\ Covers(refs'[d], d, Children(d)', FilesIn(d)')
             /\ d \in dirs' => refs'[d] > 0
  <2> DEFINE C  == Children(d)
             C2 == {x \in dirs' : Parent(x) = d}
             F  == FilesIn(d)
             F2 == {q \in Path : files'[q] # None /\ Parent(q) = d}
             N  == {x \in NewEntries(p) : Parent(x) = d}
  <2>1. Children(d)' = C2 /\ FilesIn(d)' = F2
    BY DEF Children, FilesIn, Parent
  <2>2. refs'[d] = refs[d] + Cardinality(N) /\ refs[d] \in Int
    BY DEF Store, TypeOK
  <2>3. IsFiniteSet(C2) /\ IsFiniteSet(F2)
    BY <1>2, EntriesFinite
  <2>4. C \in SUBSET C2 /\ F \in SUBSET F2
    BY <1>1 DEF Children, FilesIn
  <2>5. C2 \ C = {x \in Ancestors(p) \ dirs : Parent(x) = d}
    BY <1>1 DEF Children
  <2>6. F2 \ F = {x \in {p} : files[p] = None /\ Parent(x) = d}
    BY <1>1 DEF FilesIn
  <2>7. N = (C2 \ C) \cup (F2 \ F)
    <3>1. \A x : x \in NewEntries(p)
                   <=> x \in Ancestors(p) \ dirs \/ (x = p /\ files[p] = None)
      BY DEF NewEntries
    <3> QED
      BY <2>5, <2>6, <3>1
  <2>8. (C2 \ C) \cap (F2 \ F) = {}
    BY <2>5, <2>6, AncestorsShorter
  <2>9. d \in dirs' \ dirs => N # {}
    <3> SUFFICES ASSUME d \in Ancestors(p), d \notin dirs
                 PROVE  N # {}
      BY <1>1
    <3>1. PICK x \in Ancestors(p) \cup {p} : Parent(x) = d
      BY WalkEnters
    <3>2. d # Root
      BY AncestorsInDir
    <3>3. x \in Ancestors(p) => x \notin dirs
      BY <3>1, <3>2 DEF TreeReachable
    <3>4. files[p] = None
      BY DEF TreeReachable
    <3>5. x \in NewEntries(p)
      BY <3>1, <3>3, <3>4 DEF NewEntries
    <3> QED
      BY <3>1, <3>5
  <2>10. Covers(refs[d], d, C, F) /\ (d \in dirs => refs[d] > 0)
    BY DEF CoverInv
  <2> HIDE DEF C, C2, F, F2, N
  <2>11. /\ Cardinality(C) \in Nat /\ Cardinality(F) \in Nat
         /\ Cardinality(N) \in Nat
         /\ Cardinality(C2) + Cardinality(F2)
              = Cardinality(C) + Cardinality(F) + Cardinality(N)
    <3>1. /\ IsFiniteSet(C2 \ C)
          /\ Cardinality(C2) \in Nat /\ Cardinality(C) \in Nat
          /\ Cardinality(C2 \ C) \in Nat
          /\ Cardinality(C2) = Cardinality(C) + Cardinality(C2 \ C)
      BY <2>3, <2>4, PartAndRest
    <3>2. /\ IsFiniteSet(F2 \ F)
          /\ Cardinality(F2) \in Nat /\ Cardinality(F) \in Nat
          /\ Cardinality(F2 \ F) \in Nat
          /\ Cardinality(F2) = Cardinality(F) + Cardinality(F2 \ F)
      BY <2>3, <2>4, PartAndRest
    <3>3. Cardinality(N) = Cardinality(C2 \ C) + Cardinality(F2 \ F)
      BY <2>7, <2>8, <3>1, <3>2, DisjointAdds
    <3> QED
      BY <3>1, <3>2, <3>3
  <2>12. Cardinality(C2) \in Nat /\ Cardinality(F2) \in Nat
    BY <2>3, FS_CardinalityType
  <2>13. Covers(refs'[d], d, C2, F2)
    BY <2>2, <2>10, <2>11, <2>12 DEF Covers
  <2>14. d \in dirs' => refs'[d] > 0
    <3>1. CASE d \in dirs
      BY <2>2, <2>10, <2>11, <3>1
    <3>2. CASE d \in dirs' \ dirs
      <4>1. IsFiniteSet(N)
        BY <2>3, <2>7, FS_Subset, FS_Union
      <4>2. Cardinality(N) > 0
        BY <2>9, <2>11, <3>2, <4>1, FS_EmptySet
      <4> QED
        BY <2>2, <2>10, <2>11, <4>2 DEF Covers
    <3> QED
      BY <3>1, <3>2
  <2> QED
    BY <2>1, <2>13, <2>14
<1>4. dirs' \subseteq Dir
  BY StoreType
<1> QED
  BY <1>2, <1>3, <1>4 DEF CoverInv, Covers

\* Removing files takes from the count of a user's own directory the files it
\* loses, and leaves at least one; deeper directories keep their counts.
LEMMA RemoveCover ==
  ASSUME TypeOK, CoverInv, NEW o \in Owner, NEW P \in SUBSET Path, Remove(P, o)
  PROVE  CoverInv'
<1>1. /\ dirs' = dirs
      /\ files' = [p \in Path |-> IF p \in P THEN None ELSE files[p]]
      /\ ~Panics(P)
  BY DEF Remove
<1>2. ASSUME NEW d \in Dir
      PROVE  /\ Covers(refs'[d], d, Children(d)', FilesIn(d)')
             /\ d \in dirs => refs'[d] > 0
  <2> DEFINE C  == Children(d)
             F  == FilesIn(d)
             F2 == {q \in Path : files'[q] # None /\ Parent(q) = d}
             U  == Unreferenced(P, d)
  <2>1. Children(d)' = C /\ FilesIn(d)' = F2
    BY <1>1 DEF Children, FilesIn, Parent
  <2>2. refs'[d] = refs[d] - Cardinality(U) /\ refs[d] \in Int
    BY DEF Remove, TypeOK
  <2>3. /\ IsFiniteSet(F) /\ Cardinality(F) \in Nat
        /\ IsFiniteSet(U) /\ Cardinality(U) \in Nat
        /\ IsFiniteSet(F2) /\ Cardinality(F2) \in Nat
        /\ Cardinality(C) \in Nat
    <3>1. F \in SUBSET Path /\ U \in SUBSET Path /\ F2 \in SUBSET Path
      BY DEF FilesIn, Unreferenced
    <3>2. IsFiniteSet(dirs) /\ C \in SUBSET dirs
      BY DEF CoverInv, Children
    <3> QED
      BY <3>1, <3>2, PathsFinite, EntriesFinite
  <2>4. F2 = F \ P
    BY <1>1 DEF FilesIn
  <2>5. \A q \in Path : Len(q) \in Nat /\ Len(q) >= 2 /\ Len(Parent(q)) = Len(q) - 1
    BY AncestorsInDir, AncestorsShorter
  <2>6. U \subseteq F \cap P
    BY DEF Unreferenced, FilesIn
  <2>7. Len(d) <= 1 \/ U # {} => U = F \cap P
    <3> SUFFICES ASSUME Len(d) <= 1 \/ U # {}, NEW q \in F \cap P
                 PROVE  q \in U
      BY <2>6
    <3>1. q \in Path /\ files[q] # None /\ Parent(q) = d
      BY DEF FilesIn
    <3>2. U # {} => Len(d) = 1
      <4> SUFFICES ASSUME NEW u \in U
                   PROVE  Len(d) = 1
        OBVIOUS
      <4>1. u \in Path /\ Len(u) = 2 /\ Parent(u) = d
        BY DEF Unreferenced
      <4>2. Len(Parent(u)) = Len(u) - 1
        BY <2>5, <4>1
      <4> QED
        BY <4>1, <4>2
    <3>3. Len(q) = 2
      <4>1. Len(Parent(q)) = Len(q) - 1 /\ Len(q) \in Nat /\ Len(q) >= 2
        BY <2>5, <3>1
      <4> HIDE DEF U
      <4> QED
        BY <3>1, <3>2, <4>1
    <3> QED
      BY <3>1, <3>3 DEF Unreferenced
  <2>8. U # {} => refs[d] > Cardinality(U)
    <3> SUFFICES ASSUME NEW u \in U
                 PROVE  refs[d] > Cardinality(U)
      OBVIOUS
    <3>1. u \in P /\ Parent(u) = d
      BY DEF Unreferenced
    <3> QED
      BY <1>1, <2>2, <2>3, <3>1 DEF Panics
  <2>9. Covers(refs[d], d, C, F) /\ (d \in dirs => refs[d] > 0)
    BY DEF CoverInv
  <2> HIDE DEF C, F, F2, U
  <2>10. Cardinality(F2) = Cardinality(F) - Cardinality(F \cap P)
    BY <2>3, <2>4, FS_Difference
  <2>11. CASE U # {}
    <3>1. Cardinality(F2) = Cardinality(F) - Cardinality(U)
      BY <2>7, <2>10, <2>11
    <3> QED
      BY <2>1, <2>2, <2>3, <2>8, <2>9, <2>11, <3>1 DEF Covers
  <2>12. CASE U = {}
    <3>1. Cardinality(U) = 0
      BY <2>12, FS_EmptySet
    <3>2. Cardinality(F2) <= Cardinality(F)
      BY <2>3, <2>4, FS_Subset
    <3>3. Len(d) <= 1 => F2 = F
      BY <2>4, <2>7, <2>12
    <3> QED
      BY <2>1, <2>2, <2>3, <2>9, <3>1, <3>2, <3>3 DEF Covers
  <2> QED
    BY <2>11, <2>12
<1>3. dirs \subseteq Dir
  BY DEF TypeOK
<1> QED
  BY <1>1, <1>2, <1>3 DEF CoverInv, Covers

\* The empty tree is covered.
LEMMA EmptyCover ==
  ASSUME dirs = {}, files = NoFiles, refs = NoRefs
  PROVE  CoverInv
<1>1. \A d \in Dir : Children(d) = {} /\ FilesIn(d) = {} /\ refs[d] = 0
  BY DEF Children, FilesIn, NoFiles, NoRefs
<1>2. IsFiniteSet({}) /\ Cardinality({}) = 0
  BY FS_EmptySet
<1>3. ASSUME NEW d \in Dir
      PROVE  Covers(refs[d], d, Children(d), FilesIn(d))
  <2>1. refs[d] = 0 /\ Cardinality(Children(d)) = 0 /\ Cardinality(FilesIn(d)) = 0
    BY <1>1, <1>2
  <2> QED
    BY <2>1 DEF Covers
<1> QED
  BY <1>2, <1>3 DEF CoverInv

\* So is the one a crash leaves.
LEMMA CrashCover ==
  ASSUME Crash
  PROVE  CoverInv'
<1>1. \A d \in Dir : Children(d)' = {} /\ FilesIn(d)' = {} /\ refs'[d] = 0
  BY DEF Crash, Children, FilesIn, NoFiles, NoRefs
<1>2. IsFiniteSet({}) /\ Cardinality({}) = 0
  BY FS_EmptySet
<1>3. ASSUME NEW d \in Dir
      PROVE  Covers(refs'[d], d, Children(d)', FilesIn(d)')
  <2>1. refs'[d] = 0 /\ Cardinality(Children(d)') = 0 /\ Cardinality(FilesIn(d)') = 0
    BY <1>1, <1>2
  <2> QED
    BY <2>1 DEF Covers
<1> QED
  BY <1>2, <1>3 DEF Crash, CoverInv

\* A step that leaves the tree alone keeps it covered.
LEMMA UnchangedCover ==
  ASSUME CoverInv, UNCHANGED tree
  PROVE  CoverInv'
BY DEF CoverInv, Covers, Children, FilesIn, tree

\* Every action keeps the tree covered.
LEMMA CoverStep ==
  ASSUME TypeOK, TreeReachable, CoverInv, [Next]_vars
  PROVE  CoverInv'
<1>1. ASSUME NEW o \in Owner, NEW p \in PathsOf(o), NEW h \in Content[p],
             SetFile(o, p, h)
      PROVE  CoverInv'
  <2>1. p \in Path /\ h \in Hash
    BY ContentAssumption DEF PathsOf
  <2> QED
    BY <1>1, <2>1, StoreCover DEF SetFile
<1>2. ASSUME NEW o \in Owner, NEW p \in PathsOf(o), DeleteFile(o, p)
      PROVE  CoverInv'
  <2>1. {p} \in SUBSET Path
    BY DEF PathsOf
  <2> QED
    BY <1>2, <2>1, RemoveCover, CrashCover DEF DeleteFile
<1>3. ASSUME NEW o \in Owner, PeerDisconnected(o)
      PROVE  CoverInv'
  BY <1>3, DestroyedPaths, RemoveCover, CrashCover DEF PeerDisconnected
<1>4. ASSUME NEW r \in Reader, NEW o \in Owner, NEW p \in Path, MapRace(r, o, p)
      PROVE  CoverInv'
  BY <1>4, CrashCover DEF MapRace
<1>5. CASE UNCHANGED tree
  BY <1>5, UnchangedCover
<1> QED
  BY <1>1, <1>2, <1>3, <1>4, <1>5
  DEF Next, GetDir, GetDirEncoded, Restart, vars

\* No directory's reference count ever drops below the number of its entries;
\* that of the root and of the users' own directories is exactly it; and no
\* directory of the tree is without a reference.
THEOREM RefsAlwaysCover == Spec => []RefsCover
<1>1. Init => CoverInv
  BY EmptyCover DEF Init
<1>2. TypeOK /\ TreeReachable /\ CoverInv /\ [Next]_vars => CoverInv'
  BY CoverStep
<1>3. ASSUME TypeOK, CoverInv, Root \in Dir
      PROVE  RefsCover
  BY <1>3 DEF RefsCover, CoverInv, Covers, TypeOK
<1>4. Root \in Dir
  BY DEF Dir
<1>5. TypeOK /\ CoverInv => RefsCover
  BY <1>3, <1>4
<1> QED
  BY <1>1, <1>2, <1>5, TypeCorrect, ShapeCorrect, PTL DEF Spec
=============================================================================
