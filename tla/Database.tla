------------------------------ MODULE Database ------------------------------
(***************************************************************************)
(* What the master promises about the files its peers publish, whichever   *)
(* of the three databases (in memory, bolt, sqlite) it is built with.      *)
(*                                                                         *)
(* An owner is a peer's ident, "user@address" (src/master.go:148).  A path *)
(* is the sequence of names the master passes to Database.SetFile: the     *)
(* owner's user name followed by the parts of the file name                *)
(* (src/master.go:159), so a path has at least two parts.  A FileInfo is   *)
(* represented by its hash; None is the nil FileInfo of a deletion.        *)
(*                                                                         *)
(* The variable `shared' is the abstract state: what every owner has       *)
(* published and neither deleted nor lost by disconnecting.  The database  *)
(* modules extend this one: each of their actions is an abstract action    *)
(* together with what the code does to its own data structures, and their  *)
(* properties compare the two.                                             *)
(***************************************************************************)
EXTENDS Integers, Sequences, FiniteSets

CONSTANTS Owner,    \* idents of the peers
          Name,     \* names of users, directories and files
          User,     \* user names
          UserOf,   \* UserOf[o]: the user an ident belongs to
          Path,     \* the paths that can be published
          Hash,     \* hashes of file contents
          Content,  \* Content[p]: the hashes the file at p can have
          None      \* no file, no directory

VARIABLE shared     \* shared[o][p]: the hash o publishes at p, or None

Parent(p) == SubSeq(p, 1, Len(p) - 1)

\* The directories on the way to p, the user's own directory first.
Ancestors(p) == {SubSeq(p, 1, i) : i \in 1 .. Len(p) - 1}

Root == << >>

Dir == {Root} \cup UNION {Ancestors(p) : p \in Path}

ASSUME UserAssumption == UserOf \in [Owner -> User] /\ User \subseteq Name

ASSUME PathAssumption ==
  /\ IsFiniteSet(Path)
  /\ Path \subseteq Seq(Name)
  /\ \A p \in Path : Len(p) >= 2 /\ p[1] \in User

ASSUME ContentAssumption ==
  /\ Content \in [Path -> SUBSET Hash]
  /\ None \notin Hash
  /\ None \notin Dir

\* The paths the master lets o write: its own user's.
PathsOf(o) == {p \in Path : p[1] = UserOf[o]}

\* Every user runs one machine only: a path has one possible owner.
OnePerUser == \A o1, o2 \in Owner : UserOf[o1] = UserOf[o2] => o1 = o2

\* No other user has a file with a content that o's user can have.
Private(o) ==
  \A p \in PathsOf(o), q \in Path \ PathsOf(o) : Content[p] \cap Content[q] = {}

-----------------------------------------------------------------------------
NothingShared == [o \in Owner |-> [p \in Path |-> None]]

\* SetFile with a FileInfo, and with nil.
Offer(o, p, h)  == shared' = [shared EXCEPT ![o][p] = h]
Withdraw(o, p)  == shared' = [shared EXCEPT ![o][p] = None]

\* PeerDisconnected.
Forget(o) == shared' = [shared EXCEPT ![o] = [p \in Path |-> None]]

\* The answer GetOwners(h) promises.
OwnersOf(h) == {o \in Owner : \E p \in Path : shared[o][p] = h}

SharedTypeOK ==
  shared \in [Owner -> [Path -> Hash \cup {None}]]
=============================================================================
