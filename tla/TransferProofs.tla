--------------------------- MODULE TransferProofs ---------------------------
(***************************************************************************)
(* Proofs about Transfer for any peers, paths, owners and handles, and any *)
(* number of faults.                                                       *)
(***************************************************************************)
EXTENDS Transfer, TLAPS

\* The places of realFetch, and all places of a handle.
Fetching == {"lookup", "dial", "recall", "lost", "sent", "range", "failed"}
Places   == {"closed", "find", "newpeer", "ping", "shaken", "idle"} \cup Fetching

Handles == [pc : Places, peers : Seq(Peer), i : Nat \ {0}, found : BOOLEAN,
            must : SUBSET Path, seen : SUBSET Path]

\* The types.  A handle that is not closed is at one of its owners.
AtOwner(r) == r.pc # "closed" => r.i \in 1 .. Len(r.peers)

PeerType ==
  /\ up \subseteq Peer
  /\ disk \in [Peer -> SUBSET Path]
  /\ other \in [Peer -> SUBSET Path]
  /\ paths \in [Peer -> SUBSET Path]
  /\ known \subseteq Peer
  /\ conn \in [Peer -> {"open", "cut", "shut"}]

HandleType ==
  /\ handle \in [Handle -> Handles]
  /\ \A h \in Handle : AtOwner(handle[h])
  /\ stable \in [Handle -> [Peer -> SUBSET Path]]

TypeInv == PeerType /\ HandleType

\* What a fetch can count on, s[p] for a peer p, is there: the peer is in reach,
\* the paths are in its index and on its disk, and no other entry of the index
\* leads to something else.
Sound(s) ==
  \A p \in Peer : s[p] # {} => /\ Reachable(p) /\ paths[p] \cap other[p] = {}
                               /\ s[p] \subseteq paths[p] \cap disk[p]

\* A fetch in state r has left behind only peers it could not count on.  At the
\* peer it has come to: a call was lost only to such a peer, a second attempt
\* finds an open connection, and the handler's iteration still has to produce
\* every path that can be counted on.
Progress(r, s) ==
  LET p == r.peers[r.i]
  IN  /\ \A j \in 1 .. Len(r.peers) : j < r.i => s[r.peers[j]] = {}
      /\ r.pc \in {"lost", "failed"} => s[p] = {}
      /\ r.pc = "failed" => r.i = Len(r.peers)
      /\ r.pc = "recall" /\ s[p] # {} => conn[p] = "open"
      /\ r.pc = "range" => s[p] \subseteq r.must

\* The inductive invariant.
FetchInv ==
  \A h \in Handle : handle[h].pc \in Fetching =>
    Sound(stable[h]) /\ Progress(handle[h], stable[h])

-----------------------------------------------------------------------------
(* Steps of one handle.                                                    *)

\* The fields of a handle.
LEMMA HandleFields ==
  ASSUME TypeInv, NEW h \in Handle
  PROVE  /\ handle[h] \in Handles /\ AtOwner(handle[h])
         /\ handle[h].pc # "closed" => This(h) \in Peer
<1>1. handle[h] \in Handles /\ AtOwner(handle[h])
  BY DEF TypeInv, HandleType
<1>2. ASSUME handle[h].pc # "closed"
      PROVE  This(h) \in Peer
  BY <1>1, <1>2 DEF AtOwner, Handles, This
<1> QED
  BY <1>1, <1>2

\* A handle takes a step of its own, connections are made and clients added: this
\* disturbs no other handle.
LEMMA OwnStep ==
  ASSUME TypeInv, FetchInv, NEW h \in Handle, NEW r \in Handles, AtOwner(r),
         handle' = [handle EXCEPT ![h] = r],
         up' = up, disk' = disk, other' = other, paths' = paths, stable' = stable,
         known \subseteq known', known' \subseteq Peer,
         conn' \in [Peer -> {"open", "cut", "shut"}],
         \A p \in Peer : conn'[p] \in {conn[p], "open"},
         r.pc \in Fetching => handle[h].pc \in Fetching /\ Progress(r, stable[h])'
  PROVE  TypeInv' /\ FetchInv'
<1>1. TypeInv'
  BY DEF TypeInv, PeerType, HandleType, AtOwner
<1>2. ASSUME NEW g \in Handle, handle[g].pc \in Fetching
      PROVE  Sound(stable[g])'
  <2>1. Sound(stable[g]) /\ stable[g] \in [Peer -> SUBSET Path]
    BY <1>2 DEF FetchInv, TypeInv, HandleType
  <2>2. \A p \in Peer : Reachable(p) => Reachable(p)'
    BY DEF Reachable
  <2> QED
    BY <2>1, <2>2 DEF Sound
<1>3. ASSUME NEW g \in Handle, g # h, handle'[g].pc \in Fetching
      PROVE  Progress(handle[g], stable[g])' /\ handle[g].pc \in Fetching
  <2>1. handle'[g] = handle[g]
    BY <1>3 DEF TypeInv, HandleType
  <2>2. Progress(handle[g], stable[g]) /\ handle[g] \in Handles /\ This(g) \in Peer
    BY <1>3, <2>1, HandleFields DEF FetchInv, Fetching
  <2> QED
    BY <1>3, <2>1, <2>2 DEF Progress, This
<1>4. handle'[h] = r
  BY DEF TypeInv, HandleType
<1> QED
  BY <1>1, <1>2, <1>3, <1>4 DEF FetchInv

\* The same when neither a client nor a connection changes.
LEMMA QuietStep ==
  ASSUME TypeInv, FetchInv, NEW h \in Handle, NEW r \in Handles, AtOwner(r),
         handle' = [handle EXCEPT ![h] = r], UNCHANGED <<peers, fetcher, stable>>,
         r.pc \in Fetching => handle[h].pc \in Fetching /\ Progress(r, stable[h])
  PROVE  TypeInv' /\ FetchInv'
<1>1. /\ up' = up /\ disk' = disk /\ other' = other /\ paths' = paths /\ stable' = stable
      /\ known' = known /\ conn' = conn
  BY DEF peers, fetcher
<1>2. Progress(r, stable[h]) => Progress(r, stable[h])'
  BY <1>1 DEF Progress
<1>3. known \subseteq known' /\ known' \subseteq Peer
  BY <1>1 DEF TypeInv, PeerType
<1>4. conn' \in [Peer -> {"open", "cut", "shut"}] /\ \A p \in Peer : conn'[p] \in {conn[p], "open"}
  BY <1>1 DEF TypeInv, PeerType
<1> QED
  BY <1>1, <1>2, <1>3, <1>4, OwnStep

\* realFetch may go on to the next peer, or fail, if it could not count on the
\* one it has come to.
LEMMA NextPeerKeeps ==
  ASSUME TypeInv, FetchInv, NEW h \in Handle, handle[h].pc \in Fetching, NextPeer(h),
         stable[h][This(h)] = {}, UNCHANGED <<peers, fetcher, stable>>
  PROVE  TypeInv' /\ FetchInv'
<1> DEFINE o == handle[h]
           r == IF o.i < Len(o.peers)
                THEN [o EXCEPT !.pc = "lookup", !.must = {}, !.seen = {}, !.i = @ + 1]
                ELSE [o EXCEPT !.pc = "failed", !.must = {}, !.seen = {}]
<1>1. o \in Handles /\ o.i \in 1 .. Len(o.peers) /\ Len(o.peers) \in Nat
  BY HandleFields DEF AtOwner, Fetching, Handles
<1>2. handle' = [handle EXCEPT ![h] = r]
  BY <1>1 DEF NextPeer, Between, Handles
<1>3. /\ r \in Handles /\ r.peers = o.peers /\ r.pc \in {"lookup", "failed"}
      /\ r.pc = "lookup" => r.i = o.i + 1 /\ o.i < Len(o.peers)
      /\ r.pc = "failed" => r.i = o.i /\ o.i = Len(o.peers)
  <2> DEFINE x == [o EXCEPT !.pc = "lookup", !.must = {}, !.seen = {}, !.i = @ + 1]
             y == [o EXCEPT !.pc = "failed", !.must = {}, !.seen = {}]
  <2>0. o.i \in Nat /\ o.i + 1 \in Nat \ {0}
    BY <1>1
  <2> HIDE DEF o
  <2>1. x \in Handles /\ x.peers = o.peers /\ x.pc = "lookup" /\ x.i = o.i + 1
    BY <1>1, <2>0 DEF Handles, Places, Fetching
  <2>2. y \in Handles /\ y.peers = o.peers /\ y.pc = "failed" /\ y.i = o.i
    BY <1>1 DEF Handles, Places, Fetching
  <2>3. r = IF o.i < Len(o.peers) THEN x ELSE y
    OBVIOUS
  <2> HIDE DEF r, x, y
  <2>4. CASE o.i < Len(o.peers)
    BY <2>1, <2>3, <2>4
  <2>5. CASE ~(o.i < Len(o.peers))
    <3>1. o.i = Len(o.peers)
      BY <1>1, <2>5
    <3> QED
      BY <2>2, <2>3, <2>5, <3>1
  <2> QED
    BY <2>4, <2>5
<1>4. Progress(o, stable[h])
  BY DEF FetchInv
<1> HIDE DEF o, r
<1>5. AtOwner(r)
  BY <1>1, <1>3 DEF AtOwner
<1>6. stable[h][o.peers[o.i]] = {}
  BY DEF This, o
<1>7. Progress(r, stable[h])
  <2>1. ASSUME NEW j \in 1 .. Len(o.peers), j < r.i
        PROVE  stable[h][o.peers[j]] = {}
    <3>1. j < o.i \/ j = o.i
      BY <1>1, <1>3, <2>1
    <3> QED
      BY <1>4, <1>6, <3>1 DEF Progress
  <2> QED
    BY <1>3, <1>6, <2>1 DEF Progress
<1> QED
  BY <1>2, <1>3, <1>5, <1>7, QuietStep

\* It goes to another place at the same peer.
LEMMA GotoKeeps ==
  ASSUME TypeInv, FetchInv, NEW h \in Handle, handle[h].pc \in Fetching,
         NEW pc \in {"dial", "sent", "lost"}, Goto(h, pc),
         pc = "lost" => stable[h][This(h)] = {}, UNCHANGED <<peers, fetcher, stable>>
  PROVE  TypeInv' /\ FetchInv'
<1> DEFINE o == handle[h]
           r == [o EXCEPT !.pc = pc]
<1>1. o \in Handles /\ AtOwner(o)
  BY HandleFields
<1>2. handle' = [handle EXCEPT ![h] = r]
  BY DEF Goto
<1>3. r \in Handles /\ r.peers = o.peers /\ r.i = o.i /\ r.pc = pc
  BY <1>1 DEF Handles, Places, Fetching
<1>4. AtOwner(r)
  BY <1>1, <1>3 DEF AtOwner, Fetching
<1>5. Progress(r, stable[h])
  BY <1>3 DEF FetchInv, Progress, This
<1> QED
  BY <1>2, <1>3, <1>4, <1>5, QuietStep

\* A closed handle is a handle.
LEMMA ClosedType == Closed \in Handles /\ Closed.pc = "closed"
<1>1. FALSE \in BOOLEAN /\ 1 \in Nat \ {0} /\ "closed" \in Places /\ << >> \in Seq(Peer)
  BY DEF Places
<1> QED
  BY <1>1 DEF Closed, Handles

\* NewHandle goes on to the next owner, or is done: no fetch has begun.
LEMMA NextOwnerKeeps ==
  ASSUME TypeInv, NEW h \in Handle, handle[h].pc # "closed", NEW b \in BOOLEAN,
         NextOwner(h, b)
  PROVE  \E r \in Handles :
           /\ handle' = [handle EXCEPT ![h] = r]
           /\ AtOwner(r)
           /\ r.pc \notin Fetching
<1> DEFINE o == handle[h]
           f == o.found \/ b
           x == [o EXCEPT !.pc = "find", !.found = f, !.i = @ + 1]
           y == [o EXCEPT !.pc = "idle", !.found = FALSE, !.i = 1]
           r == IF o.i # Len(o.peers) THEN x ELSE IF f THEN y ELSE Closed
<1>1. o \in Handles /\ o.i \in 1 .. Len(o.peers) /\ Len(o.peers) \in Nat
  BY HandleFields DEF AtOwner, Handles
<1>2. handle' = [handle EXCEPT ![h] = r]
  BY DEF NextOwner
<1>3. o.i + 1 \in Nat \ {0} /\ (o.i # Len(o.peers) => o.i + 1 \in 1 .. Len(o.peers))
      /\ 1 \in 1 .. Len(o.peers)
  BY <1>1
<1>4. f \in BOOLEAN
  BY <1>1 DEF Handles
<1> HIDE DEF o, f
<1>5. x \in Handles /\ x.pc = "find" /\ x.i = o.i + 1 /\ x.peers = o.peers
  BY <1>1, <1>3, <1>4 DEF Handles, Places
<1>6. y \in Handles /\ y.pc = "idle" /\ y.i = 1 /\ y.peers = o.peers
  <2>1. FALSE \in BOOLEAN /\ 1 \in Nat \ {0} /\ "idle" \in Places
    BY DEF Places
  <2> QED
    BY <1>1, <2>1, Zenon DEF Handles
<1>7. Closed \in Handles /\ Closed.pc = "closed"
  BY ClosedType
<1> HIDE DEF x, y
<1>8. r \in Handles /\ AtOwner(r) /\ r.pc \notin Fetching
  BY <1>3, <1>5, <1>6, <1>7 DEF AtOwner, Fetching
<1> QED
  BY <1>2, <1>8

\* What goes on around the fetches takes from what they can count on, loses
\* calls to a peer nobody can count on any more, and leaves each fetch where it is.
LEMMA AroundStep ==
  ASSUME TypeInv, FetchInv, TypeInv',
         \A g \in Handle : handle'[g].pc \in Fetching =>
           /\ handle[g].pc \in Fetching
           /\ handle'[g].peers = handle[g].peers /\ handle'[g].i = handle[g].i
           /\ \A p \in Peer : stable'[g][p] \subseteq stable[g][p]
           /\ \/ handle'[g].pc = handle[g].pc
              \/ handle'[g].pc = "lost" /\ stable'[g][This(g)] = {}
           /\ handle'[g].pc = "range" => stable'[g][This(g)] \subseteq handle'[g].must
           /\ stable'[g][This(g)] # {} => conn'[This(g)] \in {conn[This(g)], "open"},
         \A g \in Handle : handle[g].pc \in Fetching => Sound(stable[g])'
  PROVE  FetchInv'
<1> SUFFICES ASSUME NEW g \in Handle, handle'[g].pc \in Fetching
             PROVE  Sound(stable[g])' /\ Progress(handle[g], stable[g])'
  BY DEF FetchInv
<1>1. /\ handle[g].pc \in Fetching
      /\ handle'[g].peers = handle[g].peers /\ handle'[g].i = handle[g].i
      /\ \A p \in Peer : stable'[g][p] \subseteq stable[g][p]
      /\ \/ handle'[g].pc = handle[g].pc
         \/ handle'[g].pc = "lost" /\ stable'[g][This(g)] = {}
      /\ handle'[g].pc = "range" => stable'[g][This(g)] \subseteq handle'[g].must
      /\ stable'[g][This(g)] # {} => conn'[This(g)] \in {conn[This(g)], "open"}
      /\ Sound(stable[g])'
  OBVIOUS
<1>2. Progress(handle[g], stable[g]) /\ This(g) \in Peer /\ handle[g] \in Handles
  BY <1>1, HandleFields DEF FetchInv, Fetching
<1>3. \A j \in 1 .. Len(handle[g].peers) : handle[g].peers[j] \in Peer
  BY <1>2 DEF Handles
<1>4. Progress(handle[g], stable[g])'
  <2> DEFINE r == handle[g]
             q == This(g)
             t == handle'[g]
  <2>1. \A j \in 1 .. Len(r.peers) : j < r.i => stable'[g][r.peers[j]] = {}
    BY <1>1, <1>2, <1>3 DEF Progress
  <2>2. t.pc \in {"lost", "failed"} => stable'[g][q] = {}
    BY <1>1, <1>2 DEF Progress, This
  <2>3. t.pc = "failed" => r.i = Len(r.peers)
    BY <1>1, <1>2 DEF Progress
  <2>4. t.pc = "recall" /\ stable'[g][q] # {} => conn'[q] = "open"
    BY <1>1, <1>2 DEF Progress, This
  <2>5. q = t.peers[t.i]
    BY <1>1 DEF This
  <2> QED
    BY <1>1, <2>1, <2>2, <2>3, <2>4, <2>5 DEF Progress
<1> QED
  BY <1>1, <1>4

-----------------------------------------------------------------------------
(* The steps of the specification.                                         *)

\* NewHandle, which asks no peer for anything yet.
LEMMA NewHandleStep ==
  ASSUME TypeInv, FetchInv, NEW h \in Handle,
         NewHandle(h) \/ FindPeer(h) \/ NewPeer(h)
  PROVE  TypeInv' /\ FetchInv'
<1>1. UNCHANGED <<peers, fetcher, stable>>
  BY DEF NewHandle, FindPeer, NewPeer
<1>2. ASSUME NewHandle(h)
      PROVE  \E r \in Handles : /\ handle' = [handle EXCEPT ![h] = r]
                                /\ AtOwner(r)
                                /\ r.pc \notin Fetching
  <2>1. PICK o \in Owners :
          handle' = [handle EXCEPT ![h] = [Closed EXCEPT !.pc = "find", !.peers = o]]
    BY <1>2 DEF NewHandle
  <2> DEFINE r == [Closed EXCEPT !.pc = "find", !.peers = o]
  <2>2. o \in Seq(Peer) /\ o # << >>
    BY TransferAssumption
  <2>3. 1 \in 1 .. Len(o)
    BY <2>2
  <2>4. r.pc = "find" /\ r.peers = o /\ r.i = 1
    BY DEF Closed
  <2>5. r \in Handles
    BY <2>2, ClosedType DEF Handles, Places
  <2>6. AtOwner(r) /\ r.pc \notin Fetching
    BY <2>3, <2>4 DEF AtOwner, Fetching
  <2> QED
    BY <2>1, <2>5, <2>6
<1>3. ASSUME handle[h].pc \in {"find", "newpeer"}, NEW pc \in {"newpeer", "ping"}, Goto(h, pc)
      PROVE  \E r \in Handles : /\ handle' = [handle EXCEPT ![h] = r]
                                /\ AtOwner(r)
                                /\ r.pc \notin Fetching
  <2> DEFINE r == [handle[h] EXCEPT !.pc = pc]
  <2>1. handle[h] \in Handles /\ AtOwner(handle[h])
    BY HandleFields
  <2>2. r \in Handles /\ r.pc = pc /\ r.i = handle[h].i /\ r.peers = handle[h].peers
    BY <2>1 DEF Handles, Places
  <2>3. AtOwner(r) /\ r.pc \notin Fetching
    BY <1>3, <2>1, <2>2 DEF AtOwner, Fetching
  <2> QED
    BY <1>3, <2>2, <2>3 DEF Goto
<1>4. ASSUME FindPeer(h) \/ NewPeer(h)
      PROVE  \E r \in Handles : /\ handle' = [handle EXCEPT ![h] = r]
                                /\ AtOwner(r)
                                /\ r.pc \notin Fetching
  <2>1. handle[h].pc \in {"find", "newpeer"}
    BY <1>4 DEF FindPeer, NewPeer, At
  <2>2. \/ \E b \in BOOLEAN : NextOwner(h, b)
        \/ \E pc \in {"newpeer", "ping"} : Goto(h, pc)
    BY <1>4 DEF FindPeer, NewPeer
  <2> QED
    BY <1>3, <2>1, <2>2, NextOwnerKeeps
<1>5. PICK r \in Handles : /\ handle' = [handle EXCEPT ![h] = r]
                           /\ AtOwner(r)
                           /\ r.pc \notin Fetching
  BY <1>2, <1>4
<1> QED
  BY <1>1, <1>5, QuietStep

\* The new client of a peer has a sound connection, or nobody counts on that
\* peer any more.
LEMMA AddPeerStep ==
  ASSUME TypeInv, FetchInv, NEW h \in Handle, AddPeer(h)
  PROVE  TypeInv' /\ FetchInv'
<1> DEFINE p == This(h)
<1>1. handle[h].pc \in {"ping", "shaken"} /\ p \in Peer
  BY HandleFields DEF AddPeer
<1>2. PICK r \in Handles : /\ handle' = [handle EXCEPT ![h] = r]
                           /\ AtOwner(r)
                           /\ r.pc \notin Fetching
  BY <1>1, NextOwnerKeeps DEF AddPeer
<1>3. up' = up /\ disk' = disk /\ other' = other /\ paths' = paths /\ known' = known \cup {p}
  BY DEF AddPeer, peers
<1>4. CASE conn' = [conn EXCEPT ![p] = "open"] /\ stable' = stable
  <2>1. /\ conn' \in [Peer -> {"open", "cut", "shut"}]
        /\ \A q \in Peer : conn'[q] \in {conn[q], "open"}
    BY <1>1, <1>4 DEF TypeInv, PeerType
  <2>2. known \subseteq known' /\ known' \subseteq Peer
    BY <1>1, <1>3 DEF TypeInv, PeerType
  <2> QED
    BY <1>2, <1>3, <1>4, <2>1, <2>2, OwnStep
<1>5. ASSUME NEW c \in {"cut", "shut"}, conn' = [conn EXCEPT ![p] = c],
             stable' = [g \in Handle |-> [stable[g] EXCEPT ![p] = {}]]
      PROVE  TypeInv' /\ FetchInv'
  <2>1. stable' \in [Handle -> [Peer -> SUBSET Path]]
    BY <1>5 DEF TypeInv, HandleType
  <2>2. TypeInv'
    BY <1>1, <1>2, <1>3, <1>5, <2>1 DEF TypeInv, PeerType, HandleType
  <2>3. ASSUME NEW g \in Handle
        PROVE  /\ stable'[g][p] = {}
               /\ \A q \in Peer : q # p => stable'[g][q] = stable[g][q] /\ conn'[q] = conn[q]
    BY <1>1, <1>5 DEF TypeInv, PeerType, HandleType
  <2>4. ASSUME NEW g \in Handle, handle'[g].pc \in Fetching
        PROVE  handle'[g] = handle[g] /\ This(g) \in Peer /\ Progress(handle[g], stable[g])
    <3>1. g # h /\ handle'[g] = handle[g]
      BY <1>2, <2>4 DEF TypeInv, HandleType
    <3> QED
      BY <2>4, <3>1, HandleFields DEF FetchInv, Fetching
  <2>5. ASSUME NEW g \in Handle, handle[g].pc \in Fetching
        PROVE  Sound(stable[g])'
    <3>1. Sound(stable[g])
      BY <2>5 DEF FetchInv
    <3> QED
      BY <1>3, <2>3, <3>1 DEF Sound, Reachable
  <2>6. ASSUME NEW g \in Handle, handle'[g].pc \in Fetching
        PROVE  /\ handle'[g] = handle[g]
               /\ \A q \in Peer : stable'[g][q] \subseteq stable[g][q]
               /\ handle'[g].pc = "range" => stable'[g][This(g)] \subseteq handle'[g].must
               /\ stable'[g][This(g)] # {} => conn'[This(g)] \in {conn[This(g)], "open"}
    <3>1. handle'[g] = handle[g] /\ This(g) \in Peer /\ Progress(handle[g], stable[g])
      BY <2>4, <2>6
    <3>2. \A q \in Peer : stable'[g][q] \subseteq stable[g][q]
      BY <2>3
    <3>3. stable'[g][This(g)] # {} => conn'[This(g)] = conn[This(g)]
      BY <2>3, <3>1
    <3>4. handle[g].pc = "range" => stable[g][This(g)] \subseteq handle[g].must
      BY <3>1 DEF Progress, This
    <3> QED
      BY <3>1, <3>2, <3>3, <3>4
  <2> QED
    BY <2>2, <2>5, <2>6, AroundStep
<1> QED
  BY <1>4, <1>5 DEF AddPeer

\* All handles are closed when the runtime aborts the process.
LEMMA MapRaceStep ==
  ASSUME TypeInv, NEW h \in Handle, NEW g \in Handle, MapRace(h, g)
  PROVE  TypeInv' /\ FetchInv'
<1>1. Closed \in Handles /\ Closed.pc = "closed"
  BY ClosedType
<1>2. handle' = [x \in Handle |-> Closed] /\ known' = {} /\ UNCHANGED <<peers, conn, stable>>
  BY DEF MapRace
<1>3. TypeInv'
  BY <1>1, <1>2 DEF TypeInv, PeerType, HandleType, AtOwner, peers
<1> QED
  BY <1>1, <1>2, <1>3 DEF FetchInv, Fetching

\* A fetch begins or ends: what it can count on is set anew.
LEMMA FreshStep ==
  ASSUME TypeInv, FetchInv, NEW h \in Handle, NEW r \in Handles, AtOwner(r),
         NEW s \in [Peer -> SUBSET Path],
         handle' = [handle EXCEPT ![h] = r], stable' = [stable EXCEPT ![h] = s],
         UNCHANGED <<peers, fetcher>>,
         r.pc \in Fetching => Sound(s) /\ Progress(r, s)
  PROVE  TypeInv' /\ FetchInv'
<1>1. /\ up' = up /\ disk' = disk /\ other' = other /\ paths' = paths /\ known' = known /\ conn' = conn
  BY DEF peers, fetcher
<1>2. TypeInv'
  BY <1>1 DEF TypeInv, PeerType, HandleType
<1>3. /\ handle'[h] = r /\ stable'[h] = s
      /\ \A g \in Handle : g # h => handle'[g] = handle[g] /\ stable'[g] = stable[g]
  BY DEF TypeInv, HandleType
<1>4. ASSUME NEW g \in Handle, handle'[g].pc \in Fetching
      PROVE  Sound(stable'[g]) /\ Progress(handle'[g], stable'[g])
  BY <1>3, <1>4 DEF FetchInv
<1>5. ASSUME NEW g \in Handle, Sound(stable'[g]), Progress(handle'[g], stable'[g])
      PROVE  Sound(stable[g])' /\ Progress(handle[g], stable[g])'
  BY <1>1, <1>5 DEF Sound, Progress, Reachable
<1> QED
  BY <1>2, <1>4, <1>5 DEF FetchInv

LEMMA BeginStep ==
  ASSUME TypeInv, FetchInv, NEW h \in Handle, Begin(h)
  PROVE  TypeInv' /\ FetchInv'
<1> DEFINE o == handle[h]
           r == [o EXCEPT !.pc = "lookup", !.i = 1]
           s == [p \in Peer |-> IF Reachable(p) /\ Clean(p) THEN paths[p] \cap disk[p] ELSE {}]
<1>1. o \in Handles /\ o.i \in 1 .. Len(o.peers) /\ Len(o.peers) \in Nat
  BY HandleFields DEF Begin, At, AtOwner, Handles
<1>2. /\ handle' = [handle EXCEPT ![h] = r] /\ stable' = [stable EXCEPT ![h] = s]
      /\ UNCHANGED <<peers, fetcher>>
  BY DEF Begin
<1>3. r \in Handles /\ r.pc = "lookup" /\ r.i = 1 /\ r.peers = o.peers
  <2>1. 1 \in Nat \ {0} /\ "lookup" \in Places
    BY DEF Places, Fetching
  <2> QED
    BY <1>1, <2>1, Zenon DEF Handles
<1>4. AtOwner(r)
  BY <1>1, <1>3 DEF AtOwner
<1>5. s \in [Peer -> SUBSET Path]
  BY DEF TypeInv, PeerType
<1>6. Sound(s)
  BY DEF Sound, Clean
<1> HIDE DEF r, s
<1>7. Progress(r, s)
  BY <1>3 DEF Progress
<1> QED
  BY <1>2, <1>3, <1>4, <1>5, <1>6, <1>7, FreshStep

LEMMA FinishKeeps ==
  ASSUME TypeInv, FetchInv, NEW h \in Handle, handle[h].pc \in Fetching, Finish(h),
         UNCHANGED <<peers, fetcher>>
  PROVE  TypeInv' /\ FetchInv'
<1> DEFINE o == handle[h]
           r == [o EXCEPT !.pc = "idle", !.must = {}, !.seen = {}, !.i = 1]
           s == [p \in Peer |-> {}]
<1>1. o \in Handles /\ o.i \in 1 .. Len(o.peers) /\ Len(o.peers) \in Nat
  BY HandleFields DEF Fetching, AtOwner, Handles
<1>2. handle' = [handle EXCEPT ![h] = r] /\ stable' = [stable EXCEPT ![h] = s]
  BY <1>1 DEF Finish, Between, Handles
<1>3. r \in Handles /\ r.pc = "idle" /\ r.i = 1 /\ r.peers = o.peers
  <2>1. 1 \in Nat \ {0} /\ "idle" \in Places /\ {} \in SUBSET Path
    BY DEF Places
  <2> QED
    BY <1>1, <2>1, Zenon DEF Handles
<1>4. AtOwner(r) /\ r.pc \notin Fetching
  BY <1>1, <1>3 DEF AtOwner, Fetching
<1>5. s \in [Peer -> SUBSET Path]
  OBVIOUS
<1> HIDE DEF r, s
<1> QED
  BY <1>2, <1>3, <1>4, <1>5, FreshStep

\* RUFSClient.Call: a call is lost, or the client gives up after the second
\* attempt, only at a peer that nobody could count on.
LEMMA CallStep ==
  ASSUME TypeInv, FetchInv, NEW h \in Handle, Call(h) \/ Recall(h) \/ Lost(h)
  PROVE  TypeInv' /\ FetchInv'
<1> DEFINE p == This(h)
<1>1. handle[h].pc \in {"lookup", "recall", "lost"} /\ UNCHANGED <<peers, fetcher, stable>>
  BY DEF Call, Recall, Lost, At
<1>2. /\ handle[h].pc \in Fetching /\ p \in Peer
      /\ Sound(stable[h]) /\ Progress(handle[h], stable[h])
  BY <1>1, HandleFields DEF FetchInv, Fetching
<1>3. stable[h][p] # {} => p \in known /\ conn[p] # "cut"
  BY <1>2 DEF Sound, Reachable
<1>4. handle[h].pc = "recall" /\ stable[h][p] # {} => conn[p] = "open"
  BY <1>2 DEF Progress, This
<1>5. handle[h].pc = "lost" => stable[h][p] = {}
  BY <1>2 DEF Progress, This
<1>6. ASSUME NextPeer(h), stable[h][p] = {}
      PROVE  TypeInv' /\ FetchInv'
  BY <1>1, <1>2, <1>6, NextPeerKeeps
<1>7. ASSUME Send(h)
      PROVE  TypeInv' /\ FetchInv'
  BY <1>1, <1>2, <1>3, <1>7, GotoKeeps DEF Send
<1>8. CASE Call(h)
  BY <1>1, <1>2, <1>3, <1>6, <1>7, <1>8, GotoKeeps DEF Call
<1>9. CASE Recall(h)
  BY <1>4, <1>6, <1>7, <1>9 DEF Recall, At
<1>10. CASE Lost(h)
  BY <1>5, <1>6, <1>10 DEF Lost, At
<1> QED
  BY <1>8, <1>9, <1>10

LEMMA DialStep ==
  ASSUME TypeInv, FetchInv, NEW h \in Handle, Dial(h)
  PROVE  TypeInv' /\ FetchInv'
<1> DEFINE p == This(h)
           o == handle[h]
<1>1. o.pc = "dial" /\ UNCHANGED <<peers, known, stable>>
  BY DEF Dial, At
<1>2. o.pc \in Fetching /\ p \in Peer /\ Sound(stable[h]) /\ Progress(o, stable[h])
      /\ o \in Handles /\ AtOwner(o)
  BY <1>1, HandleFields DEF FetchInv, Fetching
<1>3. CASE p \notin up /\ NextPeer(h) /\ UNCHANGED conn
  <2>1. stable[h][p] = {}
    BY <1>2, <1>3 DEF Sound, Reachable
  <2> QED
    BY <1>1, <1>2, <1>3, <2>1, NextPeerKeeps DEF fetcher
<1>4. CASE conn' = [conn EXCEPT ![p] = "open"] /\ Goto(h, "recall")
  <2>1. [o EXCEPT !.pc = "recall"] \in Handles
    BY <1>2 DEF Handles, Places, Fetching
  <2>2. PICK r \in Handles : /\ handle' = [handle EXCEPT ![h] = r]
                             /\ r.pc = "recall" /\ r.i = o.i /\ r.peers = o.peers
    BY <1>2, <1>4, <2>1 DEF Goto, Handles
  <2>3. AtOwner(r)
    BY <1>1, <1>2, <2>2 DEF AtOwner
  <2>4. /\ conn' \in [Peer -> {"open", "cut", "shut"}] /\ conn'[p] = "open"
        /\ \A q \in Peer : conn'[q] \in {conn[q], "open"}
    BY <1>2, <1>4 DEF TypeInv, PeerType
  <2>5. up' = up /\ disk' = disk /\ other' = other /\ paths' = paths /\ stable' = stable /\ known' = known
        /\ known' \subseteq Peer
    BY <1>1 DEF peers, TypeInv, PeerType
  <2>6. p = r.peers[r.i]
    BY <2>2 DEF This
  <2>7. Progress(r, stable[h])'
    BY <1>2, <2>2, <2>4, <2>5, <2>6 DEF Progress
  <2> QED
    BY <1>2, <2>2, <2>3, <2>4, <2>5, <2>7, OwnStep
<1> QED
  BY <1>3, <1>4 DEF Dial

\* The Read handler of the peer: its iteration ends without a file only if there
\* was none to count on.
LEMMA ReadStep ==
  ASSUME TypeInv, FetchInv, NEW h \in Handle, Read(h) \/ RangeDone(h)
  PROVE  TypeInv' /\ FetchInv'
<1> DEFINE p == This(h)
           o == handle[h]
           r == [o EXCEPT !.pc = "range", !.must = paths[p], !.seen = {}]
<1>1. o.pc \in {"sent", "range"} /\ UNCHANGED <<peers, fetcher, stable>>
  BY DEF Read, RangeDone, At
<1>2. o.pc \in Fetching /\ p \in Peer /\ Sound(stable[h]) /\ Progress(o, stable[h])
      /\ o \in Handles /\ AtOwner(o)
  BY <1>1, HandleFields DEF FetchInv, Fetching
<1>3. ASSUME NextPeer(h), stable[h][p] = {}
      PROVE  TypeInv' /\ FetchInv'
  BY <1>1, <1>2, <1>3, NextPeerKeeps
<1>4. CASE RangeDone(h)
  <2>1. stable[h][p] = {}
    BY <1>2, <1>4 DEF Progress, This, RangeDone, At
  <2> QED
    BY <1>3, <1>4, <2>1 DEF RangeDone
<1>5. CASE Read(h)
  <2>1. stable[h][p] \subseteq paths[p] /\ paths[p] \in SUBSET Path
    BY <1>2 DEF Sound, TypeInv, PeerType
  <2>2. CASE paths[p] = {}
    BY <1>3, <1>5, <2>1, <2>2 DEF Read
  <2>3. CASE paths[p] # {}
    <3>1. handle' = [handle EXCEPT ![h] = r]
      BY <1>5, <2>3 DEF Read
    <3>2. r \in Handles /\ r.pc = "range" /\ r.must = paths[p] /\ r.i = o.i /\ r.peers = o.peers
      BY <1>2, <2>1 DEF Handles, Places, Fetching
    <3>3. AtOwner(r)
      BY <1>1, <1>2, <3>2 DEF AtOwner
    <3>4. p = r.peers[r.i]
      BY <3>2 DEF This
    <3> HIDE DEF p, r, o
    <3>5. Progress(r, stable[h])
      BY <1>2, <2>1, <3>2, <3>4 DEF Progress
    <3> QED
      BY <1>1, <1>2, <3>1, <3>2, <3>3, <3>5, QuietStep DEF o
  <2> QED
    BY <2>2, <2>3
<1> QED
  BY <1>4, <1>5

\* A path that cannot be opened is none to count on, and a peer that opens
\* something else is none to count on at all.
LEMMA RangeStep ==
  ASSUME TypeInv, FetchInv, NEW h \in Handle, NEW x \in Path, RangePath(h, x)
  PROVE  TypeInv' /\ FetchInv'
<1> DEFINE p == This(h)
           o == handle[h]
           r == [o EXCEPT !.must = @ \ {x}, !.seen = @ \cup {x}]
<1>1. o.pc = "range" /\ UNCHANGED <<peers, fetcher>>
  BY DEF RangePath, At
<1>2. o.pc \in Fetching /\ p \in Peer /\ Sound(stable[h]) /\ Progress(o, stable[h])
      /\ o \in Handles /\ AtOwner(o)
  BY <1>1, HandleFields DEF FetchInv, Fetching
<1>3. CASE Finish(h)
  BY <1>1, <1>2, <1>3, FinishKeeps
<1>4. CASE x \notin disk[p] \cup other[p] /\ Missing(h, x) /\ UNCHANGED stable
  <2>1. handle' = [handle EXCEPT ![h] = r]
    BY <1>4 DEF Missing
  <2>2. /\ r \in Handles /\ r.pc = "range" /\ r.must = o.must \ {x}
        /\ r.i = o.i /\ r.peers = o.peers
    BY <1>1, <1>2 DEF Handles
  <2>3. AtOwner(r)
    BY <1>1, <1>2, <2>2 DEF AtOwner
  <2>4. x \notin stable[h][p] /\ p = r.peers[r.i]
    BY <1>2, <1>4, <2>2 DEF Sound, This
  <2> HIDE DEF p, r, o
  <2>5. Progress(r, stable[h])
    BY <1>1, <1>2, <2>2, <2>4 DEF Progress
  <2> QED
    BY <1>1, <1>2, <1>4, <2>1, <2>2, <2>3, <2>5, QuietStep DEF o
<1>5. CASE x \in other[p] /\ NextPeer(h) /\ UNCHANGED stable
  <2>1. x \in paths[p]
    BY DEF RangePath
  <2>2. stable[h][p] = {}
    BY <1>2, <1>5, <2>1 DEF Sound
  <2> QED
    BY <1>1, <1>2, <1>5, <2>2, NextPeerKeeps
<1> QED
  BY <1>3, <1>4, <1>5 DEF RangePath

\* All connections to a peer are cut.
LEMMA CutOffStep ==
  ASSUME TypeInv, FetchInv, NEW p \in Peer, CutOff(p), known' = known,
         disk' = disk, other' = other,
         up' \subseteq up, up \subseteq up' \cup {p}, paths' \in [Peer -> SUBSET Path],
         \A q \in Peer : q # p => paths'[q] = paths[q]
  PROVE  TypeInv' /\ FetchInv'
<1>1. /\ conn' = [conn EXCEPT ![p] = IF @ = "open" THEN "cut" ELSE @]
      /\ stable' = [h \in Handle |-> [stable[h] EXCEPT ![p] = @ \ Path]]
  BY DEF CutOff, Unsettle
<1>2. ASSUME NEW h \in Handle
      PROVE  /\ stable'[h] \in [Peer -> SUBSET Path] /\ stable'[h][p] = {}
             /\ \A q \in Peer : q # p => stable'[h][q] = stable[h][q]
  BY <1>1 DEF TypeInv, HandleType
<1>3. \A q \in Peer : q # p => conn'[q] = conn[q]
  BY <1>1 DEF TypeInv, PeerType
<1>4. ASSUME NEW h \in Handle
      PROVE  /\ handle'[h] \in Handles /\ handle'[h].peers = handle[h].peers
             /\ handle'[h].i = handle[h].i
             /\ \/ handle'[h].pc = handle[h].pc /\ handle'[h].must = handle[h].must
                \/ handle'[h].pc = "lost" /\ This(h) = p /\ handle[h].pc \in Fetching
                \/ handle'[h].pc = "shaken" /\ handle[h].pc = "ping"
  <2>1. handle[h] \in Handles
    BY HandleFields
  <2>2. handle'[h] =
          IF Serving(h, p) \/ (At(h, "dial") /\ This(h) = p) THEN Between(h, "lost")
          ELSE IF At(h, "ping") /\ This(h) = p THEN [handle[h] EXCEPT !.pc = "shaken"]
          ELSE handle[h]
    BY DEF CutOff
  <2>3. CASE handle'[h] = Between(h, "lost") /\ This(h) = p /\ handle[h].pc \in Fetching
    BY <2>1, <2>3 DEF Between, Handles, Places, Fetching
  <2>4. CASE handle'[h] = [handle[h] EXCEPT !.pc = "shaken"] /\ handle[h].pc = "ping"
    BY <2>1, <2>4 DEF Handles, Places
  <2>5. CASE handle'[h] = handle[h]
    BY <2>1, <2>5
  <2> QED
    BY <2>2, <2>3, <2>4, <2>5 DEF Serving, At, Fetching
<1>5. TypeInv'
  <2>1. PeerType'
    BY <1>1 DEF TypeInv, PeerType
  <2>2. handle' \in [Handle -> Handles] /\ stable' \in [Handle -> [Peer -> SUBSET Path]]
    <3>1. handle' = [h \in Handle |-> handle'[h]]
      BY DEF CutOff
    <3> QED
      BY <1>1, <1>2, <1>4, <3>1
  <2>3. \A h \in Handle : AtOwner(handle[h])'
    BY <1>4, HandleFields DEF AtOwner, Fetching
  <2> QED
    BY <2>1, <2>2, <2>3 DEF TypeInv, HandleType
<1>6. ASSUME NEW h \in Handle, handle[h].pc \in Fetching
      PROVE  Sound(stable[h])'
  <2>1. Sound(stable[h])
    BY <1>6 DEF FetchInv
  <2> QED
    BY <1>2, <1>3, <2>1 DEF Sound, Reachable
<1>7. ASSUME NEW h \in Handle, handle'[h].pc \in Fetching
      PROVE  /\ handle[h].pc \in Fetching
             /\ handle'[h].peers = handle[h].peers /\ handle'[h].i = handle[h].i
             /\ \A q \in Peer : stable'[h][q] \subseteq stable[h][q]
             /\ \/ handle'[h].pc = handle[h].pc
                \/ handle'[h].pc = "lost" /\ stable'[h][This(h)] = {}
             /\ handle'[h].pc = "range" => stable'[h][This(h)] \subseteq handle'[h].must
             /\ stable'[h][This(h)] # {} => conn'[This(h)] \in {conn[This(h)], "open"}
  <2>1. handle[h].pc \in Fetching /\ handle'[h].pc # "shaken"
    BY <1>4, <1>7 DEF Fetching
  <2>2. This(h) \in Peer /\ Progress(handle[h], stable[h])
    BY <2>1, HandleFields DEF FetchInv, Fetching
  <2>3. stable'[h][This(h)] # {} => This(h) # p
    BY <1>2
  <2>4. handle[h].pc = "range" => stable[h][This(h)] \subseteq handle[h].must
    BY <2>2 DEF Progress, This
  <2>5. \A q \in Peer : stable'[h][q] \subseteq stable[h][q]
    BY <1>2
  <2>6. handle'[h].pc = "range" => stable'[h][This(h)] \subseteq handle'[h].must
    BY <1>4, <2>2, <2>4, <2>5
  <2>7. stable'[h][This(h)] # {} => conn'[This(h)] = conn[This(h)]
    BY <1>3, <2>2, <2>3
  <2>8. handle'[h].pc = handle[h].pc \/ (handle'[h].pc = "lost" /\ stable'[h][This(h)] = {})
    BY <1>2, <1>4, <2>1
  <2> QED
    BY <1>4, <2>1, <2>5, <2>6, <2>7, <2>8
<1> QED
  BY <1>5, <1>6, <1>7, AroundStep

\* A client notices that its connection is gone, or a server starts again: the
\* fetches stay where they are, and can count on the same.
LEMMA NoticeStep ==
  ASSUME TypeInv, FetchInv, NEW p \in Peer, Notice(p) \/ Up(p)
  PROVE  TypeInv' /\ FetchInv'
<1>1. /\ disk' = disk /\ other' = other /\ paths' = paths /\ known' = known
      /\ handle' = handle /\ stable' = stable
  BY DEF Notice, Up, peers, fetcher
<1>2. /\ up \subseteq up' /\ up' \subseteq Peer
      /\ conn' \in [Peer -> {"open", "cut", "shut"}]
      /\ \A q \in Peer : conn'[q] = conn[q] \/ (conn[q] = "cut" /\ conn'[q] = "shut")
  BY DEF Notice, Up, peers, fetcher, TypeInv, PeerType
<1>3. TypeInv'
  BY <1>1, <1>2 DEF TypeInv, PeerType, HandleType
<1>4. ASSUME NEW h \in Handle, handle[h].pc \in Fetching
      PROVE  Sound(stable[h])' /\ This(h) \in Peer
             /\ (stable[h][This(h)] # {} => conn'[This(h)] = conn[This(h)])
             /\ (handle[h].pc = "range" => stable[h][This(h)] \subseteq handle[h].must)
  <2>1. Sound(stable[h]) /\ This(h) \in Peer /\ Progress(handle[h], stable[h])
    BY <1>4, HandleFields DEF FetchInv, Fetching
  <2>2. \A q \in Peer : Reachable(q) => Reachable(q)'
    BY <1>1, <1>2 DEF Reachable
  <2>3. Sound(stable[h])'
    BY <1>1, <2>1, <2>2 DEF Sound
  <2>4. stable[h][This(h)] # {} => conn'[This(h)] = conn[This(h)]
    BY <1>2, <2>1 DEF Sound, Reachable
  <2>5. handle[h].pc = "range" => stable[h][This(h)] \subseteq handle[h].must
    BY <2>1 DEF Progress, This
  <2> QED
    BY <2>1, <2>3, <2>4, <2>5
<1> QED
  BY <1>1, <1>3, <1>4, AroundStep

\* A path that is removed from a disk or from an index is none to count on, and
\* neither is any path of a peer with something else at a path in its index.
LEMMA UnlinkStep ==
  ASSUME TypeInv, FetchInv, NEW p \in Peer, NEW x \in Path, Unlink(p, x) \/ Replace(p, x)
  PROVE  TypeInv' /\ FetchInv'
<1>1. PICK ys \in SUBSET Path :
        /\ stable' = [h \in Handle |-> [stable[h] EXCEPT ![p] = @ \ ys]]
        /\ x \in ys
        /\ ys = Path \/ x \notin paths[p] \/ other'[p] \subseteq other[p]
  <2>1. CASE Unlink(p, x)
    BY <2>1 DEF Unlink, Unsettle, TypeInv, PeerType
  <2>2. CASE Replace(p, x)
    BY <2>2 DEF Replace, Unsettle
  <2> QED
    BY <2>1, <2>2
<1>2. /\ up' = up /\ paths' = paths /\ known' = known /\ conn' = conn /\ handle' = handle
      /\ disk' = [disk EXCEPT ![p] = @ \ {x}]
      /\ other' \in [Peer -> SUBSET Path]
      /\ other'[p] \subseteq other[p] \cup {x}
      /\ \A q \in Peer : q # p => other'[q] = other[q]
  BY DEF Unlink, Replace, fetcher, TypeInv, PeerType
<1>3. TypeInv'
  BY <1>1, <1>2 DEF TypeInv, PeerType, HandleType
<1>4. ASSUME NEW h \in Handle
      PROVE  /\ stable'[h][p] = stable[h][p] \ ys /\ stable[h][p] \subseteq Path
             /\ \A q \in Peer : q # p => stable'[h][q] = stable[h][q]
  BY <1>1 DEF TypeInv, HandleType
<1>5. disk'[p] = disk[p] \ {x} /\ \A q \in Peer : q # p => disk'[q] = disk[q]
  BY <1>2 DEF TypeInv, PeerType
<1>6. ASSUME NEW h \in Handle, handle[h].pc \in Fetching
      PROVE  Sound(stable[h])' /\ (\A q \in Peer : stable'[h][q] \subseteq stable[h][q])
             /\ (handle[h].pc = "range" => stable'[h][This(h)] \subseteq handle[h].must)
  <2>1. Sound(stable[h]) /\ This(h) \in Peer /\ Progress(handle[h], stable[h])
    BY <1>6, HandleFields DEF FetchInv, Fetching
  <2>2. ASSUME stable'[h][p] # {}
        PROVE  /\ Reachable(p)' /\ paths'[p] \cap other'[p] = {}
               /\ stable'[h][p] \subseteq paths'[p] \cap disk'[p]
    <3>1. /\ Reachable(p) /\ paths[p] \cap other[p] = {}
          /\ stable[h][p] \subseteq paths[p] \cap disk[p] /\ ys # Path
      BY <1>4, <2>1, <2>2 DEF Sound
    <3>2. paths[p] \cap other'[p] = {}
      BY <1>1, <1>2, <3>1
    <3> QED
      BY <1>1, <1>2, <1>4, <1>5, <3>1, <3>2 DEF Reachable
  <2>3. ASSUME NEW q \in Peer, q # p, stable'[h][q] # {}
        PROVE  /\ Reachable(q)' /\ paths'[q] \cap other'[q] = {}
               /\ stable'[h][q] \subseteq paths'[q] \cap disk'[q]
    BY <1>2, <1>4, <1>5, <2>1, <2>3 DEF Sound, Reachable
  <2>4. Sound(stable[h])'
    BY <2>2, <2>3 DEF Sound
  <2>5. \A q \in Peer : stable'[h][q] \subseteq stable[h][q]
    BY <1>4
  <2>6. handle[h].pc = "range" => stable[h][This(h)] \subseteq handle[h].must
    BY <2>1 DEF Progress, This
  <2> QED
    BY <2>1, <2>4, <2>5, <2>6
<1> QED
  BY <1>2, <1>3, <1>6, AroundStep

LEMMA SetFileStep ==
  ASSUME TypeInv, FetchInv, NEW p \in Peer, NEW x \in Path, SetFile(p, x)
  PROVE  TypeInv' /\ FetchInv'
<1>1. PICK old \in {{}, {x} \cap paths[p]}, new \in {{}, {x}} :
        LET dropped == old # {} /\ paths[p] = old
        IN  /\ paths' = [paths EXCEPT ![p] = (@ \ old) \cup new]
            /\ handle' = [h \in Handle |->
                 IF Serving(h, p) /\ At(h, "range")
                 THEN [handle[h] EXCEPT !.must = @ \ old,
                                        !.seen = IF dropped THEN Path ELSE @]
                 ELSE handle[h]]
            /\ Unsettle(p, IF new \cap other[p] # {} THEN Path ELSE old)
  BY DEF SetFile
<1> DEFINE ys == IF new \cap other[p] # {} THEN Path ELSE old
<1>2. up' = up /\ disk' = disk /\ other' = other /\ known' = known /\ conn' = conn
  BY DEF SetFile, fetcher
<1>3. /\ old \subseteq ys /\ old \subseteq Path /\ new \subseteq Path
      /\ ys = Path \/ new \cap other[p] = {}
  BY <1>1
<1>4. /\ paths' \in [Peer -> SUBSET Path] /\ paths'[p] = (paths[p] \ old) \cup new
      /\ \A q \in Peer : q # p => paths'[q] = paths[q]
  BY <1>1, <1>3 DEF TypeInv, PeerType
<1>5. /\ stable' \in [Handle -> [Peer -> SUBSET Path]]
      /\ \A h \in Handle : /\ stable'[h][p] = stable[h][p] \ ys /\ stable[h][p] \subseteq Path
                           /\ \A q \in Peer : q # p => stable'[h][q] = stable[h][q]
  BY <1>1 DEF Unsettle, TypeInv, HandleType
<1> HIDE DEF ys
<1>6. ASSUME NEW h \in Handle
      PROVE  /\ handle'[h] \in Handles /\ handle'[h].peers = handle[h].peers
             /\ handle'[h].i = handle[h].i /\ handle'[h].pc = handle[h].pc
             /\ handle'[h].must = handle[h].must
                \/ (This(h) = p /\ handle'[h].must = handle[h].must \ old)
  <2>1. handle[h] \in Handles
    BY HandleFields
  <2>2. CASE handle'[h] = handle[h]
    BY <2>1, <2>2
  <2>3. ASSUME NEW e \in SUBSET Path, This(h) = p,
               handle'[h] = [handle[h] EXCEPT !.must = @ \ old, !.seen = e]
        PROVE  /\ handle'[h] \in Handles /\ handle'[h].peers = handle[h].peers
               /\ handle'[h].i = handle[h].i /\ handle'[h].pc = handle[h].pc
               /\ This(h) = p /\ handle'[h].must = handle[h].must \ old
    BY <2>1, <2>3 DEF Handles
  <2>4. \/ handle'[h] = handle[h]
        \/ \E e \in {Path, handle[h].seen} :
             /\ This(h) = p
             /\ handle'[h] = [handle[h] EXCEPT !.must = @ \ old, !.seen = e]
    BY <1>1 DEF Serving
  <2>5. Path \in SUBSET Path /\ handle[h].seen \in SUBSET Path
    BY <2>1 DEF Handles
  <2> QED
    BY <2>2, <2>3, <2>4, <2>5
<1>7. TypeInv'
  <2>1. handle' \in [Handle -> Handles]
    <3>1. handle' = [h \in Handle |-> handle'[h]]
      BY <1>1
    <3> QED
      BY <1>6, <3>1
  <2>2. \A h \in Handle : AtOwner(handle[h])'
    BY <1>6, HandleFields DEF AtOwner
  <2> QED
    BY <1>2, <1>4, <1>5, <2>1, <2>2 DEF TypeInv, PeerType, HandleType
<1>8. ASSUME NEW h \in Handle, handle[h].pc \in Fetching
      PROVE  Sound(stable[h])' /\ (\A q \in Peer : stable'[h][q] \subseteq stable[h][q])
             /\ (handle[h].pc = "range" => stable'[h][This(h)] \subseteq handle'[h].must)
  <2>1. Sound(stable[h]) /\ This(h) \in Peer /\ Progress(handle[h], stable[h])
    BY <1>8, HandleFields DEF FetchInv, Fetching
  <2>2. Sound(stable[h])'
    <3>1. ASSUME stable'[h][p] # {}
          PROVE  /\ Reachable(p)' /\ paths'[p] \cap other'[p] = {}
                 /\ stable'[h][p] \subseteq paths'[p] \cap disk'[p]
      BY <1>2, <1>3, <1>4, <1>5, <2>1, <3>1 DEF Sound, Reachable
    <3>2. ASSUME NEW q \in Peer, q # p, stable'[h][q] # {}
          PROVE  /\ Reachable(q)' /\ paths'[q] \cap other'[q] = {}
                 /\ stable'[h][q] \subseteq paths'[q] \cap disk'[q]
      BY <1>2, <1>4, <1>5, <2>1, <3>2 DEF Sound, Reachable
    <3> QED
      BY <3>1, <3>2 DEF Sound
  <2>3. \A q \in Peer : stable'[h][q] \subseteq stable[h][q]
    BY <1>5
  <2>4. handle[h].pc = "range" => stable[h][This(h)] \subseteq handle[h].must
    BY <2>1 DEF Progress, This
  <2>5. handle[h].pc = "range" => stable'[h][This(h)] \subseteq handle'[h].must
    BY <1>3, <1>5, <1>6, <2>1, <2>4
  <2> QED
    BY <2>2, <2>3, <2>5
<1> QED
  BY <1>2, <1>6, <1>7, <1>8, AroundStep

-----------------------------------------------------------------------------
\* Every action preserves the invariant.
LEMMA TransferStep == TypeInv /\ FetchInv /\ [Next]_vars => TypeInv' /\ FetchInv'
<1> SUFFICES ASSUME TypeInv, FetchInv, [Next]_vars
             PROVE  TypeInv' /\ FetchInv'
  OBVIOUS
<1>1. ASSUME NEW h \in Handle, NewHandle(h) \/ Begin(h) \/ FindPeer(h) \/ NewPeer(h) \/ AddPeer(h)
      PROVE  TypeInv' /\ FetchInv'
  BY <1>1, NewHandleStep, BeginStep, AddPeerStep
<1>2. ASSUME NEW h \in Handle, Call(h) \/ Dial(h) \/ Recall(h) \/ Lost(h)
      PROVE  TypeInv' /\ FetchInv'
  BY <1>2, CallStep, DialStep
<1>3. ASSUME NEW h \in Handle, Read(h) \/ (\E x \in Path : RangePath(h, x)) \/ RangeDone(h)
      PROVE  TypeInv' /\ FetchInv'
  BY <1>3, ReadStep, RangeStep
<1>4. ASSUME NEW h \in Handle, Failed(h)
      PROVE  TypeInv' /\ FetchInv'
  BY <1>4, FinishKeeps DEF Failed, At, Fetching
<1>5. ASSUME NEW h \in Handle, NEW g \in Handle, MapRace(h, g)
      PROVE  TypeInv' /\ FetchInv'
  BY <1>5, MapRaceStep
<1>6. ASSUME NEW p \in Peer, Notice(p) \/ Up(p)
      PROVE  TypeInv' /\ FetchInv'
  BY <1>6, NoticeStep
<1>7. ASSUME NEW p \in Peer, Break(p)
      PROVE  TypeInv' /\ FetchInv'
  <2>1. /\ CutOff(p) /\ up' = up /\ disk' = disk /\ other' = other /\ known' = known /\ paths' = paths
        /\ paths' \in [Peer -> SUBSET Path]
    BY <1>7 DEF Break, peers, TypeInv, PeerType
  <2> QED
    BY <2>1, CutOffStep
<1>8. ASSUME NEW p \in Peer, Down(p)
      PROVE  TypeInv' /\ FetchInv'
  <2>1. /\ CutOff(p) /\ up' = up \ {p} /\ disk' = disk /\ other' = other /\ known' = known
        /\ paths' \in [Peer -> SUBSET Path]
        /\ \A q \in Peer : q # p => paths'[q] = paths[q]
    BY <1>8 DEF Down, TypeInv, PeerType
  <2> QED
    BY <2>1, CutOffStep
<1>9. ASSUME NEW p \in Peer, NEW x \in Path, Unlink(p, x) \/ Replace(p, x) \/ SetFile(p, x)
      PROVE  TypeInv' /\ FetchInv'
  BY <1>9, UnlinkStep, SetFileStep
<1>10. CASE UNCHANGED vars
  BY <1>10 DEF vars, peers, fetcher, TypeInv, PeerType, HandleType, AtOwner,
               FetchInv, Sound, Progress, Reachable
<1> QED
  BY <1>1, <1>2, <1>3, <1>4, <1>5, <1>6, <1>7, <1>8, <1>9, <1>10 DEF Next, Step

LEMMA TransferInit == Init => TypeInv /\ FetchInv
<1> SUFFICES ASSUME Init
             PROVE  TypeInv /\ FetchInv
  OBVIOUS
<1>1. TypeInv
  BY TransferAssumption, ClosedType DEF Init, TypeInv, PeerType, HandleType, AtOwner
<1> QED
  BY <1>1, ClosedType DEF Init, FetchInv, Fetching

\* A fetch fails only if none of its owners had a path that stayed indexed and on
\* its disk while the owner was up and in reach and no path in its index led to
\* something else: for any number of owners, paths and handles, and however many
\* connections, servers and files are lost or replaced.
THEOREM FetchAlwaysReliable == Spec => []FetchReliable
<1>1. TypeInv /\ FetchInv => FetchReliable
  <2> SUFFICES ASSUME TypeInv, FetchInv, NEW h \in Handle, At(h, "failed"),
                      NEW j \in 1 .. Len(handle[h].peers)
               PROVE  stable[h][handle[h].peers[j]] = {}
    BY DEF FetchReliable
  <2>1. /\ Progress(handle[h], stable[h]) /\ handle[h].pc = "failed"
        /\ Len(handle[h].peers) \in Nat
    BY HandleFields DEF FetchInv, At, Fetching, Handles
  <2>2. j < handle[h].i \/ j = handle[h].i
    BY <2>1 DEF Progress
  <2> QED
    BY <2>1, <2>2 DEF Progress
<1> QED
  BY <1>1, TransferInit, TransferStep, PTL DEF Spec
=============================================================================
