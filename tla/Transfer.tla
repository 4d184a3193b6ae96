------------------------------ MODULE Transfer ------------------------------
(***************************************************************************)
(* How a block gets from a peer to a handle: the fetcher's map of peers    *)
(* and realFetch (src/fetch.go), the client that redials (RUFSClient in    *)
(* src/types.go) and the Read handler of the peer's server (src/server.go) *)
(* with the index it looks the hash up in.                                 *)
(*                                                                         *)
(* One hash is enough: Path are the paths under which a peer may have it.  *)
(* paths[p] is hashToPath[hash] of the peer p.  Read goes through that map *)
(* after it has released the lock.  SetFile throws an empty map away and   *)
(* makes a new one, so that a Read may be left with the old one.           *)
(*                                                                         *)
(* What is on a disk is not what the index says: at a path may be the      *)
(* contents, nothing, or something else that can be opened, a file with    *)
(* other contents or one that cannot be read (a directory, a bad disk).    *)
(*                                                                         *)
(* All connections to a peer are cut together.  A client that has not      *)
(* noticed loses the calls it makes; one that has gets rpc.ErrShutdown     *)
(* and dials again, once.                                                  *)
(*                                                                         *)
(* A definition D_Variant in front of D is D with a mistake in it: it is   *)
(* not used, and shows which property would notice the mistake.            *)
(***************************************************************************)
EXTENDS Naturals, Sequences, FiniteSets

CONSTANTS Peer, Path,
          Shared,     \* Shared[p]: those under which p has it at first
          Owners,     \* the answers of GetOwners, sequences of peers
          Handle,     \* handles of one fetcher
          MaxFaults   \* bound on what peers, disks and the network do meanwhile

ASSUME TransferAssumption ==
  /\ Shared \in [Peer -> SUBSET Path]
  /\ Owners \subseteq Seq(Peer)
  /\ << >> \notin Owners
  /\ MaxFaults \in Nat

VARIABLES up,         \* peers whose server is running
          disk,       \* disk[p]: paths under which the contents are on p's disk
          other,      \* other[p]: paths at which something else can be opened
          paths,      \* paths[p]: those the index of p has for the hash
          known,      \* fetcher.peers: the peers that have a client
          conn,       \* conn[p]: its connection, "open", "cut" or "shut" once noticed
          handle,     \* handle[h]: what h is doing
          stable,     \* stable[h][p]: paths that were indexed and on p's disk,
                      \* with p in reach and nothing else in its index to
                      \* open, ever since the fetch of h began
          faults

peers   == <<up, disk, other, paths>>
fetcher == <<known, conn>>
vars    == <<peers, fetcher, handle, stable, faults>>

Closed == [pc |-> "closed", peers |-> << >>, i |-> 1, found |-> FALSE,
           must |-> {}, seen |-> {}]

Init ==
  /\ up = Peer
  /\ paths = Shared
  /\ disk = paths
  /\ other = [p \in Peer |-> {}]
  /\ known = {}
  /\ conn = [p \in Peer |-> "shut"]
  /\ handle = [h \in Handle |-> Closed]
  /\ stable = [h \in Handle |-> [p \in Peer |-> {}]]
  /\ faults = 0

At(h, pc)  == handle[h].pc = pc
This(h)    == handle[h].peers[handle[h].i]
Goto(h, pc) == handle' = [handle EXCEPT ![h].pc = pc]

-----------------------------------------------------------------------------
\* NewHandle, and its look at the map for each owner.
NewHandle(h) ==
  /\ At(h, "closed")
  /\ \E o \in Owners : handle' = [handle EXCEPT ![h] = [Closed EXCEPT !.pc = "find", !.peers = o]]
  /\ UNCHANGED <<peers, fetcher, stable, faults>>

\* The owner at hand has been found in the map, put into it or left out.
NextOwner(h, found) ==
  LET f    == handle[h].found \/ found
      last == handle[h].i = Len(handle[h].peers)
  IN  handle' = [handle EXCEPT ![h] =
        IF ~last THEN [handle[h] EXCEPT !.pc = "find", !.found = f, !.i = @ + 1]
        ELSE IF f THEN [handle[h] EXCEPT !.pc = "idle", !.found = FALSE, !.i = 1]
        ELSE Closed]

FindPeer(h) ==
  /\ At(h, "find")
  /\ IF This(h) \in known THEN NextOwner(h, TRUE) ELSE Goto(h, "newpeer")
  /\ UNCHANGED <<peers, fetcher, stable, faults>>

NewPeer(h) ==
  /\ At(h, "newpeer")
  /\ \/ This(h) \in up /\ Goto(h, "ping")
     \/ NextOwner(h, FALSE)             \* the dial fails
  /\ UNCHANGED <<peers, fetcher, stable, faults>>

\* MeasureLatency has returned, whether its pings went through or not, and the
\* peer goes into the map.  A connection that was cut meanwhile ("shaken") may
\* take the place of a sound one.
AddPeer(h) ==
  /\ handle[h].pc \in {"ping", "shaken"}
  /\ known' = known \cup {This(h)}
  /\ \/ /\ At(h, "ping")
        /\ conn' = [conn EXCEPT ![This(h)] = "open"]
        /\ UNCHANGED stable
     \/ /\ At(h, "shaken")
        /\ \E c \in {"cut", "shut"} : conn' = [conn EXCEPT ![This(h)] = c]
        /\ stable' = [g \in Handle |-> [stable[g] EXCEPT ![This(h)] = {}]]
  /\ NextOwner(h, TRUE)
  /\ UNCHANGED <<peers, faults>>

\* The runtime notices that the map is written while another handle uses it,
\* and aborts the process.
MapRace(h, g) ==
  /\ h # g
  /\ handle[h].pc \in {"ping", "shaken"}
  /\ handle[g].pc \in {"find", "ping", "shaken", "lookup"}
  /\ handle' = [x \in Handle |-> Closed]
  /\ known' = {}
  /\ UNCHANGED <<peers, conn, stable, faults>>

-----------------------------------------------------------------------------
\* p can be reached and has not lost the connection unnoticed.
Reachable(p) == p \in known /\ p \in up /\ conn[p] # "cut"

\* All that p can open for the hash is the contents.
Clean(p) == paths[p] \cap other[p] = {}

\* fetch starts realFetch.
Begin(h) ==
  /\ At(h, "idle")
  /\ handle' = [handle EXCEPT ![h].pc = "lookup", ![h].i = 1]
  /\ stable' = [stable EXCEPT ![h] =
                  [p \in Peer |-> IF Reachable(p) /\ Clean(p) THEN paths[p] \cap disk[p] ELSE {}]]
  /\ UNCHANGED <<peers, fetcher, faults>>

\* What a handler leaves behind is gone.
Between(h, pc) == [handle[h] EXCEPT !.pc = pc, !.must = {}, !.seen = {}]

NextPeer_Again(h) == handle' = [handle EXCEPT ![h] = Between(h, "lookup")]

\* realFetch goes on to the next peer, and fails after the last one.
NextPeer(h) ==
  handle' = [handle EXCEPT ![h] =
    IF handle[h].i < Len(handle[h].peers)
    THEN [Between(h, "lookup") EXCEPT !.i = @ + 1]
    ELSE Between(h, "failed")]

\* The request is sent, on a connection that is open or has been cut unnoticed.
Send(h) ==
  \/ conn[This(h)] = "open" /\ Goto(h, "sent")
  \/ conn[This(h)] = "cut" /\ Goto(h, "lost")

\* The client of the peer at hand, and the first attempt of its Call.
Call(h) ==
  /\ At(h, "lookup")
  /\ \/ This(h) \notin known /\ NextPeer(h)
     \/ This(h) \in known /\ Send(h)
     \/ This(h) \in known /\ conn[This(h)] = "shut" /\ Goto(h, "dial")
  /\ UNCHANGED <<peers, fetcher, stable, faults>>

Dial(h) ==
  /\ At(h, "dial")
  /\ \/ /\ This(h) \in up
        /\ conn' = [conn EXCEPT ![This(h)] = "open"]
        /\ Goto(h, "recall")
     \/ This(h) \notin up /\ NextPeer(h) /\ UNCHANGED conn
  /\ UNCHANGED <<peers, known, stable, faults>>

Recall(h) ==
  /\ At(h, "recall")
  /\ \/ Send(h)
     \/ conn[This(h)] = "shut" /\ NextPeer(h)
  /\ UNCHANGED <<peers, fetcher, stable, faults>>

Lost(h) ==
  /\ At(h, "lost")
  /\ NextPeer(h)
  /\ UNCHANGED <<peers, fetcher, stable, faults>>

-----------------------------------------------------------------------------
\* The peer's Read handler: the map of the hash is looked up under the lock,
Read(h) ==
  /\ At(h, "sent")
  /\ IF paths[This(h)] = {} THEN NextPeer(h)           \* ENOENT
     ELSE handle' = [handle EXCEPT ![h].pc = "range", ![h].must = paths[This(h)], ![h].seen = {}]
  /\ UNCHANGED <<peers, fetcher, stable, faults>>

\* The fetch is over.
Finish(h) ==
  /\ handle' = [handle EXCEPT ![h] = [Between(h, "idle") EXCEPT !.i = 1]]
  /\ stable' = [stable EXCEPT ![h] = [p \in Peer |-> {}]]

Missing_EndsLoop(h, x) == NextPeer(h)

\* os.Open fails, and the next path is tried.
Missing(h, x) ==
  handle' = [handle EXCEPT ![h].must = @ \ {x}, ![h].seen = @ \cup {x}]

\* and iterated over without it, until something can be opened, which is read,
\* whatever it is: an error of Seek or Read is returned.  Entries that are added
\* meanwhile may be produced or not.
RangePath(h, x) ==
  /\ At(h, "range")
  /\ x \in paths[This(h)] \ handle[h].seen
  /\ \/ x \in disk[This(h)] \cup other[This(h)] /\ Finish(h)
     \/ x \in other[This(h)] /\ NextPeer(h) /\ UNCHANGED stable
     \/ x \notin disk[This(h)] \cup other[This(h)] /\ Missing(h, x) /\ UNCHANGED stable
  /\ UNCHANGED <<peers, fetcher, faults>>

\* No path could be opened, or none was left in the map and there is no file
\* to read from: an error either way.
RangeDone(h) ==
  /\ At(h, "range")
  /\ handle[h].must = {}
  /\ NextPeer(h)
  /\ UNCHANGED <<peers, fetcher, stable, faults>>

\* fetch takes the error.
Failed(h) == At(h, "failed") /\ Finish(h) /\ UNCHANGED <<peers, fetcher, faults>>

-----------------------------------------------------------------------------
\* The peer p is handling a request of h.
Serving(h, p) == handle[h].pc \in {"sent", "range"} /\ This(h) = p

Fault == faults < MaxFaults /\ faults' = faults + 1

\* The running fetches cannot count on the paths xs of p.
Unsettle(p, xs) == stable' = [h \in Handle |-> [stable[h] EXCEPT ![p] = @ \ xs]]

\* All connections to p are cut, those that are being made too.
CutOff(p) ==
  /\ conn' = [conn EXCEPT ![p] = IF @ = "open" THEN "cut" ELSE @]
  /\ handle' = [h \in Handle |->
       IF Serving(h, p) \/ (At(h, "dial") /\ This(h) = p) THEN Between(h, "lost")
       ELSE IF At(h, "ping") /\ This(h) = p THEN [handle[h] EXCEPT !.pc = "shaken"]
       ELSE handle[h]]
  /\ Unsettle(p, Path)

Break(p) ==
  /\ Fault
  /\ CutOff(p)
  /\ UNCHANGED <<peers, known>>

Notice(p) ==
  /\ conn[p] = "cut"
  /\ conn' = [conn EXCEPT ![p] = "shut"]
  /\ UNCHANGED <<peers, known, handle, stable, faults>>

\* The server stops, or the runtime notices that SetFile writes to a map that
\* Read iterates over, and aborts it.
Down(p) ==
  /\ Fault
  /\ p \in up
  /\ up' = up \ {p}
  /\ paths' = [paths EXCEPT ![p] = {}]
  /\ CutOff(p)
  /\ UNCHANGED <<disk, other, known>>

\* The server starts again; its scanner will tell it what it has.
Up(p) ==
  /\ p \notin up
  /\ up' = up \cup {p}
  /\ UNCHANGED <<disk, other, paths, fetcher, handle, stable, faults>>

\* The user removes what is at x,
Unlink(p, x) ==
  /\ Fault
  /\ x \in disk[p] \cup other[p]
  /\ disk' = [disk EXCEPT ![p] = @ \ {x}]
  /\ other' = [other EXCEPT ![p] = @ \ {x}]
  /\ Unsettle(p, {x})
  /\ UNCHANGED <<up, paths, fetcher, handle>>

\* or puts something else there.
Replace(p, x) ==
  /\ Fault
  /\ x \notin other[p]
  /\ disk' = [disk EXCEPT ![p] = @ \ {x}]
  /\ other' = [other EXCEPT ![p] = @ \cup {x}]
  /\ Unsettle(p, IF x \in paths[p] THEN Path ELSE {x})
  /\ UNCHANGED <<up, paths, fetcher, handle>>

\* Server.SetFile under the lock: x is deleted from the map of its old hash,
\* which is dropped if that leaves it empty, and entered into the map of the
\* new one, which was the hash when the scanner computed it.  A Read that is
\* iterating can count on the entries that stay, and sees nothing more of a map
\* that has been dropped.
SetFile(p, x) ==
  /\ p \in up
  /\ Fault
  /\ \E old \in {{}, {x} \cap paths[p]}, new \in {{}, {x}} :
       LET dropped == old # {} /\ paths[p] = old
       IN  /\ paths' = [paths EXCEPT ![p] = (@ \ old) \cup new]
           /\ handle' = [h \in Handle |->
                IF Serving(h, p) /\ At(h, "range")
                THEN [handle[h] EXCEPT !.must = @ \ old,
                                       !.seen = IF dropped THEN Path ELSE @]
                ELSE handle[h]]
           /\ Unsettle(p, IF new \cap other[p] # {} THEN Path ELSE old)
  /\ UNCHANGED <<up, disk, other, fetcher>>

-----------------------------------------------------------------------------
Step(h) ==
  \/ FindPeer(h) \/ NewPeer(h) \/ AddPeer(h)
  \/ Call(h) \/ Dial(h) \/ Recall(h) \/ Lost(h)
  \/ Read(h) \/ (\E x \in Path : RangePath(h, x)) \/ RangeDone(h) \/ Failed(h)

Next ==
  \/ \E h \in Handle : NewHandle(h) \/ Begin(h) \/ Step(h)
  \/ \E h, g \in Handle : MapRace(h, g)
  \/ \E p \in Peer : Break(p) \/ Notice(p) \/ Down(p) \/ Up(p)
  \/ \E p \in Peer, x \in Path : Unlink(p, x) \/ Replace(p, x) \/ SetFile(p, x)

Spec == Init /\ [][Next]_vars

\* Goroutines go on while they can, here and in the peers; a call that gets no
\* answer is lost when the connection is.
FairSpec == Spec /\ \A h \in Handle : WF_vars(Step(h))

-----------------------------------------------------------------------------
\* As long as one owner is up and in reach and has one path that stays indexed
\* and on its disk, while its other indexed paths have the contents too or
\* cannot be opened, a fetch does not fail: whatever happens to the other owners
\* and their disks, whichever paths of this one come and go, whichever
\* connections have been lost before the fetch, while handles share and replace
\* clients.  A path of the owner at which something else has been put may end
\* the Read handler with an error before it gets to the stable one.
FetchReliable ==
  \A h \in Handle : At(h, "failed") =>
    \A i \in 1 .. Len(handle[h].peers) : stable[h][handle[h].peers[i]] = {}

\* Every fetch ends, and so its channel is closed.
FetchEnds ==
  \A h \in Handle : At(h, "lookup") ~> handle[h].pc \in {"idle", "closed"}
=============================================================================
