------------------------------- MODULE Publish -------------------------------
(***************************************************************************)
(* How a change that the scanner has found reaches the peer's index and    *)
(* the master: Scanner.set and ContinuousExport                            *)
(* (src/filescanner/filescanner.go), the callback Server.SetFile and the   *)
(* SetFile threads (src/server.go).                                        *)
(*                                                                         *)
(* The scanner goroutine changes the cache and then calls the listeners,   *)
(* without the lock.  A callback puts the file in hashToPath and hands a   *)
(* request to an idle thread over an unbuffered channel; the thread sends  *)
(* it later.  When the connection to the master is lost the master forgets *)
(* the peer's files.  The goroutine whose call finds it lost, a thread or  *)
(* one of a frontend, dials and runs the callback in the middle of that    *)
(* call: it cancels the listener, registers a new one and exports a copy   *)
(* of the cache to it, over the same channel.  The requests of an export   *)
(* hold a pointer to its loop variable.                                    *)
(*                                                                         *)
(* A FileInfo is a hash, and None stands for a nil one.  Dialling and      *)
(* signing in are one step; module Session has them apart, and which calls *)
(* find the callback.  Here any call may run it, or dial without it, and   *)
(* several may run it at once, as calls that race for it do.               *)
(*                                                                         *)
(* The specification is named PublishSpec so that ScannerProofs can extend *)
(* this module and Scanner.                                                *)
(*                                                                         *)
(* A definition D_Variant in front of D is D with a mistake in it: it is   *)
(* not used, and shows which property would notice the mistake.            *)
(***************************************************************************)
EXTENDS FileCache, Integers, Sequences, SequencesExt

CONSTANTS Hash,
          Thread,      \* SetFile threads
          Frontend,    \* other goroutines that call the master
          MaxSets,     \* bound on the changes the scanner finds
          MaxListener  \* bound on the contexts: one, and one per callback run

\* A SetFile request: the path, and the file's info or the number of the export
\* whose loop variable it points to.
Request == [path : Path, info : Hash \cup {None}, of : 0 .. MaxListener]

ASSUME PublishAssumption ==
  /\ None \notin Hash \cup Request
  /\ Thread \cap Frontend = {}
  /\ MaxSets \in Nat
  /\ MaxListener \in Nat \ {0}

VARIABLES sets,        \* number of changes found
          listeners,   \* the registered listeners: the numbers of their contexts
          cancelled,   \* the contexts that are done
          created,     \* number of contexts made
          overtaken,   \* an append fell into the removal of a listener
          scan,        \* what the scanner goroutine is doing
          export,      \* export[n]: the run of the callback that made context n
          fi,          \* fi[n]: the loop variable of its export
          hashToPath,
          request,     \* request[t]: what thread t sends, or None
          call,        \* call[t]: how far thread t is in RUFSMasterClient.Call
          session,     \* the connection: "up", "cut", or up but not signed in
          published,   \* published[p]: what the master was told of p on it
          beside       \* beside[p]: the infos of the requests for p that were
                       \* under way when the last one was handed to a thread

scanner == <<fileCache, sets, scan>>
lists   == <<listeners, cancelled, created, overtaken>>
threads == <<request, call, beside>>
master  == <<session, published>>
pvars   == <<scanner, lists, threads, master, export, fi, hashToPath>>

Listener == 1 .. MaxListener
Resting  == [pc |-> "rest"]

\* ContinuousExport has registered the first listener; there was nothing to
\* export then.
PublishInit ==
  /\ fileCache = Nothing
  /\ sets = 0
  /\ listeners = <<1>> /\ cancelled = {} /\ created = 1
  /\ overtaken = FALSE
  /\ scan = Resting
  /\ export = [n \in Listener |-> Resting]
  /\ fi = [n \in Listener |-> None]
  /\ hashToPath = [h \in Hash |-> {}]
  /\ request = [t \in Thread |-> None]
  /\ call = [t \in Thread |-> "first"]
  /\ session = "up"
  /\ published = Nothing
  /\ beside = [p \in Path |-> {}]

-----------------------------------------------------------------------------
\* set(path, fi): the part under the lock.  The scanner reports p as missing
\* only if it is cached; a file that was written may have its old hash.
Set(p, h) ==
  /\ scan.pc = "rest"
  /\ sets < MaxSets
  /\ h = None => fileCache[p] # None
  /\ sets' = sets + 1
  /\ fileCache' = [fileCache EXCEPT ![p] = h]
  /\ scan' = [pc |-> "loop", i |-> 1, path |-> p, info |-> h, old |-> fileCache[p]]
  /\ UNCHANGED <<lists, threads, master, export, fi, hashToPath>>

\* The listener the loop has come to is cancelled: the last one takes its
\* place.  The slice without the last one is stored in a step of its own: the
\* loop holds no lock, and an append may come in between.
Without(s, i) == Front([s EXCEPT ![i] = Last(s)])

Kept_NotRemoved(i) == listeners

Kept(i) == Without(listeners, i)

DropListener ==
  /\ scan.pc = "loop"
  /\ scan.i <= Len(listeners)
  /\ listeners[scan.i] \in cancelled
  /\ scan' = [pc |-> "drop", i |-> scan.i, path |-> scan.path, info |-> scan.info,
              old |-> scan.old, kept |-> Kept(scan.i)]
  /\ UNCHANGED <<fileCache, sets, lists, threads, master, export, fi, hashToPath>>

StoreSlice ==
  /\ scan.pc = "drop"
  /\ listeners' = scan.kept
  /\ scan' = [pc |-> "loop", i |-> scan.i, path |-> scan.path, info |-> scan.info, old |-> scan.old]
  /\ UNCHANGED <<fileCache, sets, cancelled, created, overtaken, threads, master,
                 export, fi, hashToPath>>

-----------------------------------------------------------------------------
Indexed_OldKept(p, h, old) ==
  [x \in Hash |-> IF x = h THEN hashToPath[x] \cup {p} ELSE hashToPath[x]]

Indexed_OldLast(p, h, old) ==
  [x \in Hash |-> IF x = old THEN hashToPath[x] \ {p}
                  ELSE IF x = h THEN hashToPath[x] \cup {p} ELSE hashToPath[x]]

\* Server.SetFile under its lock: the old hash first, which may be the new one.
Indexed(p, h, old) ==
  [x \in Hash |-> IF x = h THEN hashToPath[x] \cup {p}
                  ELSE IF x = old THEN hashToPath[x] \ {p} ELSE hashToPath[x]]

\* The callback of the scanner's loop, and then the request on the channel.
CallListener ==
  /\ scan.pc = "loop"
  /\ scan.i <= Len(listeners)
  /\ listeners[scan.i] \notin cancelled
  /\ hashToPath' = Indexed(scan.path, scan.info, scan.old)
  /\ scan' = [scan EXCEPT !.pc = "send"]
  /\ UNCHANGED <<fileCache, sets, lists, threads, master, export, fi>>

\* What the pointer of a request points to when the request is encoded.
InfoOf(r) == IF r.of = 0 THEN r.info ELSE fi[r.of]

\* The threads that have a request for p, and handing one more to thread t.
Pending(p) == {t \in Thread : request[t] # None /\ request[t].path = p}

Hand(t, p, h, n) ==
  /\ request[t] = None
  /\ request' = [request EXCEPT ![t] = [path |-> p, info |-> h, of |-> n]]
  /\ beside' = [beside EXCEPT ![p] = {InfoOf(request[u]) : u \in Pending(p)}]
  /\ UNCHANGED call

FromScanner(t) ==
  /\ scan.pc = "send"
  /\ Hand(t, scan.path, scan.info, 0)
  /\ scan' = [scan EXCEPT !.pc = "loop", !.i = @ + 1]
  /\ UNCHANGED <<fileCache, sets, lists, master, export, fi, hashToPath>>

SetDone ==
  /\ scan.pc = "loop"
  /\ scan.i > Len(listeners)
  /\ scan' = Resting
  /\ UNCHANGED <<fileCache, sets, lists, threads, master, export, fi, hashToPath>>

-----------------------------------------------------------------------------
\* The connection is lost, and the master drops the peer's files.
Cut ==
  /\ session # "cut"
  /\ session' = "cut"
  /\ published' = Nothing
  /\ UNCHANGED <<scanner, lists, threads, export, fi, hashToPath>>

\* A call of g finds the connection lost, and has not yet tried a second time.
Finds(g) == g \in Thread => request[g] # None /\ call[g] \in {"first", "late"}

\* It may have found so before another call replaced the connection; a goroutine
\* of a frontend always may.
Late(g) == g \in Thread => call[g] = "late"

\* What g's call has come to, if g is a thread.
At(g, x) == [t \in Thread |-> IF t = g THEN x ELSE call[t]]

\* g dials, signs in and runs the callback, which cancels the context and makes
\* a new one.  A late call may have taken the same callback as one that is still
\* in it, and the two may have called the same cancel.
Reconnect(g) ==
  /\ Finds(g)
  /\ session = "cut" \/ (Late(g) /\ \E n \in Listener : export[n].pc # "rest")
  /\ created < MaxListener
  /\ session' = "up"
  /\ \/ cancelled' = cancelled \cup {created}
     \/ export[created].pc = "copy" /\ cancelled' = cancelled
  /\ created' = created + 1
  /\ export' = [export EXCEPT ![created + 1] = [pc |-> "copy", by |-> g]]
  /\ call' = [t \in Thread |-> IF t = g THEN "callback"
                              ELSE IF session = "cut" /\ Finds(t) THEN "late" ELSE call[t]]
  /\ UNCHANGED <<scanner, listeners, overtaken, fi, hashToPath, request, beside, published>>

\* g dials while reconnCb does nothing: nobody signs in.
DialOnly(g) ==
  /\ Finds(g)
  /\ session = "cut"
  /\ session' = "unsigned"
  /\ call' = At(g, "second")
  /\ UNCHANGED <<scanner, lists, export, fi, hashToPath, request, beside, published>>

Snapshot_Empty(n, c) ==
  [pc |-> "loop", by |-> export[n].by, ctx |-> c, todo |-> {}, cpy |-> fileCache]

\* The copy of the cache.
Snapshot(n, c) ==
  [pc |-> "loop", by |-> export[n].by, ctx |-> c,
   todo |-> {p \in Path : fileCache[p] # None}, cpy |-> fileCache]

\* ContinuousExport under the lock: the copy, and the new listener.  The callback
\* reads the context from a shared variable that a later run may have replaced.
Register(n) ==
  /\ export[n].pc = "copy"
  /\ \E c \in n .. created :
       /\ listeners' = Append(listeners, c)
       /\ export' = [export EXCEPT ![n] = Snapshot(n, c)]
  /\ overtaken' = (overtaken \/ scan.pc = "drop")
  /\ UNCHANGED <<scanner, cancelled, created, threads, master, fi, hashToPath>>

\* An iteration of its loop assigns the loop variable and calls the callback.
Export(n, p) ==
  /\ export[n].pc = "loop"
  /\ export[n].ctx \notin cancelled
  /\ p \in export[n].todo
  /\ fi' = [fi EXCEPT ![n] = export[n].cpy[p]]
  /\ hashToPath' = Indexed(p, export[n].cpy[p], None)
  /\ export' = [export EXCEPT ![n] =
       [pc |-> "send", by |-> @.by, ctx |-> @.ctx, todo |-> @.todo \ {p}, cpy |-> @.cpy, path |-> p]]
  /\ UNCHANGED <<scanner, lists, threads, master>>

FromExport(n, t) ==
  /\ export[n].pc = "send"
  /\ Hand(t, export[n].path, None, n)
  /\ export' = [export EXCEPT ![n] =
       [pc |-> "loop", by |-> @.by, ctx |-> @.ctx, todo |-> @.todo, cpy |-> @.cpy]]
  /\ UNCHANGED <<scanner, lists, master, fi, hashToPath>>

\* The loop ends, at the latest when its context is done; a thread goes on to
\* the second try of its call.
ExportDone(n) ==
  /\ export[n].pc = "loop"
  /\ export[n].todo = {} \/ export[n].ctx \in cancelled
  /\ export' = [export EXCEPT ![n] = Resting]
  /\ call' = At(export[n].by, "second")
  /\ UNCHANGED <<scanner, lists, master, fi, hashToPath, request, beside>>

-----------------------------------------------------------------------------
Idle(t) ==
  /\ request' = [request EXCEPT ![t] = None]
  /\ call' = At(t, "first")
  /\ UNCHANGED <<scanner, lists, export, fi, hashToPath, session, beside>>

\* A thread sends its request; the master stores it, or refuses it if the peer
\* is not signed in.
Send(t) ==
  /\ request[t] # None
  /\ call[t] # "callback"
  /\ session # "cut"
  /\ published' = IF session = "up"
                  THEN [published EXCEPT ![request[t].path] = InfoOf(request[t])]
                  ELSE published
  /\ Idle(t)

\* The call fails with the connection, or to dial or to sign in.
Fail(t) ==
  /\ request[t] # None
  /\ call[t] # "callback"
  /\ session = "cut"
  /\ Idle(t)
  /\ UNCHANGED published

Scan ==
  \/ DropListener \/ StoreSlice \/ CallListener \/ SetDone
  \/ \E t \in Thread : FromScanner(t)

Callback(n) ==
  \/ Register(n) \/ ExportDone(n)
  \/ \E p \in Path : Export(n, p)
  \/ \E t \in Thread : FromExport(n, t)

PublishNext ==
  \/ Scan
  \/ \E p \in Path, h \in Hash \cup {None} : Set(p, h)
  \/ Cut
  \/ \E g \in Thread \cup Frontend : Reconnect(g) \/ DialOnly(g)
  \/ \E n \in Listener : Callback(n)
  \/ \E t \in Thread : Send(t) \/ Fail(t)

PublishSpec == PublishInit /\ [][PublishNext]_pvars

\* The goroutines go on: the scanner, the callbacks, and each thread, whose
\* request is answered or fails.
Fairness ==
  /\ WF_pvars(Scan)
  /\ \A n \in Listener : WF_pvars(Callback(n))
  /\ \A t \in Thread : WF_pvars(Send(t) \/ Fail(t))
PublishFairSpec == PublishSpec /\ Fairness

-----------------------------------------------------------------------------
Handled == scan.pc = "rest" /\ \A n \in Listener : export[n].pc = "rest"
Settled == Handled /\ session = "up" /\ \A t \in Thread : request[t] = None

\* A peer that is asked for the hash of a file it has finds the file: once set
\* and the exports are done every cached file is in hashToPath under its hash,
\* whatever changes the scanner found while listeners were being replaced.  An
\* append that falls into the removal of a listener is the exception: it is
\* overwritten, and the new listener hears of no later change.
IndexComplete ==
  ~overtaken /\ Handled =>
    \A p \in Path : fileCache[p] # None => p \in hashToPath[fileCache[p]]

\* Until the first reconnect the index has nothing else, so that Read never
\* serves a file under a hash it no longer has, and the master has what the
\* cache has of every file whose last change was handed to a thread after the
\* changes before it had been sent.
ExactAtFirst ==
  created = 1 =>
    /\ Handled => \A h \in Hash : hashToPath[h] = {p \in Path : fileCache[p] = h}
    /\ Settled => \A p \in Path : beside[p] = {} => published[p] = fileCache[p]

\* However often the connection is replaced, by whichever goroutines and however
\* many at once, the master that the peer is signed in to knows of every cached
\* file: a change whose request was lost with a connection is in the copy that
\* is exported on the next one.  The threads do not keep the order of requests:
\* the exception is a file whose last request was handed to one thread while
\* another had a deletion of that file still to send.
PublishedAll ==
  ~overtaken /\ Settled =>
    \A p \in Path : fileCache[p] # None /\ None \notin beside[p] => published[p] # None

\* Every thread is in the callback and waits for a thread to take a request.
Stuck == \A t \in Thread : \E n \in Listener : export[n].pc = "send" /\ export[n].by = t

\* set returns: its loop ends although it takes listeners out of the list it
\* goes through, and its requests find a thread, however threads reconnect; unless
\* all threads run the callback at once, when nobody is left to take a request.
SetReturns == scan.pc # "rest" ~> scan.pc = "rest" \/ Stuck
=============================================================================
