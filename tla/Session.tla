------------------------------- MODULE Session -------------------------------
(***************************************************************************)
(* A peer's sessions with the master: the client of src/types.go, shared   *)
(* by the peer's SetFile threads (src/server.go), and the connections as   *)
(* the master sees them (src/master.go).                                   *)
(*                                                                         *)
(* A thread is a stack of invocations of Call: the reconnect callback that *)
(* Call runs signs in with Call itself.  A frame records what is called,   *)
(* how far Call has got, the connection the request went out on and the    *)
(* callback it took out of the client.  No lock protects the fields of the *)
(* client, so every access to one is a step.                               *)
(*                                                                         *)
(* A peer's frontend asks its questions with the same client, whether the  *)
(* peer shares files or not.                                               *)
(*                                                                         *)
(* A connection the network has cut is "broken" for the client at once;    *)
(* the master serves it until Peer.Disconnected has run.  All connections  *)
(* of the peer have the same ident, so the master's database is one set of *)
(* files.  The scanner and an exporting callback hand their files to idle  *)
(* threads over an unbuffered channel.                                     *)
(*                                                                         *)
(* A definition D_Variant in front of D is D with a mistake in it: it is   *)
(* not used, and shows which property would notice the mistake.            *)
(***************************************************************************)
EXTENDS Integers, Sequences, FiniteSets, Functions

CONSTANTS Thread,     \* the SetFile threads of the peer and its frontend's
          File,       \* the files it shares
          MaxConn,    \* bound on the number of connections
          Sharing     \* the values of HasShares

ASSUME SessionAssumption ==
  /\ MaxConn \in Nat \ {0}
  /\ Sharing \subseteq BOOLEAN

VARIABLES client,     \* the connection in RUFSMasterClient
          reconnCb,   \* its callback: "real", or "noop" while one is running
          stack,      \* stack[t]: the calls of thread t, the current one first
          export,     \* export[t]: files t's callback still has to hand over
          scan,       \* files the scanner still has to hand over
          HasAddress, \* it signs in with an address: --share or --external_ip is set
          HasShares,  \* --share is set: it publishes files, and exports on reconnect
          overlapped, \* a reconnect has begun before another one had ended
          state,      \* state[c]: "unused", "open" or "broken"
          refused,    \* connections on which the master has refused to sign in
          served,     \* connections the master's goroutines still serve
          fields,     \* fields[c]: what Signin has set in the Peer of c
          db          \* what the master has of this peer: files, and whether
                      \* they are stored under its ident

peer   == <<client, reconnCb, stack, export, scan, HasAddress, HasShares, overlapped>>
net    == <<state, refused>>
master == <<served, fields, db>>
vars   == <<peer, net, master>>

Conn == 1 .. MaxConn

\* An invocation of Call that has not looked at the client yet.
Frame(m, f) ==
  [method |-> m, file |-> f, pc |-> "call", conn |-> 1, cb |-> "none", wrote |-> 0]

NoFile == "nofile"

Idle(t) == stack[t] = << >>
Top(t)  == Head(stack[t])
At(t, pc) == ~Idle(t) /\ Top(t).pc = pc

\* The stack of t with its current frame replaced.
Replaced(t, frame) == <<frame>> \o Tail(stack[t])
Goto(t, pc) == stack' = [stack EXCEPT ![t] = Replaced(t, [Top(t) EXCEPT !.pc = pc])]

-----------------------------------------------------------------------------
SigninWrites_UserFirst ==
  IF HasAddress THEN <<"address", "user", "ident">> ELSE <<"user">>

\* The fields of the Peer that Signin assigns, in this order.
SigninWrites == IF HasAddress THEN <<"address", "ident", "user">> ELSE <<"user">>

\* After Setup: connected and signed in.
Init ==
  /\ client = 1
  /\ reconnCb = "real"
  /\ stack = [t \in Thread |-> << >>]
  /\ export = [t \in Thread |-> {}]
  /\ HasShares \in Sharing
  /\ HasAddress \in {HasShares, TRUE}
  /\ scan = IF HasShares THEN File ELSE {}
  /\ overlapped = FALSE
  /\ refused = {}
  /\ state = [c \in Conn |-> IF c = 1 THEN "open" ELSE "unused"]
  /\ served = {1}
  /\ fields = [c \in Conn |-> IF c = 1 THEN Range(SigninWrites) ELSE {}]
  /\ db = {}

\* The scanner has something new to say about f.
Detected(f) ==
  /\ HasShares
  /\ scan' = scan \cup {f}
  /\ UNCHANGED <<client, reconnCb, stack, export, HasAddress, HasShares, overlapped, net, master>>

\* A frontend has a question for the master.
Asks(t) ==
  /\ Idle(t)
  /\ stack' = [stack EXCEPT ![t] = <<Frame("GetDir", NoFile)>>]
  /\ UNCHANGED <<client, reconnCb, export, scan, HasAddress, HasShares, overlapped, net, master>>

\* An idle thread receives a request from the scanner or from the callback
\* that thread e is running.
FromScanner(t, f) ==
  /\ Idle(t)
  /\ f \in scan
  /\ stack' = [stack EXCEPT ![t] = <<Frame("SetFile", f)>>]
  /\ scan' = scan \ {f}
  /\ UNCHANGED <<client, reconnCb, export, HasAddress, HasShares, overlapped, net, master>>

FromExport(t, e, f) ==
  /\ Idle(t)
  /\ f \in export[e]
  /\ stack' = [stack EXCEPT ![t] = <<Frame("SetFile", f)>>]
  /\ export' = [export EXCEPT ![e] = @ \ {f}]
  /\ UNCHANGED <<client, reconnCb, scan, HasAddress, HasShares, overlapped, net, master>>

Restored_Never(t) == reconnCb

\* The deferred assignment, if Call has got that far.
Restored(t) == IF Top(t).cb = "none" THEN reconnCb ELSE Top(t).cb

Resumed_Forgotten(t, ok) == Tail(stack[t])

\* What the caller of the current frame does next: the callback exports or is
\* done when Signin succeeded, and fails when it did not.
Resumed(t, ok) ==
  LET rest == Tail(stack[t])
      next == IF ~ok THEN "failed" ELSE IF HasShares THEN "export" ELSE "recall"
  IN  IF rest = << >> THEN rest
      ELSE <<[Head(rest) EXCEPT !.pc = next]>> \o Tail(rest)

\* The callback of t cancels the export that is running and starts its own: a
\* cancelled one can still be blocked on handing over a single file.
Exporting(t) ==
  {x \in [Thread -> SUBSET File] :
     /\ x[t] = File
     /\ \A e \in Thread \ {t} : x[e] \subseteq export[e] /\ Cardinality(x[e]) <= 1}

\* The current Call returns.
Return(t, ok) ==
  /\ stack' = [stack EXCEPT ![t] = Resumed(t, ok)]
  /\ reconnCb' = Restored(t)
  /\ IF ok /\ HasShares /\ Len(stack[t]) > 1 THEN export' \in Exporting(t)
     ELSE UNCHANGED export
  /\ UNCHANGED <<client, scan, HasAddress, HasShares, overlapped>>

-----------------------------------------------------------------------------
\* The request goes out on the client's connection.
Send(t, pc) ==
  /\ state[client] = "open"
  /\ stack' = [stack EXCEPT ![t] = Replaced(t, [Top(t) EXCEPT !.pc = pc, !.conn = client])]
  /\ UNCHANGED <<client, reconnCb, export, scan, HasAddress, HasShares, overlapped, net, master>>

Call(t) ==
  /\ At(t, "call")
  /\ \/ Send(t, "sent")
     \/ /\ state[client] = "broken"     \* rpc.ErrShutdown
        /\ Goto(t, "dial")
        /\ UNCHANGED <<client, reconnCb, export, scan, HasAddress, HasShares, overlapped, net, master>>

Recall(t) ==
  /\ At(t, "recall")
  /\ \/ Send(t, "sent")
     \/ state[client] = "broken" /\ Return(t, FALSE) /\ UNCHANGED <<net, master>>

\* The master's handlers.  SetFile looks at the address, then at the user, whose
\* empty name is an invalid part of a path, then at the ident.  All three are
\* only ever written, so that looking at them in one step is as good.
SetFile(c, f) ==
  /\ db' = IF {"address", "user"} \subseteq fields[c]
           THEN db \cup {[file |-> f, ident |-> "ident" \in fields[c]]} ELSE db
  /\ UNCHANGED fields

\* Signin assigns the fields one by one, while other requests on the same
\* connection are handled.
Signin(t) ==
  /\ At(t, "sent")
  /\ Top(t).method = "Signin"
  /\ Top(t).conn \in served
  /\ Top(t).wrote < Len(SigninWrites)
  /\ fields' = [fields EXCEPT ![Top(t).conn] = @ \cup {SigninWrites[Top(t).wrote + 1]}]
  /\ stack' = [stack EXCEPT ![t] = Replaced(t, [Top(t) EXCEPT !.wrote = @ + 1])]
  /\ UNCHANGED <<client, reconnCb, export, scan, HasAddress, HasShares, overlapped, net, served, db>>

\* What a handler still does when the others are not to come in between.
Handled(t) ==
  \/ Top(t).method = "SetFile" /\ SetFile(Top(t).conn, Top(t).file)
  \/ Top(t).method = "GetDir" /\ UNCHANGED <<fields, db>>
  \/ /\ Top(t).method = "Signin"
     /\ fields' = [fields EXCEPT ![Top(t).conn] = Range(SigninWrites)]
     /\ UNCHANGED db

\* The master answers,
Answered(t) ==
  /\ At(t, "sent")
  /\ state[Top(t).conn] = "open"
  /\ Top(t).method = "Signin" => Top(t).wrote = Len(SigninWrites)
  /\ Handled(t)
  /\ Return(t, TRUE)
  /\ UNCHANGED <<net, served>>

\* refuses to sign in (it cannot reach the peer at its address),
SigninRefused(t) ==
  /\ At(t, "sent")
  /\ state[Top(t).conn] = "open"
  /\ Top(t).method = "Signin"
  /\ Top(t).wrote = 0
  /\ refused' = refused \cup {Top(t).conn}
  /\ Return(t, FALSE)
  /\ UNCHANGED <<state, master>>

\* or the connection is cut, before the request arrived or after.
Lost(t) ==
  /\ At(t, "sent")
  /\ state[Top(t).conn] = "broken"
  /\ \/ Top(t).wrote \in {0, Len(SigninWrites)} /\ UNCHANGED <<fields, db>>
     \/ Top(t).conn \in served /\ Handled(t)
  /\ Return(t, FALSE)
  /\ UNCHANGED <<net, served>>

\* NewRUFSMasterClient, and its connection becomes the client's.
Dial(t, c) ==
  /\ At(t, "dial")
  /\ state[c] = "unused" /\ \A x \in 1 .. c - 1 : state[x] # "unused"
  /\ state' = [state EXCEPT ![c] = "open"]
  /\ served' = served \cup {c}
  /\ client' = c
  /\ Goto(t, "dialed")
  /\ UNCHANGED <<reconnCb, export, scan, HasAddress, HasShares, overlapped, refused, fields, db>>

DialFails_Retries(t) ==
  /\ At(t, "dial")
  /\ UNCHANGED vars

DialFails(t) ==
  /\ At(t, "dial")
  /\ Return(t, FALSE)
  /\ UNCHANGED <<net, master>>

\* Some invocation of Call on the stack of t has taken the callback out.
HasCb(t) == \E i \in 1 .. Len(stack[t]) : stack[t][i].cb # "none"

TakeCb(t) ==
  /\ At(t, "dialed")
  /\ stack' = [stack EXCEPT ![t] = Replaced(t, [Top(t) EXCEPT !.pc = "taken", !.cb = reconnCb])]
  /\ overlapped' = (overlapped \/ \E u \in Thread \ {t} : HasCb(u))
  /\ UNCHANGED <<client, reconnCb, export, scan, HasAddress, HasShares, net, master>>

RunCb_Skipped(t) ==
  /\ At(t, "taken")
  /\ reconnCb' = "noop"
  /\ Goto(t, "recall")
  /\ UNCHANGED <<client, export, scan, HasAddress, HasShares, overlapped, net, master>>

\* The callback is replaced and the one that was there is run.
RunCb(t) ==
  /\ At(t, "taken")
  /\ reconnCb' = "noop"
  /\ \/ Top(t).cb = "noop" /\ Goto(t, "recall")
     \/ /\ Top(t).cb = "real"
        /\ stack' = [stack EXCEPT ![t] =
                       <<Frame("Signin", NoFile)>> \o Replaced(t, [Top(t) EXCEPT !.pc = "signin"])]
  /\ UNCHANGED <<client, export, scan, HasAddress, HasShares, overlapped, net, master>>

ExportDone(t) ==
  /\ At(t, "export")
  /\ export[t] = {}
  /\ Goto(t, "recall")
  /\ UNCHANGED <<client, reconnCb, export, scan, HasAddress, HasShares, overlapped, net, master>>

CbFailed(t) ==
  /\ At(t, "failed")
  /\ Return(t, FALSE)
  /\ UNCHANGED <<net, master>>

-----------------------------------------------------------------------------
\* The network cuts a connection.
Break(c) ==
  /\ state[c] = "open"
  /\ state' = [state EXCEPT ![c] = "broken"]
  /\ UNCHANGED <<peer, refused, master>>

\* ServeConn returns at the master when its handlers have, and
\* Peer.Disconnected clears the database if the peer has an address.
Disconnected(c) ==
  /\ c \in served
  /\ state[c] = "broken"
  /\ \A t \in Thread :
       At(t, "sent") /\ Top(t).conn = c => Top(t).wrote \in {0, Len(SigninWrites)}
  /\ served' = served \ {c}
  /\ db' = IF "address" \in fields[c]
           THEN {e \in db : e.ident # ("ident" \in fields[c])} ELSE db
  /\ UNCHANGED <<peer, net, fields>>

Step(t) ==
  \/ Call(t) \/ Recall(t) \/ Signin(t) \/ Answered(t) \/ SigninRefused(t) \/ Lost(t)
  \/ \E c \in Conn : Dial(t, c)
  \/ DialFails(t) \/ TakeCb(t) \/ RunCb(t) \/ ExportDone(t) \/ CbFailed(t)

Next ==
  \/ \E f \in File : Detected(f)
  \/ \E t \in Thread : Asks(t)
  \/ \E t \in Thread, f \in File : FromScanner(t, f)
  \/ \E t, e \in Thread, f \in File : FromExport(t, e, f)
  \/ \E t \in Thread : Step(t)
  \/ \E c \in Conn : Break(c) \/ Disconnected(c)

Spec == Init /\ [][Next]_vars

\* A goroutine that can go on does; a request is answered or its connection cut.
FairSpec == Spec /\ \A t \in Thread : WF_vars(Step(t))

-----------------------------------------------------------------------------
\* The client's fields and the connections have their types, and the frames of
\* a stack below the current one are calls whose callback is signing in.
TypeOK ==
  /\ client \in Conn
  /\ reconnCb \in {"real", "noop"}
  /\ stack \in [Thread -> Seq([method : {"SetFile", "GetDir", "Signin"}, file : File \cup {NoFile},
                                pc : {"call", "sent", "dial", "dialed", "taken", "signin",
                                      "export", "recall", "failed"},
                                conn : Conn, cb : {"none", "real", "noop"}, wrote : 0 .. 3])]
  /\ export \in [Thread -> SUBSET File]
  /\ scan \subseteq File
  /\ HasAddress \in BOOLEAN /\ HasShares \in BOOLEAN /\ overlapped \in BOOLEAN
  /\ state \in [Conn -> {"unused", "open", "broken"}]
  /\ refused \subseteq Conn
  /\ served \subseteq Conn
  /\ fields \in [Conn -> SUBSET {"address", "ident", "user"}]
  /\ db \subseteq [file : File, ident : BOOLEAN]
  /\ \A t \in Thread : \A i \in 1 .. Len(stack[t]) :
       stack[t][i].pc = "signin" <=> i > 1

\* The master has files of the peer only while it serves a connection on which
\* the peer has signed in: nothing is stored for an unsigned connection, or
\* under an empty ident by a request that overtakes the Signin on its own
\* connection, and the last connection to go takes everything with it, requests
\* that are answered after the cut included.
NothingOfTheGone == db # {} => \E c \in served : "address" \in fields[c]

\* As long as no two threads are within a reconnect at once, the client never
\* loses its callback: whenever no call is running it is in place, after failed
\* dials, failed sign-ins and reconnects within the sign-in of a reconnect.
CallbackKept ==
  ~overlapped /\ (\A t \in Thread : Idle(t)) => reconnCb = "real"

\* ... and unless the master has refused it, an open connection between two
\* calls is one on which the peer has signed in.  Of two threads that reconnect
\* at once, the second may take out the no-op the first has put in the
\* callback's place, and nobody signs in on its connection.
SignedBetweenCalls ==
  /\ ~overlapped
  /\ \A t \in Thread : Idle(t)
  /\ state[client] = "open"
  => client \in refused \/ Range(SigninWrites) \subseteq fields[client]

\* Every call of a peer without shares returns.  The callback of one with
\* shares waits for other threads, which may do the same.
CallReturns == \A t \in Thread : (~HasShares /\ ~Idle(t)) ~> Idle(t)

\* Nothing is left to do: no call is running, the scanner and the master are done
\* with everything, and the peer has signed in on the connection it has, which
\* no two threads made at once and the master did not refuse.
Settled ==
  /\ \A t \in Thread : Idle(t)
  /\ scan = {}
  /\ ~overlapped /\ refused = {}
  /\ state[client] = "open" /\ Range(SigninWrites) \subseteq fields[client]
  /\ \A c \in served : state[c] = "open"

\* "participants can run servers that connect to the master and publish which
\* files they have": when nothing is left to do, everything is published.
AllPublished == Settled => {e.file : e \in db} = File
=============================================================================
