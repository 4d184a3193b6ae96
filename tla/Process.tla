------------------------------ MODULE Process ------------------------------
(***************************************************************************)
(* The program from start to exit: main (src/main.go) with its modules,    *)
(* and the keys and certificates that the processes of one machine leave   *)
(* to each other on disk (src/crypto.go, Setup and getCertificates in      *)
(* src/server.go, Register and genMasterKeys in src/master.go).            *)
(*                                                                         *)
(* A key pair is a number, and a certificate is the number of the key it   *)
(* certifies; what is in a file is such a number, Missing or Torn, which   *)
(* does not parse.  A user who wants new keys removes a key and its        *)
(* certificate together (as src/rekey.sh does), and waits until nothing    *)
(* works on them.                                                          *)
(*                                                                         *)
(* A definition D_Variant in front of D is D with a mistake in it: it is   *)
(* not used, and shows which property would notice the mistake.            *)
(***************************************************************************)
EXTENDS Integers, FiniteSets

CONSTANTS Proc,       \* processes that run at the same time
          Frontend,   \* the server modules: the FUSE mount, the FTP server
          MaxKeys     \* bound on the number of key pairs

ASSUME ProcessAssumption == MaxKeys \in Nat /\ IsFiniteSet(Frontend)

Missing == 0
Torn    == -1
Key     == 1 .. MaxKeys

\* There is a key and a certificate of the CA, and of the user.
Owner == {"ca", "user"}

VARIABLES key,        \* key[o]: the contents of ca.key and <user>.key
          crt,        \* crt[o]: the contents of ca.crt and <user>.crt
          keys,       \* number of key pairs generated
          killed,     \* killed[o]: a process was killed while making these files
          proc,       \* proc[p]: what main of process p is doing
          module      \* module[p][m]: what the module m of p is doing

disk == <<key, crt, keys, killed>>
vars == <<disk, proc, module>>

Module == {"master", "server"} \cup Frontend

\* pair and priv are the certificate and the private key at hand, cert whether
\* the server has loaded the user's; ec, err and left are variables of main.
Off == [pc |-> "off", mode |-> "none", pair |-> Missing, priv |-> Missing,
        cert |-> FALSE, cancelled |-> FALSE, ec |-> 0, err |-> FALSE, left |-> 0]

NoModule == [m \in Module |-> "none"]

Init ==
  /\ key = [o \in Owner |-> Missing]
  /\ crt = [o \in Owner |-> Missing]
  /\ keys = 0
  /\ killed = [o \in Owner |-> FALSE]
  /\ proc = [p \in Proc |-> Off]
  /\ module = [p \in Proc |-> NoModule]

At(p, pc)   == proc[p].pc = pc
Goto(p, pc) == proc' = [proc EXCEPT ![p].pc = pc]
Uses(p, m)  == module[p][m] # "none"

\* The files a process makes are those of the CA or those of the user.
Makes(p) == IF proc[p].mode = "gen_keys" THEN "ca" ELSE "user"

\* log.Fatalln, os.Exit or the end of main.
Exit(p, ec) ==
  proc' = [proc EXCEPT ![p] = [Off EXCEPT !.pc = "exited", !.ec = ec, !.cancelled = proc[p].cancelled]]

Whole(x) == x \in Key

-----------------------------------------------------------------------------
\* What the flags ask for: keys of the CA, a token, a registration, or modules
\* that run.  The frontends come with the server.
Start(p, mode) ==
  /\ proc[p].pc \in {"off", "exited"}
  /\ \E used \in SUBSET Module :
       /\ CASE mode = "gen_keys" -> used = {}
            [] mode = "token"    -> used = {"master"}
            [] mode = "register" -> used = {"server"}
            [] mode = "run"      -> used # {} /\ (used \cap Frontend # {} => "server" \in used)
       /\ module' = [module EXCEPT ![p] = [m \in Module |-> IF m \in used THEN "new" ELSE "none"]]
  /\ proc' = [proc EXCEPT ![p] = [Off EXCEPT !.mode = mode,
                                             !.pc = IF mode = "gen_keys" THEN "newkey" ELSE "new"]]
  /\ UNCHANGED disk

\* newMaster loads its vault: the certificate and then the key.
NewMaster(p) ==
  /\ At(p, "new") /\ Uses(p, "master")
  /\ \/ /\ Whole(crt["ca"])
        /\ proc' = [proc EXCEPT ![p].pc = "vault", ![p].pair = crt["ca"]]
     \/ ~Whole(crt["ca"]) /\ Exit(p, 1)
  /\ UNCHANGED <<disk, module>>

LoadVault(p) ==
  /\ At(p, "vault")
  /\ IF Whole(key["ca"])
     THEN proc' = [proc EXCEPT ![p].priv = key["ca"],
                               ![p].pc = IF Uses(p, "server") THEN "newserver" ELSE "setup"]
     ELSE Exit(p, 1)
  /\ UNCHANGED <<disk, module>>

\* newServer loads the CA's certificate, and the user's if its key is there too.
NewServer(p) ==
  /\ At(p, "newserver") \/ (At(p, "new") /\ ~Uses(p, "master"))
  /\ IF /\ Whole(crt["ca"])
        /\ \/ Missing \in {crt["user"], key["user"]}
           \/ Whole(crt["user"]) /\ key["user"] = crt["user"]
     THEN proc' = [proc EXCEPT ![p].pc = "setup",
                               ![p].cert = Missing \notin {crt["user"], key["user"]}]
     ELSE Exit(p, 1)
  /\ UNCHANGED <<disk, module>>

\* The modules set up one after the other: they listen, connect and sign in.
\* A token is printed, and a registration begins.
Setup(p) ==
  /\ At(p, "setup")
  /\ \/ proc[p].mode = "token" /\ Exit(p, 0) /\ UNCHANGED module
     \/ proc[p].mode = "register" /\ Goto(p, "newkey") /\ UNCHANGED module
     \/ /\ proc[p].mode = "run"
        /\ Uses(p, "server") => proc[p].cert
        /\ module' = [module EXCEPT ![p] = [m \in Module |-> IF Uses(p, m) THEN "running" ELSE "none"]]
        /\ Goto(p, "select")
  /\ UNCHANGED disk

SetupFails(p) ==
  /\ At(p, "setup")
  /\ Exit(p, 1)
  /\ UNCHANGED <<disk, module>>

-----------------------------------------------------------------------------
CreateKey_Overwrites(p) ==
  /\ At(p, "newkey")
  /\ keys < MaxKeys
  /\ keys' = keys + 1
  /\ key' = [key EXCEPT ![Makes(p)] = Torn]
  /\ proc' = [proc EXCEPT ![p].pc = "writekey", ![p].pair = keys + 1]
  /\ UNCHANGED <<crt, killed, module>>

\* createKeyPair: pemToFile makes a new file or fails,
CreateKey(p) ==
  /\ At(p, "newkey")
  /\ \/ /\ key[Makes(p)] = Missing
        /\ keys < MaxKeys
        /\ keys' = keys + 1
        /\ key' = [key EXCEPT ![Makes(p)] = Torn]
        /\ proc' = [proc EXCEPT ![p].pc = "writekey", ![p].pair = keys + 1]
     \/ key[Makes(p)] # Missing /\ Exit(p, 1) /\ UNCHANGED <<key, keys>>
  /\ UNCHANGED <<crt, killed, module>>

\* and removes it if it cannot be written.
WriteKey(p) ==
  /\ At(p, "writekey")
  /\ \/ /\ key' = [key EXCEPT ![Makes(p)] = proc[p].pair]
        /\ Goto(p, IF Makes(p) = "ca" THEN "newcrt" ELSE "register")
     \/ key' = [key EXCEPT ![Makes(p)] = Missing] /\ Exit(p, 1)
  /\ UNCHANGED <<crt, keys, killed, module>>

\* createCA signs its own certificate and writes it in the same way,
CreateCert(p) ==
  /\ At(p, "newcrt")
  /\ \/ /\ crt["ca"] = Missing
        /\ crt' = [crt EXCEPT !["ca"] = Torn]
        /\ Goto(p, "writecrt")
     \/ Goto(p, "undo") /\ UNCHANGED crt
  /\ UNCHANGED <<key, keys, killed, module>>

WriteCert(p) ==
  /\ At(p, "writecrt")
  /\ \/ crt' = [crt EXCEPT !["ca"] = proc[p].pair] /\ Goto(p, "test")
     \/ crt' = [crt EXCEPT !["ca"] = Missing] /\ Goto(p, "undo")
  /\ UNCHANGED <<key, keys, killed, module>>

\* and removes the key when there is no certificate for it.
Undo(p) ==
  /\ At(p, "undo")
  /\ key' = [key EXCEPT !["ca"] = Missing]
  /\ Exit(p, 1)
  /\ UNCHANGED <<crt, keys, killed, module>>

\* genMasterKeys loads what it has made.
Test(p) ==
  /\ At(p, "test")
  /\ Exit(p, IF Whole(crt["ca"]) /\ Whole(key["ca"]) THEN 0 ELSE 1)
  /\ UNCHANGED <<disk, module>>

\* The master signs the key, refuses the token or cannot be reached.
Register(p) ==
  /\ At(p, "register")
  /\ Goto(p, "store") \/ Exit(p, 1)
  /\ UNCHANGED <<disk, module>>

\* ioutil.WriteFile truncates the file and writes it.
StoreCert(p) ==
  /\ At(p, "store")
  /\ crt' = [crt EXCEPT !["user"] = Torn]
  /\ Goto(p, "storing")
  /\ UNCHANGED <<key, keys, killed, module>>

CertStored(p) ==
  /\ At(p, "storing")
  /\ \/ crt' = [crt EXCEPT !["user"] = proc[p].pair] /\ Exit(p, 0)
     \/ Exit(p, 1) /\ UNCHANGED crt
  /\ UNCHANGED <<key, keys, killed, module>>

-----------------------------------------------------------------------------
\* Run of a module returns.  The server's only does when it is cancelled, and
\* it and the master's return nil.
Returns(p, m) ==
  /\ module[p][m] \in {"running", "stuck"}
  /\ m = "server" => proc[p].cancelled
  /\ \E result \in IF m \in Frontend THEN {"nil", "error"} ELSE {"nil"} :
       module' = [module EXCEPT ![p][m] = result]
  /\ UNCHANGED <<disk, proc>>

\* A frontend goes on serving although it was cancelled: the file system is in
\* use and cannot be unmounted.
Stuck(p, m) ==
  /\ m \in Frontend
  /\ module[p][m] = "running"
  /\ proc[p].cancelled
  /\ module' = [module EXCEPT ![p][m] = "stuck"]
  /\ UNCHANGED <<disk, proc>>

\* main receives the result of m from ret.
Receive(p, m) ==
  /\ module[p][m] \in {"nil", "error"}
  /\ module' = [module EXCEPT ![p][m] = IF @ = "nil" THEN "done" ELSE "failed"]

\* The signal arrives while main waits.
Signal(p) ==
  /\ At(p, "select")
  /\ proc' = [proc EXCEPT ![p].pc = "wait", ![p].cancelled = TRUE]
  /\ UNCHANGED <<disk, module>>

First_NotCancelled(p, m) ==
  /\ proc[p].pc \in {"select", "wait"}
  /\ Receive(p, m)
  /\ proc' = [proc EXCEPT ![p].pc = "collect", ![p].err = module[p][m] = "error",
                          ![p].left = Cardinality({x \in Module : Uses(p, x)}) - 1]
  /\ UNCHANGED disk

\* The first result cancels the other modules, if a signal has not.
First(p, m) ==
  /\ proc[p].pc \in {"select", "wait"}
  /\ Receive(p, m)
  /\ proc' = [proc EXCEPT ![p].pc = "collect", ![p].cancelled = TRUE,
                          ![p].err = module[p][m] = "error",
                          ![p].left = Cardinality({x \in Module : Uses(p, x)}) - 1]
  /\ UNCHANGED disk

Noted_Last(p) == IF proc[p].err THEN 1 ELSE 0

\* The exit code once the result at hand has been looked at.
Noted(p) == IF proc[p].err THEN 1 ELSE proc[p].ec

Collect(p, m) ==
  /\ At(p, "collect")
  /\ proc[p].left > 0
  /\ Receive(p, m)
  /\ proc' = [proc EXCEPT ![p].ec = Noted(p), ![p].err = module[p][m] = "error", ![p].left = @ - 1]
  /\ UNCHANGED disk

Collected(p) ==
  /\ At(p, "collect")
  /\ proc[p].left = 0
  /\ Exit(p, Noted(p))
  /\ UNCHANGED <<disk, module>>

-----------------------------------------------------------------------------
Making == {"writekey", "newcrt", "writecrt", "undo", "register", "store", "storing"}

\* A signal that main does not wait for, or a crash.
Kill(p) ==
  /\ proc[p].pc \notin {"off", "exited"}
  /\ killed' = [killed EXCEPT ![Makes(p)] = @ \/ proc[p].pc \in Making]
  /\ proc' = [proc EXCEPT ![p] = Off]
  /\ module' = [module EXCEPT ![p] = NoModule]
  /\ UNCHANGED <<key, crt, keys>>

\* The user starts over.
Remove(o) ==
  /\ \A p \in Proc : proc[p].pc \in {"off", "exited", "select", "wait", "collect"}
  /\ key' = [key EXCEPT ![o] = Missing]
  /\ crt' = [crt EXCEPT ![o] = Missing]
  /\ killed' = [killed EXCEPT ![o] = FALSE]
  /\ UNCHANGED <<keys, proc, module>>

Main(p) == (\E m \in Module : First(p, m) \/ Collect(p, m)) \/ Collected(p)

Next ==
  \/ \E p \in Proc :
       \/ \E mode \in {"gen_keys", "token", "register", "run"} : Start(p, mode)
       \/ NewMaster(p) \/ LoadVault(p) \/ NewServer(p) \/ Setup(p) \/ SetupFails(p)
       \/ CreateKey(p) \/ WriteKey(p) \/ CreateCert(p) \/ WriteCert(p) \/ Undo(p) \/ Test(p)
       \/ Register(p) \/ StoreCert(p) \/ CertStored(p)
       \/ \E m \in Module : Returns(p, m) \/ Stuck(p, m)
       \/ Signal(p) \/ Main(p) \/ Kill(p)
  \/ \E o \in Owner : Remove(o)

Spec == Init /\ [][Next]_vars

\* main goes on while it can, and a module whose context is cancelled returns
\* unless it is stuck.
FairSpec ==
  /\ Spec
  /\ \A p \in Proc :
       /\ WF_vars(Main(p))
       /\ \A m \in Module :
            WF_vars(proc[p].cancelled /\ module[p][m] = "running" /\ (Returns(p, m) \/ Stuck(p, m)))

-----------------------------------------------------------------------------
\* However many processes generate keys and register at once, and wherever they
\* fail or are killed: a certificate that can be read is one for the key next to
\* it, and a master serves with a key and a certificate that belong together,
\* which it does not check.  The CA has both of its files or neither, unless a
\* process was killed while it made them.
KeysMatch ==
  /\ \A o \in Owner : Whole(crt[o]) => key[o] = crt[o]
  /\ \A p \in Proc : proc[p].priv # Missing => proc[p].priv = proc[p].pair
  /\ ~killed["ca"] /\ (\A p \in Proc : proc[p].pc \in Making => Makes(p) = "user")
       => key["ca"] = crt["ca"] /\ key["ca"] # Torn

\* A process that has launched its modules exits on its own only after the Run
\* of each has returned, and its exit code tells whether one of them failed, in
\* whatever order their results arrive.
ExitTellsAll ==
  \A p \in Proc : At(p, "exited") /\ proc[p].cancelled =>
    /\ \A m \in Module : module[p][m] \in {"none", "done", "failed"}
    /\ proc[p].ec = 1 <=> \E m \in Module : module[p][m] = "failed"

\* Once a signal has arrived or a module has returned, the process exits, or a
\* frontend that cannot be unmounted keeps it.
ExitsWhenCancelled ==
  \A p \in Proc : proc[p].pc \in {"wait", "collect"} ~>
    proc[p].pc \in {"off", "exited"} \/ \E m \in Module : module[p][m] = "stuck"
=============================================================================
