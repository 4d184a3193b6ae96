---------------------------- MODULE ProcessProofs ----------------------------
(***************************************************************************)
(* Proofs about Process for any number of processes, frontends and keys.   *)
(***************************************************************************)
EXTENDS Process, FiniteSetTheorems, TLAPS

PC == {"off", "new", "vault", "newserver", "setup", "newkey", "writekey", "newcrt",
       "writecrt", "undo", "test", "register", "store", "storing", "select", "wait",
       "collect", "exited"}

ProcType ==
  [pc : PC, mode : {"none", "gen_keys", "token", "register", "run"},
   pair : Key \cup {Missing}, priv : Key \cup {Missing}, cert : BOOLEAN,
   cancelled : BOOLEAN, ec : {0, 1}, err : BOOLEAN, left : Int]

TypeInv ==
  /\ key \in [Owner -> Key \cup {Missing, Torn}]
  /\ crt \in [Owner -> Key \cup {Missing, Torn}]
  /\ keys \in 0 .. MaxKeys
  /\ killed \in [Owner -> BOOLEAN]
  /\ proc \in [Proc -> ProcType]
  /\ module \in [Proc -> [Module -> {"none", "new", "running", "stuck", "nil", "error",
                                     "done", "failed"}]]

\* What the files contain while process p makes them.
MakerOf(p) ==
  LET o == Makes(p)
  IN  /\ proc[p].pc = "writekey" => key[o] = Torn /\ crt[o] = Missing /\ Whole(proc[p].pair)
      /\ proc[p].pc \in {"newcrt", "undo", "register", "store"} =>
           key[o] = proc[p].pair /\ crt[o] = Missing /\ Whole(proc[p].pair)
      /\ proc[p].pc \in {"writecrt", "storing"} =>
           key[o] = proc[p].pair /\ crt[o] = Torn /\ Whole(proc[p].pair)
      /\ proc[p].pc \in {"newcrt", "writecrt", "undo", "test"} => o = "ca"
      /\ proc[p].pc \in {"register", "store", "storing"} => o = "user"

\* A process works on the keys of the CA or the user's, or it has those of the
\* CA in its vault, never both.  Between the two reads of its vault, what it has
\* read is still on disk.
VaultOf(p) ==
  /\ proc[p].pc \in {"new", "vault", "newkey"} => proc[p].priv = Missing
  /\ proc[p].mode \in {"gen_keys", "register"} => proc[p].priv = Missing /\ proc[p].pc # "vault"
  /\ proc[p].mode = "gen_keys" => proc[p].pc # "new"
  /\ proc[p].mode = "register" => ~Uses(p, "master")
  /\ proc[p].pc = "vault" =>
       Whole(proc[p].pair) /\ crt["ca"] = proc[p].pair /\ key["ca"] = proc[p].pair
  /\ proc[p].priv # Missing => proc[p].priv = proc[p].pair

\* Two processes never make the same files, and a certificate is there only with
\* its key.
KeyInv ==
  /\ \A p \in Proc : MakerOf(p) /\ VaultOf(p)
  /\ \A p, q \in Proc :
       p # q /\ proc[p].pc \in Making /\ proc[q].pc \in Making => Makes(p) # Makes(q)
  /\ \A o \in Owner : key[o] = Missing => crt[o] = Missing
  /\ \A o \in Owner : Whole(crt[o]) => key[o] = crt[o]
  /\ ~killed["ca"] /\ (\A p \in Proc : proc[p].pc \in Making => Makes(p) = "user")
       => key["ca"] = crt["ca"] /\ key["ca"] # Torn

\* The modules whose result main has not received.
Pending(p) == {m \in Module : module[p][m] \notin {"none", "done", "failed"}}

Failed(p) == \E m \in Module : module[p][m] = "failed"

\* While main collects results it waits for as many as there are left, and the
\* exit code with the result at hand tells whether one has failed.
ResultOf(p) ==
  /\ proc[p].cancelled => proc[p].pc \in {"wait", "collect", "exited"}
  /\ proc[p].pc \notin {"collect", "exited"} => proc[p].ec = 0 /\ ~proc[p].err
  /\ proc[p].pc \in {"select", "wait"} =>
       \A m \in Module : module[p][m] \notin {"done", "failed"}
  /\ proc[p].pc = "collect" =>
       /\ proc[p].left = Cardinality(Pending(p))
       /\ Noted(p) = 1 <=> Failed(p)
  /\ proc[p].pc = "exited" /\ proc[p].cancelled =>
       /\ Pending(p) = {}
       /\ proc[p].ec = 1 <=> Failed(p)

ResultInv == \A p \in Proc : ResultOf(p)

-----------------------------------------------------------------------------
(* What the assignments to proc do.                                        *)

\* Missing and Torn are no keys.
LEMMA KeysApart == Missing \notin Key /\ Torn \notin Key /\ Missing # Torn
BY ProcessAssumption DEF Missing, Torn, Key

\* The record of a process that does not run is of the right type.
LEMMA OffType == Off \in ProcType
BY DEF Off, ProcType, PC

\* Exit leaves a record that differs from Off in three fields.
LEMMA ExitFields ==
  ASSUME TypeInv, NEW p \in Proc, NEW ec \in {0, 1}, Exit(p, ec)
  PROVE  /\ proc' \in [Proc -> ProcType]
         /\ \A q \in Proc \ {p} : proc'[q] = proc[q]
         /\ proc'[p].pc = "exited" /\ proc'[p].mode = "none"
         /\ proc'[p].priv = Missing
         /\ proc'[p].ec = ec /\ proc'[p].cancelled = proc[p].cancelled
<1>1. proc[p] \in ProcType
  BY DEF TypeInv
<1>2. [Off EXCEPT !.pc = "exited", !.ec = ec, !.cancelled = proc[p].cancelled] \in ProcType
  BY <1>1, OffType DEF ProcType, PC
<1> QED
  BY <1>2 DEF Exit, TypeInv, Off

\* Goto changes the program counter only.
LEMMA GotoFields ==
  ASSUME TypeInv, NEW p \in Proc, NEW pc \in PC, Goto(p, pc)
  PROVE  /\ proc' \in [Proc -> ProcType]
         /\ \A q \in Proc \ {p} : proc'[q] = proc[q]
         /\ proc'[p] = [proc[p] EXCEPT !.pc = pc]
<1>1. proc[p] \in ProcType
  BY DEF TypeInv
<1>2. [proc[p] EXCEPT !.pc = pc] \in ProcType
  BY <1>1 DEF ProcType
<1> QED
  BY <1>2 DEF Goto, TypeInv

\* The assignments of the steps that load or make a key or certificate.
Loads(p, pc) ==
  \/ \E k \in Key : proc' = [proc EXCEPT ![p].pc = pc, ![p].pair = k]
  \/ \E k \in Key : proc' = [proc EXCEPT ![p].priv = k, ![p].pc = pc]
  \/ \E b \in BOOLEAN : proc' = [proc EXCEPT ![p].pc = pc, ![p].cert = b]

\* They change the fields they name only.
LEMMA LoadFields ==
  ASSUME TypeInv, NEW p \in Proc, NEW pc \in PC, Loads(p, pc)
  PROVE  /\ proc' \in [Proc -> ProcType]
         /\ \A q \in Proc \ {p} : proc'[q] = proc[q]
         /\ proc'[p].pc = pc /\ proc'[p].mode = proc[p].mode
         /\ proc'[p].ec = proc[p].ec /\ proc'[p].err = proc[p].err
         /\ proc'[p].cancelled = proc[p].cancelled
<1>1. proc[p] \in ProcType
  BY DEF TypeInv
<1>2. CASE \E k \in Key : proc' = [proc EXCEPT ![p].pc = pc, ![p].pair = k]
  <2>1. PICK k \in Key : proc' = [proc EXCEPT ![p] = [proc[p] EXCEPT !.pc = pc, !.pair = k]]
    BY <1>2
  <2>2. [proc[p] EXCEPT !.pc = pc, !.pair = k] \in ProcType
    BY <1>1 DEF ProcType
  <2> QED
    BY <1>1, <2>1, <2>2 DEF TypeInv, ProcType
<1>3. CASE \E k \in Key : proc' = [proc EXCEPT ![p].priv = k, ![p].pc = pc]
  <2>1. PICK k \in Key : proc' = [proc EXCEPT ![p] = [proc[p] EXCEPT !.priv = k, !.pc = pc]]
    BY <1>3
  <2>2. [proc[p] EXCEPT !.priv = k, !.pc = pc] \in ProcType
    BY <1>1 DEF ProcType
  <2> QED
    BY <1>1, <2>1, <2>2 DEF TypeInv, ProcType
<1>4. CASE \E b \in BOOLEAN : proc' = [proc EXCEPT ![p].pc = pc, ![p].cert = b]
  <2>1. PICK b \in BOOLEAN : proc' = [proc EXCEPT ![p] = [proc[p] EXCEPT !.pc = pc, !.cert = b]]
    BY <1>4
  <2>2. [proc[p] EXCEPT !.pc = pc, !.cert = b] \in ProcType
    BY <1>1 DEF ProcType
  <2> QED
    BY <1>1, <2>1, <2>2 DEF TypeInv, ProcType
<1> QED
  BY <1>2, <1>3, <1>4 DEF Loads

-----------------------------------------------------------------------------
(* Types.                                                                  *)

\* The steps of main before the modules run, and of key generation and
\* registration.
EarlyStep(p) ==
  \/ NewMaster(p) \/ LoadVault(p) \/ NewServer(p) \/ SetupFails(p)
  \/ CreateKey(p) \/ WriteKey(p) \/ CreateCert(p) \/ WriteCert(p) \/ Undo(p) \/ Test(p)
  \/ Register(p) \/ StoreCert(p) \/ CertStored(p)

\* Where they lead as long as main goes on.
EarlyPC == PC \ {"off", "select", "wait", "collect", "exited"}

\* Each ends the process, moves it on, or moves it on with a key or certificate.
LEMMA EarlyForms ==
  ASSUME TypeInv, NEW p \in Proc, EarlyStep(p)
  PROVE  /\ proc[p].pc \in EarlyPC
         /\ \/ \E ec \in {0, 1} : Exit(p, ec)
            \/ \E pc \in EarlyPC : Goto(p, pc) \/ Loads(p, pc)
         /\ module' = module
<1> USE DEF EarlyPC, PC, At
<1>1. CASE NewMaster(p)
  BY <1>1 DEF NewMaster, Whole, Loads
<1>2. CASE LoadVault(p)
  <2> DEFINE pc == IF Uses(p, "server") THEN "newserver" ELSE "setup"
  <2>1. \/ Exit(p, 1)
        \/ key["ca"] \in Key /\ proc' = [proc EXCEPT ![p].priv = key["ca"], ![p].pc = pc]
    BY <1>2 DEF LoadVault, Whole
  <2>2. pc \in EarlyPC
    OBVIOUS
  <2> HIDE DEF pc
  <2>3. Exit(p, 1) \/ Loads(p, pc)
    BY <2>1 DEF Loads
  <2> QED
    BY <1>2, <2>2, <2>3 DEF LoadVault
<1>3. CASE NewServer(p)
  <2> DEFINE b == Missing \notin {crt["user"], key["user"]}
  <2>1. Exit(p, 1) \/ proc' = [proc EXCEPT ![p].pc = "setup", ![p].cert = b]
    BY <1>3 DEF NewServer
  <2>2. b \in BOOLEAN
    OBVIOUS
  <2> HIDE DEF b
  <2>3. Exit(p, 1) \/ Loads(p, "setup")
    BY <2>1, <2>2 DEF Loads
  <2> QED
    BY <1>3, <2>3 DEF NewServer
<1>4. CASE CreateKey(p)
  <2>1. keys < MaxKeys => keys + 1 \in Key
    BY ProcessAssumption DEF TypeInv, Key
  <2> QED
    BY <1>4, <2>1 DEF CreateKey, Loads
<1>5. CASE SetupFails(p) \/ Undo(p) \/ Test(p) \/ Register(p)
  BY <1>5 DEF SetupFails, Undo, Test, Register
<1>6. CASE WriteKey(p)
  BY <1>6 DEF WriteKey
<1>7. CASE CreateCert(p) \/ WriteCert(p) \/ StoreCert(p) \/ CertStored(p)
  BY <1>7 DEF CreateCert, WriteCert, StoreCert, CertStored
<1> QED
  BY <1>1, <1>2, <1>3, <1>4, <1>5, <1>6, <1>7 DEF EarlyStep

\* They keep the fields of main's result, and touch no other process.
LEMMA EarlyFields ==
  ASSUME TypeInv, NEW p \in Proc, EarlyStep(p)
  PROVE  /\ proc' \in [Proc -> ProcType]
         /\ \A q \in Proc \ {p} : proc'[q] = proc[q]
         /\ proc'[p].pc \in EarlyPC \cup {"exited"}
         /\ proc'[p].cancelled = proc[p].cancelled
         /\ proc'[p].pc \in EarlyPC => proc'[p].ec = proc[p].ec /\ proc'[p].err = proc[p].err
<1>1. EarlyPC \subseteq PC /\ "exited" \notin EarlyPC
  BY DEF EarlyPC
<1>2. CASE \E ec \in {0, 1} : Exit(p, ec)
  BY <1>1, <1>2, ExitFields
<1>3. CASE \E pc \in EarlyPC : Goto(p, pc)
  <2>1. PICK pc \in EarlyPC : Goto(p, pc)
    BY <1>3
  <2>2. proc'[p] = [proc[p] EXCEPT !.pc = pc] /\ proc[p] \in ProcType
    BY <1>1, <2>1, GotoFields DEF TypeInv
  <2> QED
    BY <1>1, <2>1, <2>2, GotoFields DEF ProcType
<1>4. CASE \E pc \in EarlyPC : Loads(p, pc)
  BY <1>1, <1>4, LoadFields
<1> QED
  BY <1>2, <1>3, <1>4, EarlyForms

\* They keep the types.
LEMMA EarlyType ==
  ASSUME TypeInv, NEW p \in Proc, EarlyStep(p)
  PROVE  TypeInv'
<1>1. proc[p].pair \in Key \cup {Missing, Torn} /\ Makes(p) \in Owner
  BY DEF TypeInv, ProcType, Makes, Owner
<1>2. proc' \in [Proc -> ProcType] /\ module' = module
  BY EarlyFields, EarlyForms
<1> USE DEF disk
<1>3. CASE NewMaster(p) \/ LoadVault(p) \/ NewServer(p) \/ SetupFails(p) \/ Test(p) \/ Register(p)
  BY <1>2, <1>3 DEF NewMaster, LoadVault, NewServer, SetupFails, Test, Register, TypeInv
<1>4. CASE CreateKey(p)
  <2>1. keys < MaxKeys => keys + 1 \in 0 .. MaxKeys
    BY ProcessAssumption DEF TypeInv
  <2> QED
    BY <1>1, <1>2, <1>4, <2>1 DEF CreateKey, TypeInv
<1>5. CASE WriteKey(p) \/ Undo(p)
  BY <1>1, <1>2, <1>5 DEF WriteKey, Undo, TypeInv
<1>6. CASE CreateCert(p) \/ WriteCert(p) \/ StoreCert(p) \/ CertStored(p)
  BY <1>1, <1>2, <1>6 DEF CreateCert, WriteCert, StoreCert, CertStored, TypeInv
<1> QED
  BY <1>3, <1>4, <1>5, <1>6 DEF EarlyStep

\* A result that main receives leaves the modules' types alone.
LEMMA ReceiveType ==
  ASSUME TypeInv, NEW p \in Proc, NEW m \in Module, Receive(p, m)
  PROVE  /\ module' \in [Proc -> [Module -> {"none", "new", "running", "stuck", "nil",
                                             "error", "done", "failed"}]]
         /\ \A q \in Proc \ {p} : module'[q] = module[q]
         /\ \A x \in Module \ {m} : module'[p][x] = module[p][x]
         /\ module[p][m] \in {"nil", "error"}
         /\ module'[p][m] = IF module[p][m] = "nil" THEN "done" ELSE "failed"
BY DEF TypeInv, Receive

\* There are finitely many modules.
LEMMA ModuleFinite ==
  ASSUME NEW S \in SUBSET Module
  PROVE  IsFiniteSet(S) /\ Cardinality(S) \in Nat
<1>1. IsFiniteSet({"master", "server"})
  <2>1. IsFiniteSet({"master"} \cup {"server"})
    BY FS_AddElement, FS_Singleton
  <2>2. {"master"} \cup {"server"} = {"master", "server"}
    OBVIOUS
  <2> QED
    BY <2>1, <2>2
<1>2. IsFiniteSet(Module)
  BY <1>1, FS_Union, ProcessAssumption DEF Module
<1> QED
  BY <1>2, FS_Subset, FS_CardinalityType

\* What the first result assigns,
LEMMA FirstFields ==
  ASSUME TypeInv, NEW p \in Proc, NEW m \in Module, First(p, m)
  PROVE  /\ proc' \in [Proc -> ProcType]
         /\ \A q \in Proc \ {p} : proc'[q] = proc[q]
         /\ proc'[p].pc = "collect" /\ proc'[p].cancelled
         /\ proc'[p].err <=> module[p][m] = "error"
         /\ proc'[p].left = Cardinality({x \in Module : Uses(p, x)}) - 1
         /\ proc'[p].ec = proc[p].ec /\ proc'[p].mode = proc[p].mode
         /\ proc'[p].pair = proc[p].pair /\ proc'[p].priv = proc[p].priv
<1> DEFINE l == Cardinality({x \in Module : Uses(p, x)}) - 1
           e == module[p][m] = "error"
<1>1. proc[p] \in ProcType /\ l \in Int /\ e \in BOOLEAN
  <2>1. {x \in Module : Uses(p, x)} \in SUBSET Module
    OBVIOUS
  <2> QED
    BY <2>1, ModuleFinite DEF TypeInv
<1>2. proc' = [proc EXCEPT ![p] = [proc[p] EXCEPT !.pc = "collect", !.cancelled = TRUE,
                                                  !.err = e, !.left = l]]
  BY DEF First
<1>3. (module[p][m] = "error") <=> e
  OBVIOUS
<1> HIDE DEF l, e
<1>4. [proc[p] EXCEPT !.pc = "collect", !.cancelled = TRUE, !.err = e, !.left = l] \in ProcType
  BY <1>1 DEF ProcType, PC
<1>5. proc'[p] = [proc[p] EXCEPT !.pc = "collect", !.cancelled = TRUE, !.err = e, !.left = l]
  BY <1>2 DEF TypeInv
<1>6. proc' \in [Proc -> ProcType] /\ \A q \in Proc \ {p} : proc'[q] = proc[q]
  BY <1>2, <1>4 DEF TypeInv
<1>7. proc'[p].err <=> module[p][m] = "error"
  BY <1>1, <1>3, <1>5 DEF ProcType
<1>8. proc'[p].left = l /\ l = Cardinality({x \in Module : Uses(p, x)}) - 1
  BY <1>1, <1>5 DEF ProcType, l
<1> QED
  BY <1>1, <1>5, <1>6, <1>7, <1>8 DEF ProcType

\* and what the others do.
LEMMA CollectFields ==
  ASSUME TypeInv, NEW p \in Proc, NEW m \in Module, Collect(p, m)
  PROVE  /\ proc' \in [Proc -> ProcType]
         /\ \A q \in Proc \ {p} : proc'[q] = proc[q]
         /\ proc'[p].pc = proc[p].pc /\ proc'[p].cancelled = proc[p].cancelled
         /\ proc'[p].err <=> module[p][m] = "error"
         /\ proc'[p].left = proc[p].left - 1
         /\ proc'[p].ec = Noted(p) /\ proc'[p].mode = proc[p].mode
         /\ proc'[p].pair = proc[p].pair /\ proc'[p].priv = proc[p].priv
<1> DEFINE e == module[p][m] = "error"
           l == proc[p].left - 1
<1>1. proc[p] \in ProcType /\ e \in BOOLEAN /\ l \in Int /\ Noted(p) \in {0, 1}
  BY DEF TypeInv, ProcType, Noted
<1>2. proc' = [proc EXCEPT ![p] = [proc[p] EXCEPT !.ec = Noted(p), !.err = e, !.left = l]]
  BY DEF Collect
<1>3. (module[p][m] = "error") <=> e
  OBVIOUS
<1> HIDE DEF e, l
<1>4. [proc[p] EXCEPT !.ec = Noted(p), !.err = e, !.left = l] \in ProcType
  BY <1>1 DEF ProcType
<1>5. proc'[p] = [proc[p] EXCEPT !.ec = Noted(p), !.err = e, !.left = l]
  BY <1>2 DEF TypeInv
<1>6. proc' \in [Proc -> ProcType] /\ \A q \in Proc \ {p} : proc'[q] = proc[q]
  BY <1>2, <1>4 DEF TypeInv
<1>7. proc'[p].err <=> module[p][m] = "error"
  BY <1>1, <1>3, <1>5 DEF ProcType
<1>8. proc'[p].left = proc[p].left - 1
  BY <1>1, <1>5 DEF ProcType, l
<1> QED
  BY <1>1, <1>5, <1>6, <1>7, <1>8 DEF ProcType

\* What starting a process assigns.
LEMMA StartFields ==
  ASSUME TypeInv, NEW p \in Proc, NEW mode \in {"gen_keys", "token", "register", "run"},
         Start(p, mode)
  PROVE  /\ proc' \in [Proc -> ProcType]
         /\ \A q \in Proc \ {p} : proc'[q] = proc[q]
         /\ proc'[p].pc = IF mode = "gen_keys" THEN "newkey" ELSE "new"
         /\ proc'[p].mode = mode /\ proc'[p].priv = Missing
         /\ ~proc'[p].cancelled /\ proc'[p].ec = 0 /\ ~proc'[p].err
<1> DEFINE pc == IF mode = "gen_keys" THEN "newkey" ELSE "new"
<1>1. [Off EXCEPT !.mode = mode, !.pc = pc] \in ProcType
  BY OffType DEF ProcType, PC
<1>2. proc' = [proc EXCEPT ![p] = [Off EXCEPT !.mode = mode, !.pc = pc]]
  BY DEF Start
<1> QED
  BY <1>1, <1>2 DEF TypeInv, Off

\* Every action preserves the types.
LEMMA TypeStep == TypeInv /\ [Next]_vars => TypeInv'
<1> SUFFICES ASSUME TypeInv, [Next]_vars
             PROVE  TypeInv'
  OBVIOUS
<1> USE DEF disk
<1>1. ASSUME NEW p \in Proc, NEW mode \in {"gen_keys", "token", "register", "run"},
             Start(p, mode)
      PROVE  TypeInv'
  <2>1. PICK used \in SUBSET Module :
          module' = [module EXCEPT ![p] = [m \in Module |-> IF m \in used THEN "new" ELSE "none"]]
    BY <1>1 DEF Start
  <2>2. module' \in [Proc -> [Module -> {"none", "new", "running", "stuck", "nil", "error",
                                         "done", "failed"}]]
    BY <2>1 DEF TypeInv
  <2>3. proc' \in [Proc -> ProcType]
    BY <1>1, StartFields
  <2> QED
    BY <1>1, <2>2, <2>3 DEF Start, TypeInv
<1>2. ASSUME NEW p \in Proc, EarlyStep(p)
      PROVE  TypeInv'
  BY <1>2, EarlyType
<1>3. ASSUME NEW p \in Proc, Setup(p)
      PROVE  TypeInv'
  <2>1. proc' \in [Proc -> ProcType]
    BY <1>3, ExitFields, GotoFields DEF Setup, PC
  <2>2. \/ module' = module
        \/ module' = [module EXCEPT ![p] =
                        [m \in Module |-> IF Uses(p, m) THEN "running" ELSE "none"]]
    BY <1>3 DEF Setup
  <2> QED
    BY <1>3, <2>1, <2>2 DEF Setup, TypeInv
<1>4. ASSUME NEW p \in Proc, NEW m \in Module, Returns(p, m) \/ Stuck(p, m)
      PROVE  TypeInv'
  <2>1. PICK r \in {"nil", "error", "stuck"} : module' = [module EXCEPT ![p][m] = r]
    BY <1>4 DEF Returns, Stuck
  <2> QED
    BY <1>4, <2>1 DEF Returns, Stuck, TypeInv
<1>5. ASSUME NEW p \in Proc, Signal(p)
      PROVE  TypeInv'
  <2>0. proc[p] \in ProcType
    BY DEF TypeInv
  <2>1. [proc[p] EXCEPT !.pc = "wait", !.cancelled = TRUE] \in ProcType
    BY <2>0 DEF ProcType, PC
  <2>2. proc' = [proc EXCEPT ![p] = [proc[p] EXCEPT !.pc = "wait", !.cancelled = TRUE]]
    BY <1>5 DEF Signal
  <2> QED
    BY <1>5, <2>1, <2>2 DEF Signal, TypeInv
<1>6. ASSUME NEW p \in Proc, NEW m \in Module, First(p, m)
      PROVE  TypeInv'
  BY <1>6, FirstFields, ReceiveType DEF First, TypeInv
<1>7. ASSUME NEW p \in Proc, NEW m \in Module, Collect(p, m)
      PROVE  TypeInv'
  BY <1>7, CollectFields, ReceiveType DEF Collect, TypeInv
<1>8. ASSUME NEW p \in Proc, Collected(p)
      PROVE  TypeInv'
  <2>1. Noted(p) \in {0, 1}
    BY DEF Noted, TypeInv, ProcType
  <2> QED
    BY <1>8, <2>1, ExitFields DEF Collected, TypeInv
<1>9. ASSUME NEW p \in Proc, Kill(p)
      PROVE  TypeInv'
  <2>1. killed' \in [Owner -> BOOLEAN]
    BY <1>9 DEF Kill, TypeInv, Makes, Owner
  <2> QED
    BY <1>9, <2>1, OffType DEF Kill, NoModule, TypeInv
<1>10. ASSUME NEW o \in Owner, Remove(o)
       PROVE  TypeInv'
  BY <1>10 DEF Remove, TypeInv
<1>11. CASE UNCHANGED vars
  BY <1>11 DEF vars, TypeInv
<1> QED
  BY <1>1, <1>2, <1>3, <1>4, <1>5, <1>6, <1>7, <1>8, <1>9, <1>10, <1>11
     DEF Next, Main, EarlyStep

-----------------------------------------------------------------------------
(* The results of the modules.                                             *)

\* ResultOf is about one process.
LEMMA ResultLocal ==
  ASSUME ResultInv, NEW p \in Proc,
         \A q \in Proc \ {p} : proc'[q] = proc[q] /\ module'[q] = module[q],
         ResultOf(p)'
  PROVE  ResultInv'
<1> SUFFICES ASSUME NEW q \in Proc, q # p
             PROVE  ResultOf(q)'
  BY DEF ResultInv
<1>1. proc'[q] = proc[q] /\ module'[q] = module[q] /\ ResultOf(q)
  BY DEF ResultInv
<1>2. Pending(q)' = Pending(q) /\ (Failed(q)' <=> Failed(q)) /\ Noted(q)' = Noted(q)
  BY <1>1 DEF Pending, Failed, Noted
<1> QED
  BY <1>1, <1>2 DEF ResultOf

\* The results it has received are out of main's count.
LEMMA ReceivePending ==
  ASSUME TypeInv, NEW p \in Proc, NEW m \in Module, Receive(p, m)
  PROVE  /\ Cardinality(Pending(p)') = Cardinality(Pending(p)) - 1
         /\ Cardinality(Pending(p)) \in Nat
         /\ Failed(p)' <=> Failed(p) \/ module[p][m] = "error"
<1>1. /\ module[p][m] \in {"nil", "error"}
      /\ \A x \in Module \ {m} : module'[p][x] = module[p][x]
      /\ module'[p][m] = IF module[p][m] = "nil" THEN "done" ELSE "failed"
  BY ReceiveType
<1>2. Pending(p)' = Pending(p) \ {m} /\ m \in Pending(p) /\ Pending(p) \in SUBSET Module
  BY <1>1 DEF Pending
<1>3. IsFiniteSet(Pending(p)) /\ Cardinality(Pending(p)) \in Nat
  BY <1>2, ModuleFinite
<1>4. Cardinality(Pending(p) \ {m}) = Cardinality(Pending(p)) - 1
  BY <1>2, <1>3, FS_RemoveElement
<1>5. Failed(p)' <=> Failed(p) \/ module[p][m] = "error"
  BY <1>1 DEF Failed
<1> QED
  BY <1>2, <1>3, <1>4, <1>5

\* Every action preserves what is said of the results.
LEMMA ResultStep == TypeInv /\ ResultInv /\ [Next]_vars => ResultInv'
<1> SUFFICES ASSUME TypeInv, ResultInv, [Next]_vars
             PROVE  ResultInv'
  OBVIOUS
<1>0. ASSUME NEW p \in Proc
      PROVE  proc[p] \in ProcType /\ ResultOf(p)
  BY DEF TypeInv, ResultInv
<1>1. ASSUME NEW p \in Proc, NEW mode \in {"gen_keys", "token", "register", "run"},
             Start(p, mode)
      PROVE  ResultInv'
  <2>1. \A q \in Proc \ {p} : module'[q] = module[q]
    BY <1>1 DEF Start, TypeInv
  <2>2. ResultOf(p)'
    BY <1>1, StartFields DEF ResultOf
  <2> QED
    BY <1>1, <2>1, <2>2, StartFields, ResultLocal
<1>2. ASSUME NEW p \in Proc, EarlyStep(p)
      PROVE  ResultInv'
  <2>1. ~proc[p].cancelled /\ proc[p].ec = 0 /\ ~proc[p].err
    BY <1>0, <1>2, EarlyForms DEF ResultOf, EarlyPC
  <2>2. /\ proc'[p].pc \in EarlyPC \cup {"exited"}
        /\ proc'[p].cancelled = proc[p].cancelled
        /\ proc'[p].pc \in EarlyPC => proc'[p].ec = 0 /\ ~proc'[p].err
    BY <1>2, <2>1, EarlyFields
  <2>3. ResultOf(p)'
    BY <2>1, <2>2 DEF ResultOf, EarlyPC, PC
  <2> QED
    BY <1>2, <2>3, EarlyFields, EarlyForms, ResultLocal
<1>3. ASSUME NEW p \in Proc, Setup(p)
      PROVE  ResultInv'
  <2>1. ~proc[p].cancelled /\ proc[p].ec = 0 /\ ~proc[p].err
    BY <1>0, <1>3 DEF ResultOf, Setup, At
  <2>2. \A q \in Proc \ {p} : module'[q] = module[q]
    BY <1>3 DEF Setup, TypeInv
  <2>3. CASE Exit(p, 0)
    <3>1. ResultOf(p)'
      BY <2>1, <2>3, ExitFields DEF ResultOf
    <3> QED
      BY <2>2, <2>3, <3>1, ExitFields, ResultLocal
  <2>4. CASE Goto(p, "newkey")
    <3>1. proc'[p] = [proc[p] EXCEPT !.pc = "newkey"] /\ \A q \in Proc \ {p} : proc'[q] = proc[q]
      BY <2>4, GotoFields DEF PC
    <3>2. ResultOf(p)'
      BY <1>0, <2>1, <3>1 DEF ResultOf, ProcType
    <3> QED
      BY <2>2, <3>1, <3>2, ResultLocal
  <2>5. CASE /\ Goto(p, "select")
             /\ module' = [module EXCEPT ![p] =
                             [m \in Module |-> IF Uses(p, m) THEN "running" ELSE "none"]]
    <3>1. proc'[p] = [proc[p] EXCEPT !.pc = "select"] /\ \A q \in Proc \ {p} : proc'[q] = proc[q]
      BY <2>5, GotoFields DEF PC
    <3>2. \A m \in Module : module'[p][m] \in {"running", "none"}
      BY <2>5 DEF TypeInv
    <3>3. ResultOf(p)'
      BY <1>0, <2>1, <3>1, <3>2 DEF ResultOf, ProcType
    <3> QED
      BY <2>2, <3>1, <3>3, ResultLocal
  <2> QED
    BY <1>3, <2>3, <2>4, <2>5 DEF Setup
<1>4. ASSUME NEW p \in Proc, NEW m \in Module, Returns(p, m) \/ Stuck(p, m)
      PROVE  ResultInv'
  <2>1. PICK r \in {"nil", "error", "stuck"} : module' = [module EXCEPT ![p][m] = r]
    BY <1>4 DEF Returns, Stuck
  <2>2. proc' = proc /\ module[p][m] \in {"running", "stuck"}
    BY <1>4 DEF Returns, Stuck
  <2>3. /\ \A q \in Proc \ {p} : module'[q] = module[q]
        /\ \A x \in Module \ {m} : module'[p][x] = module[p][x]
        /\ module'[p][m] = r
    BY <2>1 DEF TypeInv
  <2>4. Pending(p)' = Pending(p) /\ (Failed(p)' <=> Failed(p))
    BY <2>2, <2>3 DEF Pending, Failed
  <2>5. ResultOf(p)'
    <3>1. ResultOf(p)
      BY <1>0
    <3>2. \A x \in Module : module'[p][x] \in {"done", "failed"} => module[p][x] \in {"done", "failed"}
      BY <2>3
    <3>3. Noted(p)' = Noted(p)
      BY <2>2 DEF Noted
    <3> QED
      BY <2>2, <2>4, <3>1, <3>2, <3>3 DEF ResultOf
  <2> QED
    BY <2>2, <2>3, <2>5, ResultLocal
<1>5. ASSUME NEW p \in Proc, Signal(p)
      PROVE  ResultInv'
  <2>1. /\ proc'[p] = [proc[p] EXCEPT !.pc = "wait", !.cancelled = TRUE]
        /\ \A q \in Proc \ {p} : proc'[q] = proc[q]
        /\ proc[p].pc = "select" /\ module' = module
    BY <1>5 DEF Signal, At, TypeInv
  <2>2. ResultOf(p)'
    BY <1>0, <2>1 DEF ResultOf, ProcType
  <2> QED
    BY <2>1, <2>2, ResultLocal
<1>6. ASSUME NEW p \in Proc, NEW m \in Module, First(p, m)
      PROVE  ResultInv'
  <2>1. proc[p].pc \in {"select", "wait"} /\ Receive(p, m)
    BY <1>6 DEF First
  <2>2. proc[p].ec = 0 /\ \A x \in Module : module[p][x] \notin {"done", "failed"}
    BY <1>0, <2>1 DEF ResultOf
  <2>3. {x \in Module : Uses(p, x)} = Pending(p) /\ ~Failed(p)
    BY <2>2 DEF Uses, Pending, Failed
  <2>4. /\ proc'[p].left = Cardinality(Pending(p)')
        /\ Failed(p)' <=> module[p][m] = "error"
    BY <1>6, <2>1, <2>3, FirstFields, ReceivePending
  <2>5. /\ proc'[p].pc = "collect" /\ proc'[p].ec = 0
        /\ proc'[p].err <=> module[p][m] = "error"
    BY <1>6, <2>2, FirstFields
  <2>6. Noted(p)' = 1 <=> Failed(p)'
    BY <2>4, <2>5 DEF Noted
  <2>7. ResultOf(p)'
    BY <2>4, <2>5, <2>6 DEF ResultOf
  <2>8. \A q \in Proc \ {p} : proc'[q] = proc[q] /\ module'[q] = module[q]
    <3>1. \A q \in Proc \ {p} : proc'[q] = proc[q]
      BY <1>6, FirstFields
    <3>2. \A q \in Proc \ {p} : module'[q] = module[q]
      BY <2>1, ReceiveType
    <3> QED
      BY <3>1, <3>2
  <2> QED
    BY <2>7, <2>8, ResultLocal
<1>7. ASSUME NEW p \in Proc, NEW m \in Module, Collect(p, m)
      PROVE  ResultInv'
  <2>1. proc[p].pc = "collect" /\ Receive(p, m)
    BY <1>7 DEF Collect, At
  <2>2. proc[p].left = Cardinality(Pending(p)) /\ (Noted(p) = 1 <=> Failed(p))
    BY <1>0, <2>1 DEF ResultOf
  <2>3. /\ proc'[p].left = Cardinality(Pending(p)')
        /\ Failed(p)' <=> Failed(p) \/ module[p][m] = "error"
    BY <1>7, <2>1, <2>2, CollectFields, ReceivePending
  <2>4. /\ proc'[p].pc = "collect" /\ proc'[p].ec = Noted(p)
        /\ proc'[p].err <=> module[p][m] = "error"
    BY <1>7, <2>1, CollectFields
  <2>5. Noted(p)' = 1 <=> Failed(p)'
    <3>1. Noted(p)' = IF proc'[p].err THEN 1 ELSE Noted(p)
      BY <2>4 DEF Noted
    <3> QED
      BY <2>2, <2>3, <2>4, <3>1
  <2>6. ResultOf(p)'
    BY <2>3, <2>4, <2>5 DEF ResultOf
  <2>7. \A q \in Proc \ {p} : proc'[q] = proc[q] /\ module'[q] = module[q]
    BY <1>7, <2>1, CollectFields, ReceiveType
  <2> QED
    BY <2>6, <2>7, ResultLocal
<1>8. ASSUME NEW p \in Proc, Collected(p)
      PROVE  ResultInv'
  <2>1. proc[p].pc = "collect" /\ proc[p].left = 0 /\ Exit(p, Noted(p)) /\ module' = module
    BY <1>8 DEF Collected, At
  <2>2. Cardinality(Pending(p)) = 0 /\ (Noted(p) = 1 <=> Failed(p)) /\ Noted(p) \in {0, 1}
    BY <1>0, <2>1 DEF ResultOf, Noted, ProcType
  <2>3. Pending(p)' = {} /\ (Failed(p)' <=> Failed(p))
    <3>1. Pending(p) \in SUBSET Module
      BY DEF Pending
    <3>2. Pending(p) = {}
      BY <2>2, <3>1, ModuleFinite, FS_EmptySet
    <3> QED
      BY <2>1, <3>2 DEF Pending, Failed
  <2>4. ResultOf(p)'
    <3>1. proc'[p].pc = "exited" /\ proc'[p].ec = Noted(p)
      BY <2>1, <2>2, ExitFields
    <3> QED
      BY <2>2, <2>3, <3>1 DEF ResultOf
  <2> QED
    BY <2>1, <2>2, <2>4, ExitFields, ResultLocal
<1>9. ASSUME NEW p \in Proc, Kill(p)
      PROVE  ResultInv'
  <2>1. /\ proc'[p] = Off
        /\ \A q \in Proc \ {p} : proc'[q] = proc[q] /\ module'[q] = module[q]
    BY <1>9 DEF Kill, TypeInv
  <2>2. ResultOf(p)'
    BY <2>1 DEF ResultOf, Off
  <2> QED
    BY <2>1, <2>2, ResultLocal
<1>10. CASE UNCHANGED <<proc, module>>
  BY <1>10 DEF ResultInv, ResultOf, Pending, Failed, Noted
<1> QED
  BY <1>1, <1>2, <1>3, <1>4, <1>5, <1>6, <1>7, <1>8, <1>9, <1>10
     DEF Next, Main, EarlyStep, Remove, vars

-----------------------------------------------------------------------------
(* Keys and certificates.                                                  *)

\* A certificate is there only with its key, and can be read only if it is the
\* key's.
PairOf(o) ==
  /\ key[o] = Missing => crt[o] = Missing
  /\ Whole(crt[o]) => key[o] = crt[o]

\* The CA's files are complete.
CaComplete == key["ca"] = crt["ca"] /\ key["ca"] # Torn

\* A process may touch the files it makes: while it makes them, and when there
\* is no key yet.
MayTouch(p) == proc[p].pc \in Making \/ (proc[p].pc = "newkey" /\ key[Makes(p)] = Missing)

\* Whoever makes the files of o keeps the others off them.
LEMMA MakerExcludes ==
  ASSUME TypeInv, KeyInv, NEW p \in Proc, MayTouch(p), NEW q \in Proc, q # p
  PROVE  /\ proc[q].pc \in Making => Makes(q) # Makes(p)
         /\ proc[q].pc = "vault" => Makes(p) = "user"
<1>1. MakerOf(p) /\ MakerOf(q) /\ VaultOf(q) /\ Makes(p) \in Owner
  BY DEF KeyInv, Makes, Owner
<1>2. proc[q].pc \in Making => key[Makes(q)] # Missing
  BY <1>1, KeysApart DEF MakerOf, Making, Whole
<1>3. crt[Makes(p)] \notin Key
  <2>1. CASE proc[p].pc \in Making
    BY <1>1, <2>1, KeysApart DEF MakerOf, Making
  <2>2. CASE key[Makes(p)] = Missing
    BY <1>1, <2>2, KeysApart DEF KeyInv
  <2> QED
    BY <2>1, <2>2 DEF MayTouch
<1>4. proc[q].pc = "vault" => crt["ca"] \in Key
  BY <1>1 DEF VaultOf, Whole
<1> QED
  BY <1>1, <1>2, <1>3, <1>4 DEF KeyInv, MayTouch, Owner

\* A step of one process that only touches the files it may touch, and leaves
\* them as it should, preserves the whole invariant.
LEMMA KeyLocal ==
  ASSUME TypeInv, KeyInv, NEW p \in Proc, NEW o \in Owner, o = Makes(p),
         \A q \in Proc \ {p} : proc'[q] = proc[q] /\ module'[q] = module[q],
         MayTouch(p) \/ UNCHANGED <<key, crt>>,
         \A x \in Owner \ {o} : key'[x] = key[x] /\ crt'[x] = crt[x] /\ killed'[x] = killed[x],
         proc'[p].pc \in Making => MayTouch(p) /\ Makes(p)' = o,
         MakerOf(p)', VaultOf(p)', PairOf(o)',
         \/ killed'["ca"] \/ CaComplete' \/ o = "user" \/ proc'[p].pc \in Making
         \/ proc[p].pc \notin Making /\ UNCHANGED <<key, crt, killed>>
  PROVE  KeyInv'
<1>1. ASSUME NEW q \in Proc, q # p
      PROVE  /\ Makes(q)' = Makes(q) /\ Makes(q) \in Owner
             /\ MakerOf(q)' /\ VaultOf(q)'
  <2>1. /\ proc'[q] = proc[q] /\ module'[q] = module[q]
        /\ Makes(q)' = Makes(q) /\ Makes(q) \in Owner
    BY <1>1 DEF Makes, Owner
  <2>2. MakerOf(q) /\ VaultOf(q)
    BY DEF KeyInv
  <2>3. proc[q].pc \in Making => key'[Makes(q)] = key[Makes(q)] /\ crt'[Makes(q)] = crt[Makes(q)]
    BY <1>1, <2>1, MakerExcludes
  <2>4. proc[q].pc = "vault" => key'["ca"] = key["ca"] /\ crt'["ca"] = crt["ca"]
    BY <1>1, MakerExcludes DEF Owner
  <2>5. MakerOf(q)'
    BY <2>1, <2>2, <2>3 DEF MakerOf, Making
  <2>6. VaultOf(q)'
    BY <2>1, <2>2, <2>4 DEF VaultOf, Uses
  <2> QED
    BY <2>1, <2>5, <2>6
<1>2. \A q \in Proc : MakerOf(q)' /\ VaultOf(q)'
  BY <1>1
<1>3. ASSUME NEW q \in Proc, NEW r \in Proc, q # r,
             proc'[q].pc \in Making, proc'[r].pc \in Making
      PROVE  Makes(q)' # Makes(r)'
  <2>1. CASE q # p /\ r # p
    BY <1>1, <1>3, <2>1 DEF KeyInv
  <2>2. CASE q = p
    BY <1>1, <1>3, <2>2, MakerExcludes
  <2>3. CASE r = p
    BY <1>1, <1>3, <2>3, MakerExcludes
  <2> QED
    BY <2>1, <2>2, <2>3
<1>4. \A x \in Owner : PairOf(x)'
  BY DEF KeyInv, PairOf
<1>5. ASSUME ~killed'["ca"], \A q \in Proc : proc'[q].pc \in Making => Makes(q)' = "user"
      PROVE  CaComplete'
  <2>1. CASE o = "user"
    <3>1. \A q \in Proc : proc[q].pc \in Making => Makes(q) = "user"
      BY <1>1, <1>5, <2>1
    <3> QED
      BY <1>5, <2>1, <3>1 DEF KeyInv, CaComplete, Owner
  <2>2. CASE o = "ca" /\ proc'[p].pc \in Making
    BY <1>5, <2>2
  <2>3. CASE proc[p].pc \notin Making /\ UNCHANGED <<key, crt, killed>>
    <3>1. \A q \in Proc : proc[q].pc \in Making => Makes(q) = "user"
      BY <1>1, <1>5, <2>3
    <3> QED
      BY <1>5, <2>3, <3>1 DEF KeyInv, CaComplete
  <2> QED
    BY <1>5, <2>1, <2>2, <2>3 DEF Owner
<1> QED
  BY <1>2, <1>3, <1>4, <1>5 DEF KeyInv, PairOf, CaComplete

\* A step that leaves the files alone and ends outside of Making.
LEMMA KeyUntouched ==
  ASSUME TypeInv, KeyInv, NEW p \in Proc, UNCHANGED <<key, crt, killed>>,
         \A q \in Proc \ {p} : proc'[q] = proc[q] /\ module'[q] = module[q],
         proc[p].pc \notin Making \/ Makes(p) = "user",
         proc'[p].pc \notin Making,
         proc'[p].pc = "test" => Makes(p)' = "ca",
         VaultOf(p)'
  PROVE  KeyInv'
<1>1. Makes(p) \in Owner /\ PairOf(Makes(p))
  BY DEF Makes, Owner, KeyInv, PairOf
<1>2. MakerOf(p)'
  BY DEF MakerOf, Making
<1> QED
  BY <1>1, <1>2, KeyLocal DEF PairOf

\* The end of a process leaves nothing to be said of it.
LEMMA ExitVault ==
  ASSUME TypeInv, NEW p \in Proc, NEW ec \in {0, 1}, Exit(p, ec)
  PROVE  /\ VaultOf(p)' /\ MakerOf(p)' /\ proc'[p].pc = "exited" /\ proc'[p].pc \notin Making
         /\ \A q \in Proc \ {p} : proc'[q] = proc[q]
<1>1. proc'[p].pc = "exited" /\ proc'[p].mode = "none" /\ proc'[p].priv = Missing
  BY ExitFields
<1> QED
  BY <1>1, ExitFields DEF VaultOf, MakerOf, Making

\* The steps of main before the modules run preserve the invariant.
LEMMA KeyEarly ==
  ASSUME TypeInv, KeyInv, NEW p \in Proc, EarlyStep(p)
  PROVE  KeyInv'
<1>0. /\ proc[p] \in ProcType /\ Makes(p) \in Owner /\ MakerOf(p) /\ VaultOf(p)
      /\ PairOf(Makes(p)) /\ PairOf("ca")
  BY DEF TypeInv, KeyInv, Makes, Owner, PairOf
<1>00. module' = module /\ \A q \in Proc \ {p} : proc'[q] = proc[q]
  BY EarlyForms, EarlyFields
<1> USE DEF disk, At
<1>1. CASE NewMaster(p)
  <2>1. CASE Exit(p, 1)
    BY <1>1, <1>00, <2>1, ExitVault, KeyUntouched DEF NewMaster, Making
  <2>2. CASE Whole(crt["ca"]) /\ proc' = [proc EXCEPT ![p].pc = "vault", ![p].pair = crt["ca"]]
    <3>1. proc'[p] = [proc[p] EXCEPT !.pc = "vault", !.pair = crt["ca"]]
      BY <2>2 DEF TypeInv
    <3>2. /\ proc'[p].pc = "vault" /\ proc'[p].pair = crt["ca"]
          /\ proc'[p].priv = proc[p].priv /\ proc'[p].mode = proc[p].mode
      BY <1>0, <3>1 DEF ProcType
    <3>3. VaultOf(p)'
      BY <1>0, <1>00, <1>1, <2>2, <3>2 DEF NewMaster, VaultOf, Uses, PairOf, Whole, MakerOf
    <3> QED
      BY <1>1, <1>00, <3>2, <3>3, KeyUntouched DEF NewMaster, Making
  <2> QED
    BY <1>1, <2>1, <2>2 DEF NewMaster
<1>2. CASE LoadVault(p)
  <2>1. CASE Exit(p, 1)
    BY <1>2, <1>00, <2>1, ExitVault, KeyUntouched DEF LoadVault, Making
  <2>2. CASE Whole(key["ca"]) /\ ~Exit(p, 1)
    <3> DEFINE pc == IF Uses(p, "server") THEN "newserver" ELSE "setup"
    <3>1. proc'[p] = [proc[p] EXCEPT !.priv = key["ca"], !.pc = pc]
      BY <1>2, <2>2 DEF TypeInv, LoadVault
    <3>2. /\ proc'[p].pc \in {"newserver", "setup"} /\ proc'[p].pair = proc[p].pair
          /\ proc'[p].priv = key["ca"] /\ proc'[p].mode = proc[p].mode
      BY <1>0, <3>1 DEF ProcType
    <3>3. VaultOf(p)'
      BY <1>0, <1>2, <3>2 DEF LoadVault, VaultOf
    <3> QED
      BY <1>2, <1>00, <3>2, <3>3, KeyUntouched DEF LoadVault, Making
  <2> QED
    BY <1>2, <2>1, <2>2 DEF LoadVault
<1>3. CASE NewServer(p)
  <2>1. CASE Exit(p, 1)
    BY <1>3, <1>00, <2>1, ExitVault, KeyUntouched DEF NewServer, Making
  <2>2. CASE ~Exit(p, 1)
    <3> DEFINE b == Missing \notin {crt["user"], key["user"]}
    <3>1. proc'[p] = [proc[p] EXCEPT !.pc = "setup", !.cert = b]
      BY <1>3, <2>2 DEF TypeInv, NewServer
    <3> HIDE DEF b
    <3>2. /\ proc'[p].pc = "setup" /\ proc'[p].pair = proc[p].pair
          /\ proc'[p].priv = proc[p].priv /\ proc'[p].mode = proc[p].mode
      BY <1>0, <3>1 DEF ProcType
    <3>3. VaultOf(p)'
      BY <1>0, <1>00, <3>2 DEF VaultOf, Uses
    <3> QED
      BY <1>3, <1>00, <3>2, <3>3, KeyUntouched DEF NewServer, Making
  <2> QED
    BY <2>1, <2>2
<1>4. CASE SetupFails(p)
  BY <1>4, <1>00, ExitVault, KeyUntouched DEF SetupFails, Making
<1>5. CASE Test(p)
  BY <1>5, <1>00, ExitVault, KeyUntouched DEF Test, Making
<1>6. CASE Register(p)
  <2>1. CASE Exit(p, 1)
    BY <1>0, <1>6, <1>00, <2>1, ExitVault, KeyUntouched DEF Register, MakerOf
  <2>2. CASE Goto(p, "store")
    <3>1. proc'[p] = [proc[p] EXCEPT !.pc = "store"]
      BY <2>2, GotoFields DEF PC
    <3>2. /\ proc'[p].pc = "store" /\ proc'[p].pair = proc[p].pair /\ Makes(p)' = Makes(p)
          /\ proc'[p].priv = proc[p].priv /\ proc'[p].mode = proc[p].mode
      BY <1>0, <3>1 DEF ProcType, Makes
    <3>3. MakerOf(p)' /\ VaultOf(p)'
      BY <1>0, <1>00, <1>6, <3>2 DEF Register, MakerOf, VaultOf, Uses
    <3> QED
      BY <1>0, <1>6, <1>00, <3>2, <3>3, KeyLocal DEF Register, MayTouch, Making, PairOf
  <2> QED
    BY <1>6, <2>1, <2>2 DEF Register
<1>7. CASE CreateKey(p)
  <2>1. CASE Exit(p, 1) /\ UNCHANGED <<key, keys>>
    BY <1>7, <1>00, <2>1, ExitVault, KeyUntouched DEF CreateKey, Making
  <2>2. CASE /\ key[Makes(p)] = Missing /\ keys < MaxKeys
             /\ key' = [key EXCEPT ![Makes(p)] = Torn]
             /\ proc' = [proc EXCEPT ![p].pc = "writekey", ![p].pair = keys + 1]
    <3>1. keys + 1 \in Key
      BY <2>2, ProcessAssumption DEF TypeInv, Key
    <3>2. proc'[p] = [proc[p] EXCEPT !.pc = "writekey", !.pair = keys + 1]
      BY <2>2 DEF TypeInv
    <3>3. /\ proc'[p].pc = "writekey" /\ proc'[p].pair = keys + 1 /\ Makes(p)' = Makes(p)
          /\ proc'[p].priv = proc[p].priv /\ proc'[p].mode = proc[p].mode
      BY <1>0, <3>2 DEF ProcType, Makes
    <3>4. key'[Makes(p)] = Torn /\ crt' = crt /\ crt[Makes(p)] = Missing /\ killed' = killed
      BY <1>0, <1>7, <2>2 DEF CreateKey, TypeInv, PairOf
    <3>5. MakerOf(p)' /\ VaultOf(p)'
      BY <1>0, <1>00, <1>7, <3>1, <3>3, <3>4 DEF CreateKey, MakerOf, VaultOf, Uses, Whole
    <3>6. \A o \in Owner : o = Makes(p) => PairOf(o)'
      BY <3>4, KeysApart DEF PairOf, Whole
    <3>7. \A x \in Owner \ {Makes(p)} : key'[x] = key[x]
      BY <2>2 DEF TypeInv
    <3>8. MayTouch(p) /\ proc'[p].pc \in Making
      BY <1>7, <2>2, <3>3 DEF CreateKey, MayTouch, Making
    <3> QED
      BY <1>0, <1>00, <3>3, <3>4, <3>5, <3>6, <3>7, <3>8, KeyLocal
  <2> QED
    BY <1>7, <2>1, <2>2 DEF CreateKey
<1>8. ASSUME proc[p].pc \in Making, UNCHANGED killed,
             \A x \in Owner \ {Makes(p)} : key'[x] = key[x] /\ crt'[x] = crt[x],
             \A o \in Owner : o = Makes(p) => PairOf(o)',
             NEW ec \in {0, 1}, Exit(p, ec), Makes(p) = "user" \/ CaComplete'
      PROVE  KeyInv'
  BY <1>0, <1>00, <1>8, ExitVault, KeyLocal DEF MayTouch
<1>9. ASSUME proc[p].pc \in Making, UNCHANGED killed,
             \A x \in Owner \ {Makes(p)} : key'[x] = key[x] /\ crt'[x] = crt[x],
             \A o \in Owner : o = Makes(p) => PairOf(o)',
             NEW pc \in EarlyPC \ {"vault", "new", "newkey"}, Goto(p, pc),
             pc \in Making \/ CaComplete', MakerOf(p)'
      PROVE  KeyInv'
  <2>1. proc'[p] = [proc[p] EXCEPT !.pc = pc]
    BY <1>9, GotoFields DEF EarlyPC
  <2>2. /\ proc'[p].pc = pc /\ proc'[p].pair = proc[p].pair /\ Makes(p)' = Makes(p)
        /\ proc'[p].priv = proc[p].priv /\ proc'[p].mode = proc[p].mode
    BY <1>0, <2>1 DEF ProcType, Makes
  <2>3. VaultOf(p)'
    BY <1>0, <1>00, <1>9, <2>2 DEF VaultOf, Uses
  <2> QED
    BY <1>0, <1>00, <1>9, <2>2, <2>3, KeyLocal DEF MayTouch
\* What Goto leaves of p's record.
<1>10. ASSUME NEW pc \in PC, Goto(p, pc)
       PROVE  proc'[p].pc = pc /\ proc'[p].pair = proc[p].pair /\ Makes(p)' = Makes(p)
  <2>1. proc'[p] = [proc[p] EXCEPT !.pc = pc]
    BY <1>10, GotoFields
  <2> QED
    BY <1>0, <2>1 DEF ProcType, Makes
<1>11. CASE WriteKey(p)
  <2>1. /\ proc[p].pc \in Making /\ key[Makes(p)] = Torn /\ crt[Makes(p)] = Missing
        /\ Whole(proc[p].pair) /\ crt' = crt /\ killed' = killed
    BY <1>0, <1>11 DEF WriteKey, MakerOf, Making
  <2>2. \A x \in Owner \ {Makes(p)} : key'[x] = key[x]
    BY <1>11 DEF WriteKey, TypeInv
  <2>3. CASE /\ key' = [key EXCEPT ![Makes(p)] = proc[p].pair]
             /\ Goto(p, IF Makes(p) = "ca" THEN "newcrt" ELSE "register")
    <3> DEFINE pc == IF Makes(p) = "ca" THEN "newcrt" ELSE "register"
    <3>1. /\ pc \in EarlyPC \ {"vault", "new", "newkey"} /\ pc \in Making /\ pc \in PC
          /\ pc = "newcrt" => Makes(p) = "ca"
          /\ pc = "register" => Makes(p) = "user"
          /\ pc \in {"newcrt", "register"}
      BY <1>0 DEF EarlyPC, PC, Making, Owner
    <3>2. key'[Makes(p)] = proc[p].pair
      BY <1>0, <2>3 DEF TypeInv
    <3> HIDE DEF pc
    <3>3. Goto(p, pc)
      BY <2>3 DEF pc
    <3>4. \A o \in Owner : o = Makes(p) => PairOf(o)'
      BY <2>1, <3>2, KeysApart DEF PairOf, Whole
    <3>5. MakerOf(p)'
      BY <1>10, <2>1, <3>1, <3>2, <3>3 DEF MakerOf
    <3> QED
      BY <1>9, <2>1, <2>2, <3>1, <3>3, <3>4, <3>5
  <2>4. CASE key' = [key EXCEPT ![Makes(p)] = Missing] /\ Exit(p, 1)
    <3>1. key'[Makes(p)] = Missing
      BY <1>0, <2>4 DEF TypeInv
    <3>2. \A o \in Owner : o = Makes(p) => PairOf(o)'
      BY <2>1, <3>1, KeysApart DEF PairOf, Whole
    <3>3. Makes(p) = "user" \/ CaComplete'
      BY <1>0, <2>1, <3>1, KeysApart DEF CaComplete, Owner
    <3> QED
      BY <1>8, <2>1, <2>2, <2>4, <3>2, <3>3
  <2> QED
    BY <1>11, <2>3, <2>4 DEF WriteKey
<1>12. CASE CreateCert(p)
  <2>1. /\ proc[p].pc \in Making /\ Makes(p) = "ca" /\ key["ca"] = proc[p].pair
        /\ crt["ca"] = Missing /\ Whole(proc[p].pair) /\ key' = key /\ killed' = killed
    BY <1>0, <1>12 DEF CreateCert, MakerOf, Making
  <2>2. CASE crt' = [crt EXCEPT !["ca"] = Torn] /\ Goto(p, "writecrt")
    <3>1. crt'["ca"] = Torn /\ \A x \in Owner \ {"ca"} : crt'[x] = crt[x]
      BY <2>2 DEF TypeInv, Owner
    <3>2. PairOf("ca")' /\ MakerOf(p)'
      BY <1>10, <2>1, <2>2, <3>1, KeysApart DEF PairOf, MakerOf, Whole, PC
    <3> QED
      BY <1>9, <2>1, <2>2, <3>1, <3>2 DEF EarlyPC, PC, Making
  <2>3. CASE Goto(p, "undo") /\ UNCHANGED crt
    <3>1. PairOf("ca")' /\ MakerOf(p)'
      BY <1>0, <1>10, <2>1, <2>3 DEF PairOf, MakerOf, PC
    <3> QED
      BY <1>9, <2>1, <2>3, <3>1 DEF EarlyPC, PC, Making
  <2> QED
    BY <1>12, <2>2, <2>3 DEF CreateCert
<1>13. CASE WriteCert(p)
  <2>1. /\ proc[p].pc \in Making /\ Makes(p) = "ca" /\ key["ca"] = proc[p].pair
        /\ Whole(proc[p].pair) /\ key' = key /\ killed' = killed
    BY <1>0, <1>13 DEF WriteCert, MakerOf, Making
  <2>2. CASE crt' = [crt EXCEPT !["ca"] = proc[p].pair] /\ Goto(p, "test")
    <3>1. crt'["ca"] = proc[p].pair /\ \A x \in Owner \ {"ca"} : crt'[x] = crt[x]
      BY <2>2 DEF TypeInv, Owner
    <3>2. PairOf("ca")' /\ MakerOf(p)' /\ CaComplete'
      BY <1>10, <2>1, <2>2, <3>1, KeysApart DEF PairOf, MakerOf, CaComplete, Whole, PC
    <3> QED
      BY <1>9, <2>1, <2>2, <3>1, <3>2 DEF EarlyPC, PC
  <2>3. CASE crt' = [crt EXCEPT !["ca"] = Missing] /\ Goto(p, "undo")
    <3>1. crt'["ca"] = Missing /\ \A x \in Owner \ {"ca"} : crt'[x] = crt[x]
      BY <2>3 DEF TypeInv, Owner
    <3>2. PairOf("ca")' /\ MakerOf(p)'
      BY <1>10, <2>1, <2>3, <3>1, KeysApart DEF PairOf, MakerOf, Whole, PC
    <3> QED
      BY <1>9, <2>1, <2>3, <3>1, <3>2 DEF EarlyPC, PC, Making
  <2> QED
    BY <1>13, <2>2, <2>3 DEF WriteCert
<1>14. CASE Undo(p)
  <2>1. /\ proc[p].pc \in Making /\ Makes(p) = "ca" /\ crt["ca"] = Missing
        /\ crt' = crt /\ killed' = killed /\ Exit(p, 1)
    BY <1>0, <1>14 DEF Undo, MakerOf, Making
  <2>2. key'["ca"] = Missing /\ \A x \in Owner \ {"ca"} : key'[x] = key[x]
    BY <1>14 DEF Undo, TypeInv, Owner
  <2>3. PairOf("ca")' /\ CaComplete'
    BY <2>1, <2>2, KeysApart DEF PairOf, CaComplete, Whole
  <2> QED
    BY <1>8, <2>1, <2>2, <2>3
<1>15. CASE StoreCert(p)
  <2>1. /\ proc[p].pc \in Making /\ Makes(p) = "user" /\ key["user"] = proc[p].pair
        /\ Whole(proc[p].pair) /\ key' = key /\ killed' = killed /\ Goto(p, "storing")
    BY <1>0, <1>15 DEF StoreCert, MakerOf, Making
  <2>2. crt'["user"] = Torn /\ \A x \in Owner \ {"user"} : crt'[x] = crt[x]
    BY <1>15 DEF StoreCert, TypeInv, Owner
  <2>3. PairOf("user")' /\ MakerOf(p)'
    BY <1>10, <2>1, <2>2, KeysApart DEF PairOf, MakerOf, Whole, PC
  <2> QED
    BY <1>9, <2>1, <2>2, <2>3 DEF EarlyPC, PC, Making
<1>16. CASE CertStored(p)
  <2>1. /\ proc[p].pc \in Making /\ Makes(p) = "user" /\ key["user"] = proc[p].pair
        /\ Whole(proc[p].pair) /\ key' = key /\ killed' = killed
    BY <1>0, <1>16 DEF CertStored, MakerOf, Making
  <2>2. /\ crt'["user"] \in {proc[p].pair, crt["user"]}
        /\ \A x \in Owner \ {"user"} : crt'[x] = crt[x]
    BY <1>16 DEF CertStored, TypeInv, Owner
  <2>3. PairOf("user")'
    BY <1>0, <2>1, <2>2, KeysApart DEF PairOf, Whole
  <2>4. PICK ec \in {0, 1} : Exit(p, ec)
    BY <1>16 DEF CertStored
  <2> QED
    BY <1>8, <2>1, <2>2, <2>3, <2>4
<1> QED
  BY <1>1, <1>2, <1>3, <1>4, <1>5, <1>6, <1>7, <1>11, <1>12, <1>13, <1>14, <1>15, <1>16
     DEF EarlyStep

\* Every action preserves the invariant of the files.
LEMMA KeyStep == TypeInv /\ TypeInv' /\ KeyInv /\ [Next]_vars => KeyInv'
<1> SUFFICES ASSUME TypeInv, TypeInv', KeyInv, [Next]_vars
             PROVE  KeyInv'
  OBVIOUS
<1>0. ASSUME NEW p \in Proc
      PROVE  proc[p] \in ProcType /\ VaultOf(p) /\ PairOf(Makes(p)) /\ Makes(p) \in Owner
  BY DEF TypeInv, KeyInv, PairOf, Makes, Owner
<1> USE DEF disk
<1>1. ASSUME NEW p \in Proc, NEW mode \in {"gen_keys", "token", "register", "run"},
             Start(p, mode)
      PROVE  KeyInv'
  <2>1. /\ proc'[p].pc = IF mode = "gen_keys" THEN "newkey" ELSE "new"
        /\ proc'[p].mode = mode /\ proc'[p].priv = Missing
        /\ \A q \in Proc \ {p} : proc'[q] = proc[q]
    BY <1>1, StartFields
  <2>2. /\ \A q \in Proc \ {p} : module'[q] = module[q]
        /\ mode = "register" => module'[p]["master"] = "none"
    <3>1. PICK used \in SUBSET Module :
            /\ mode = "register" => used = {"server"}
            /\ module' = [module EXCEPT ![p] =
                            [m \in Module |-> IF m \in used THEN "new" ELSE "none"]]
      BY <1>1 DEF Start
    <3> QED
      BY <3>1 DEF TypeInv, Module
  <2>3. VaultOf(p)'
    BY <2>1, <2>2 DEF VaultOf, Uses
  <2> QED
    BY <1>1, <2>1, <2>2, <2>3, KeyUntouched DEF Start, Making
<1>2. ASSUME NEW p \in Proc, EarlyStep(p)
      PROVE  KeyInv'
  BY <1>2, KeyEarly
<1>3. ASSUME NEW p \in Proc, Setup(p)
      PROVE  KeyInv'
  <2>1. \A q \in Proc \ {p} : module'[q] = module[q]
    BY <1>3 DEF Setup, TypeInv
  <2>2. CASE Exit(p, 0)
    BY <1>3, <2>1, <2>2, ExitVault, KeyUntouched DEF Setup, At, Making
  <2>3. CASE \/ proc[p].mode = "register" /\ Goto(p, "newkey") /\ UNCHANGED module
             \/ proc[p].mode = "run" /\ Goto(p, "select")
    <3>1. PICK pc \in {"newkey", "select"} :
            /\ Goto(p, pc)
            /\ pc = "newkey" => proc[p].mode = "register" /\ UNCHANGED module
            /\ pc = "select" => proc[p].mode = "run"
      BY <2>3
    <3>2. proc'[p] = [proc[p] EXCEPT !.pc = pc] /\ \A q \in Proc \ {p} : proc'[q] = proc[q]
      BY <3>1, GotoFields DEF PC
    <3>3. /\ proc'[p].pc = pc /\ proc'[p].pair = proc[p].pair
          /\ proc'[p].priv = proc[p].priv /\ proc'[p].mode = proc[p].mode
      BY <1>0, <3>2 DEF ProcType
    <3>4. VaultOf(p)'
      BY <1>0, <3>1, <3>3 DEF VaultOf, Uses
    <3> QED
      BY <1>3, <2>1, <3>2, <3>3, <3>4, KeyUntouched DEF Setup, At, Making
  <2> QED
    BY <1>3, <2>2, <2>3 DEF Setup
<1>4. ASSUME UNCHANGED <<key, crt, killed, proc>>,
             \A p \in Proc : Uses(p, "master")' <=> Uses(p, "master")
      PROVE  KeyInv'
  <2>1. \A p \in Proc : Makes(p)' = Makes(p)
    BY <1>4 DEF Makes
  <2>2. ASSUME NEW p \in Proc
        PROVE  MakerOf(p)' /\ VaultOf(p)'
    BY <1>4, <2>1 DEF KeyInv, MakerOf, VaultOf
  <2> QED
    BY <1>4, <2>1, <2>2 DEF KeyInv
<1>5. ASSUME NEW p \in Proc, NEW m \in Module, Returns(p, m) \/ Stuck(p, m)
      PROVE  KeyInv'
  <2>1. PICK r \in {"nil", "error", "stuck"} : module' = [module EXCEPT ![p][m] = r]
    BY <1>5 DEF Returns, Stuck
  <2>2. module[p][m] \in {"running", "stuck"} /\ UNCHANGED <<key, crt, killed, proc>>
    BY <1>5 DEF Returns, Stuck
  <2>3. \A q \in Proc : module'[q]["master"] # "none" <=> module[q]["master"] # "none"
    BY <2>1, <2>2 DEF TypeInv
  <2> QED
    BY <1>4, <2>2, <2>3 DEF Uses
\* The steps of main while the modules run.
<1>6. ASSUME NEW p \in Proc, UNCHANGED <<key, crt, killed>>,
             proc[p].pc \in {"select", "wait", "collect"}, proc'[p].pc \in {"wait", "collect"},
             proc'[p].mode = proc[p].mode, proc'[p].pair = proc[p].pair,
             proc'[p].priv = proc[p].priv,
             \A q \in Proc \ {p} : proc'[q] = proc[q] /\ module'[q] = module[q],
             module'[p]["master"] # "none" <=> module[p]["master"] # "none"
      PROVE  KeyInv'
  <2>1. VaultOf(p)'
    BY <1>0, <1>6 DEF VaultOf, Uses
  <2> QED
    BY <1>6, <2>1, KeyUntouched DEF Making
<1>7. ASSUME NEW p \in Proc, Signal(p)
      PROVE  KeyInv'
  <2>1. /\ proc'[p] = [proc[p] EXCEPT !.pc = "wait", !.cancelled = TRUE]
        /\ \A q \in Proc \ {p} : proc'[q] = proc[q]
        /\ proc[p].pc = "select" /\ module' = module /\ UNCHANGED <<key, crt, killed>>
    BY <1>7 DEF Signal, At, TypeInv
  <2>2. /\ proc'[p].pc = "wait" /\ proc'[p].mode = proc[p].mode
        /\ proc'[p].pair = proc[p].pair /\ proc'[p].priv = proc[p].priv
    BY <1>0, <2>1 DEF ProcType
  <2> QED
    BY <1>6, <2>1, <2>2
<1>8. ASSUME NEW p \in Proc, NEW m \in Module, Receive(p, m)
      PROVE  /\ \A q \in Proc \ {p} : module'[q] = module[q]
             /\ module'[p]["master"] # "none" <=> module[p]["master"] # "none"
  BY <1>8, ReceiveType DEF Module
<1>9. ASSUME NEW p \in Proc, NEW m \in Module, First(p, m)
      PROVE  KeyInv'
  <2>1. /\ proc'[p].pc = "collect" /\ proc'[p].mode = proc[p].mode
        /\ proc'[p].pair = proc[p].pair /\ proc'[p].priv = proc[p].priv
        /\ \A q \in Proc \ {p} : proc'[q] = proc[q]
    BY <1>9, FirstFields
  <2>2. proc[p].pc \in {"select", "wait"} /\ Receive(p, m) /\ UNCHANGED <<key, crt, killed>>
    BY <1>9 DEF First
  <2> QED
    BY <1>6, <1>8, <2>1, <2>2
<1>10. ASSUME NEW p \in Proc, NEW m \in Module, Collect(p, m)
       PROVE  KeyInv'
  <2>1. /\ proc'[p].pc = proc[p].pc /\ proc'[p].mode = proc[p].mode
        /\ proc'[p].pair = proc[p].pair /\ proc'[p].priv = proc[p].priv
        /\ \A q \in Proc \ {p} : proc'[q] = proc[q]
    BY <1>10, CollectFields
  <2>2. proc[p].pc = "collect" /\ Receive(p, m) /\ UNCHANGED <<key, crt, killed>>
    BY <1>10 DEF Collect, At
  <2> QED
    BY <1>6, <1>8, <2>1, <2>2
<1>11. ASSUME NEW p \in Proc, Collected(p)
       PROVE  KeyInv'
  <2>1. /\ proc[p].pc = "collect" /\ Noted(p) \in {0, 1} /\ Exit(p, Noted(p))
        /\ module' = module /\ UNCHANGED <<key, crt, killed>>
    BY <1>0, <1>11 DEF Collected, At, Noted, ProcType
  <2> QED
    BY <2>1, ExitVault, KeyUntouched DEF Making
<1>12. ASSUME NEW p \in Proc, Kill(p)
       PROVE  KeyInv'
  <2>1. /\ proc'[p] = Off /\ UNCHANGED <<key, crt>>
        /\ \A q \in Proc \ {p} : proc'[q] = proc[q] /\ module'[q] = module[q]
        /\ \A x \in Owner \ {Makes(p)} : killed'[x] = killed[x]
        /\ killed'[Makes(p)] = (killed[Makes(p)] \/ proc[p].pc \in Making)
    BY <1>0, <1>12 DEF Kill, TypeInv
  <2>2. proc'[p].pc = "off" /\ VaultOf(p)' /\ MakerOf(p)'
    BY <2>1 DEF Off, VaultOf, MakerOf
  <2>3. killed'["ca"] \/ Makes(p) = "user" \/ (proc[p].pc \notin Making /\ UNCHANGED killed)
    <3>1. CASE proc[p].pc \in Making
      BY <1>0, <2>1, <3>1 DEF Owner
    <3>2. CASE proc[p].pc \notin Making
      <4>1. killed'[Makes(p)] = killed[Makes(p)]
        BY <1>0, <2>1, <3>2 DEF TypeInv
      <4>2. \A x \in Owner : killed'[x] = killed[x]
        BY <2>1, <4>1
      <4> QED
        BY <3>2, <4>2 DEF TypeInv
    <3> QED
      BY <3>1, <3>2
  <2>4. \A o \in Owner : o = Makes(p) => PairOf(o)'
    BY <1>0, <2>1 DEF PairOf
  <2> QED
    BY <1>0, <2>1, <2>2, <2>3, <2>4, KeyLocal DEF Making
<1>13. ASSUME NEW o \in Owner, Remove(o)
       PROVE  KeyInv'
  <2>1. /\ \A x \in Owner \ {o} : key'[x] = key[x] /\ crt'[x] = crt[x] /\ killed'[x] = killed[x]
        /\ key'[o] = Missing /\ crt'[o] = Missing /\ UNCHANGED <<proc, module>>
    BY <1>13 DEF Remove, TypeInv
  <2>2. \A p \in Proc : proc[p].pc \in {"off", "exited", "select", "wait", "collect"}
    BY <1>13 DEF Remove
  <2>3. ASSUME NEW p \in Proc
        PROVE  MakerOf(p)' /\ VaultOf(p)' /\ proc'[p].pc \notin Making
    <3>1. VaultOf(p) /\ proc'[p] = proc[p] /\ module'[p] = module[p]
      BY <1>0, <2>1
    <3>2. proc[p].pc \in {"off", "exited", "select", "wait", "collect"}
      BY <2>2
    <3>3. MakerOf(p)' /\ proc'[p].pc \notin Making
      BY <3>1, <3>2 DEF MakerOf, Making
    <3>4. VaultOf(p)'
      BY <3>1, <3>2 DEF VaultOf, Uses
    <3> QED
      BY <3>3, <3>4
  <2>4. \A x \in Owner : PairOf(x)'
    BY <2>1, KeysApart DEF KeyInv, PairOf, Whole
  <2>5. ~killed'["ca"] => CaComplete'
    <3>1. \A p \in Proc : proc[p].pc \notin Making
      BY <2>2 DEF Making
    <3> QED
      BY <2>1, <3>1, KeysApart DEF KeyInv, CaComplete, Owner
  <2> QED
    BY <2>3, <2>4, <2>5 DEF KeyInv, PairOf, CaComplete
<1>14. CASE UNCHANGED vars
  BY <1>4, <1>14 DEF vars, Uses
<1> QED
  BY <1>1, <1>2, <1>3, <1>5, <1>7, <1>9, <1>10, <1>11, <1>12, <1>13, <1>14
     DEF Next, Main, EarlyStep

-----------------------------------------------------------------------------
\* The invariant holds of every behaviour of the program.
LEMMA ProcessAlways == Spec => [](TypeInv /\ KeyInv /\ ResultInv)
<1>1. Init => TypeInv /\ KeyInv /\ ResultInv
  <2> SUFFICES ASSUME Init PROVE TypeInv /\ KeyInv /\ ResultInv
    OBVIOUS
  <2>1. TypeInv
    BY OffType, ProcessAssumption DEF Init, TypeInv, NoModule
  <2>2. \A p \in Proc : proc[p] = Off /\ proc[p].pc = "off" /\ proc[p].mode = "none"
                        /\ proc[p].priv = Missing /\ ~proc[p].cancelled
                        /\ proc[p].ec = 0 /\ ~proc[p].err
    BY DEF Init, Off
  <2>3. KeyInv
    BY <2>2, KeysApart DEF Init, KeyInv, MakerOf, VaultOf, Making, Whole, Owner
  <2>4. ResultInv
    BY <2>2 DEF ResultInv, ResultOf
  <2> QED
    BY <2>1, <2>3, <2>4
<1>2. (TypeInv /\ KeyInv /\ ResultInv) /\ [Next]_vars => (TypeInv /\ KeyInv /\ ResultInv)'
  BY TypeStep, KeyStep, ResultStep
<1> QED
  BY <1>1, <1>2, PTL DEF Spec

\* However many processes generate keys, register and load them at once, a
\* readable certificate is one for the key next to it, a master's vault is one
\* pair, and the CA has both files or neither unless a process was killed.
THEOREM KeysAlwaysMatch == Spec => []KeysMatch
<1>1. KeyInv => KeysMatch
  BY DEF KeyInv, KeysMatch, VaultOf
<1> QED
  BY <1>1, ProcessAlways, PTL

\* main exits only after every module has returned, and with the exit code that
\* their results ask for, whatever their number and order.
THEOREM ExitAlwaysTellsAll == Spec => []ExitTellsAll
<1>1. ResultInv => ExitTellsAll
  <2> SUFFICES ASSUME ResultInv, NEW p \in Proc, At(p, "exited"), proc[p].cancelled
               PROVE  /\ \A m \in Module : module[p][m] \in {"none", "done", "failed"}
                      /\ proc[p].ec = 1 <=> \E m \in Module : module[p][m] = "failed"
    BY DEF ExitTellsAll
  <2>1. Pending(p) = {} /\ (proc[p].ec = 1 <=> Failed(p))
    BY DEF ResultInv, ResultOf, At
  <2> QED
    BY <2>1 DEF Pending, Failed
<1> QED
  BY <1>1, ProcessAlways, PTL
=============================================================================
