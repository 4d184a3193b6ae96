---------------------------- MODULE SessionProofs ----------------------------
(***************************************************************************)
(* Proofs about Session for any threads, files and number of connections.  *)
(***************************************************************************)
EXTENDS Session, SequenceTheorems, TLAPS

\* An invocation of Call.
Frames ==
  [method : {"SetFile", "GetDir", "Signin"}, file : File \cup {NoFile},
   pc : {"call", "sent", "dial", "dialed", "taken", "signin",
         "export", "recall", "failed"},
   conn : Conn, cb : {"none", "real", "noop"}, wrote : 0 .. 3]

StackType == stack \in [Thread -> Seq(Frames)]

\* The frames below the current one are calls whose callback is signing in.
\* Only a request that is under way has written anything, and only a Signin; a
\* call that has not reconnected has no callback, and one other than Signin is
\* about a file.
FrameOK(f, i) ==
  /\ f.pc = "signin" <=> i > 1
  /\ f.pc # "sent" \/ f.method # "Signin" => f.wrote = 0
  /\ f.pc \in {"call", "dial", "dialed"} => f.cb = "none"
  /\ f.method = "SetFile" => f.file \in File

FrameInv == \A t \in Thread : \A i \in 1 .. Len(stack[t]) : FrameOK(stack[t][i], i)

-----------------------------------------------------------------------------
(* What the steps of Call do to a stack.                                   *)

LEMMA FrameType ==
  ASSUME NEW m \in {"SetFile", "GetDir", "Signin"}, NEW f \in File \cup {NoFile}
  PROVE  /\ Frame(m, f) \in Frames
         /\ Frame(m, f).pc = "call" /\ Frame(m, f).cb = "none" /\ Frame(m, f).wrote = 0
         /\ Frame(m, f).method = m /\ Frame(m, f).file = f
<1>1. 1 \in Conn /\ 0 \in 0 .. 3
  BY SessionAssumption DEF Conn
<1> QED
  BY <1>1 DEF Frame, Frames

\* The current frame is the first.
LEMMA TopFirst ==
  ASSUME StackType, NEW t \in Thread, ~Idle(t)
  PROVE  /\ stack[t] \in Seq(Frames) /\ Len(stack[t]) \in Nat \ {0}
         /\ Top(t) = stack[t][1] /\ Top(t) \in Frames
<1>1. stack[t] \in Seq(Frames) /\ stack[t] # << >>
  BY DEF StackType, Idle
<1>2. Len(stack[t]) \in Nat \ {0} /\ Head(stack[t]) = stack[t][1]
  BY <1>1, EmptySeq
<1>3. 1 \in 1 .. Len(stack[t])
  BY <1>2
<1>4. stack[t][1] \in Frames
  BY <1>1, <1>3, ElementOfSeq
<1> QED
  BY <1>1, <1>2, <1>4 DEF Top

\* A sequence with another head.
LEMMA NewHead ==
  ASSUME NEW S, NEW s \in Seq(S), s # << >>, NEW f \in S
  PROVE  LET r == <<f>> \o Tail(s)
         IN  /\ r \in Seq(S) /\ Len(r) = Len(s) /\ r # << >>
             /\ r[1] = f /\ \A i \in 2 .. Len(s) : r[i] = s[i]
<1> DEFINE r == <<f>> \o Tail(s)
           z == Tail(s)
<1>1. Len(s) \in Nat \ {0}
  BY EmptySeq
<1>2. /\ z \in Seq(S) /\ Len(z) = Len(s) - 1
      /\ \A i \in 1 .. Len(z) : z[i] = s[i + 1]
  BY <1>1, HeadTailProperties
<1>3. <<f>> \in Seq(S) /\ Len(<<f>>) = 1 /\ <<f>>[1] = f
  OBVIOUS
<1> HIDE DEF z
<1>4. /\ <<f>> \o z \in Seq(S) /\ Len(<<f>> \o z) = 1 + Len(z)
      /\ \A i \in 1 .. 1 + Len(z) : (<<f>> \o z)[i] = IF i <= 1 THEN <<f>>[i] ELSE z[i - 1]
  BY <1>2, <1>3, ConcatProperties
<1> DEFINE w == <<f>> \o z
<1>5. w = r
  BY DEF z
<1> HIDE DEF w, r
<1>6. w \in Seq(S) /\ Len(w) = Len(s)
  BY <1>1, <1>2, <1>4 DEF w
<1>7. w[1] = f
  BY <1>1, <1>2, <1>3, <1>4 DEF w
<1>8. ASSUME NEW i \in 2 .. Len(s)
      PROVE  w[i] = s[i]
  <2>1. i \in 1 .. 1 + Len(z) /\ ~(i <= 1) /\ i - 1 \in 1 .. Len(z) /\ (i - 1) + 1 = i
    BY <1>1, <1>2
  <2>2. w[i] = z[i - 1]
    BY <1>4, <2>1 DEF w
  <2> QED
    BY <1>2, <2>1, <2>2
<1>9. w # << >>
  BY <1>1, <1>6
<1> QED
  BY <1>5, <1>6, <1>7, <1>8, <1>9 DEF r

\* A sequence with one more element in front.
LEMMA OneMore ==
  ASSUME NEW S, NEW s \in Seq(S), NEW f \in S
  PROVE  LET r == <<f>> \o s
         IN  /\ r \in Seq(S) /\ Len(r) = Len(s) + 1 /\ r # << >>
             /\ r[1] = f /\ \A i \in 1 .. Len(s) : r[i + 1] = s[i]
<1> DEFINE r == <<f>> \o s
<1>1. Len(s) \in Nat
  BY LenProperties
<1>2. <<f>> \in Seq(S) /\ Len(<<f>>) = 1 /\ <<f>>[1] = f
  OBVIOUS
<1>3. /\ r \in Seq(S) /\ Len(r) = 1 + Len(s)
      /\ \A i \in 1 .. 1 + Len(s) : r[i] = IF i <= 1 THEN <<f>>[i] ELSE s[i - 1]
  BY <1>2, ConcatProperties
<1> HIDE DEF r
<1>4. r[1] = f /\ Len(r) = Len(s) + 1
  BY <1>1, <1>2, <1>3
<1>5. ASSUME NEW i \in 1 .. Len(s)
      PROVE  r[i + 1] = s[i]
  <2>1. i + 1 \in 1 .. 1 + Len(s) /\ ~(i + 1 <= 1) /\ (i + 1) - 1 = i
    BY <1>1
  <2> QED
    BY <1>3, <2>1
<1>6. r # << >>
  BY <1>1, <1>3
<1> QED
  BY <1>3, <1>4, <1>5, <1>6 DEF r

\* The current frame is replaced,
LEMMA ReplacedShape ==
  ASSUME StackType, NEW t \in Thread, ~Idle(t), NEW f \in Frames,
         stack' = [stack EXCEPT ![t] = Replaced(t, f)]
  PROVE  /\ stack' \in [Thread -> Seq(Frames)]
         /\ \A u \in Thread : u # t => stack'[u] = stack[u]
         /\ Len(stack'[t]) = Len(stack[t]) /\ stack'[t] # << >>
         /\ stack'[t][1] = f /\ \A i \in 2 .. Len(stack[t]) : stack'[t][i] = stack[t][i]
<1>1. stack[t] \in Seq(Frames) /\ stack[t] # << >> /\ stack \in [Thread -> Seq(Frames)]
  BY DEF StackType, Idle
<1> DEFINE r == <<f>> \o Tail(stack[t])
<1>2. /\ r \in Seq(Frames) /\ Len(r) = Len(stack[t]) /\ r # << >>
      /\ r[1] = f /\ \A i \in 2 .. Len(stack[t]) : r[i] = stack[t][i]
  BY <1>1, NewHead
<1>3. stack' = [stack EXCEPT ![t] = r]
  BY DEF Replaced
<1> HIDE DEF r
<1>4. stack'[t] = r
  BY <1>1, <1>3
<1> QED
  BY <1>1, <1>2, <1>3, <1>4

\* the callback signs in,
LEMMA PushedShape ==
  ASSUME StackType, NEW t \in Thread, ~Idle(t), NEW f \in Frames, NEW g \in Frames,
         stack' = [stack EXCEPT ![t] = <<g>> \o Replaced(t, f)]
  PROVE  /\ stack' \in [Thread -> Seq(Frames)]
         /\ \A u \in Thread : u # t => stack'[u] = stack[u]
         /\ Len(stack'[t]) = Len(stack[t]) + 1 /\ stack'[t] # << >>
         /\ stack'[t][1] = g /\ stack'[t][2] = f
         /\ \A i \in 2 .. Len(stack[t]) : stack'[t][i + 1] = stack[t][i]
<1>1. /\ stack[t] \in Seq(Frames) /\ stack[t] # << >> /\ stack \in [Thread -> Seq(Frames)]
      /\ Len(stack[t]) \in Nat \ {0}
  BY TopFirst DEF StackType, Idle
<1> DEFINE r == Replaced(t, f)
           w == <<g>> \o r
<1>2. /\ r \in Seq(Frames) /\ Len(r) = Len(stack[t])
      /\ r[1] = f /\ \A i \in 2 .. Len(stack[t]) : r[i] = stack[t][i]
  BY <1>1, NewHead DEF Replaced
<1> HIDE DEF r
<1>3. /\ w \in Seq(Frames) /\ Len(w) = Len(r) + 1 /\ w # << >>
      /\ w[1] = g /\ \A i \in 1 .. Len(r) : w[i + 1] = r[i]
  BY <1>2, OneMore
<1>4. stack' = [stack EXCEPT ![t] = w]
  BY DEF r
<1> HIDE DEF w
<1>5. stack'[t] = w /\ stack' \in [Thread -> Seq(Frames)]
      /\ \A u \in Thread : u # t => stack'[u] = stack[u]
  BY <1>1, <1>3, <1>4
<1>6. w[2] = f
  <2>1. 1 \in 1 .. Len(r) /\ 1 + 1 = 2
    BY <1>1, <1>2
  <2> QED
    BY <1>2, <1>3, <2>1
<1>7. \A i \in 2 .. Len(stack[t]) : w[i + 1] = stack[t][i]
  BY <1>1, <1>2, <1>3
<1> QED
  BY <1>2, <1>3, <1>5, <1>6, <1>7

\* a call returns that nothing else waits for,
LEMMA EmptiedShape ==
  ASSUME StackType, NEW t \in Thread, ~Idle(t), NEW ok, Len(stack[t]) = 1,
         stack' = [stack EXCEPT ![t] = Resumed(t, ok)]
  PROVE  /\ stack' \in [Thread -> Seq(Frames)]
         /\ \A u \in Thread : u # t => stack'[u] = stack[u]
         /\ stack'[t] = << >>
<1>1. stack[t] \in Seq(Frames) /\ stack \in [Thread -> Seq(Frames)] /\ stack[t] # << >>
  BY DEF StackType, Idle
<1> DEFINE z == Tail(stack[t])
<1>2. z \in Seq(Frames) /\ Len(z) = 0
  BY <1>1, HeadTailProperties
<1>3. z = << >>
  BY <1>2, EmptySeq
<1>4. stack' = [stack EXCEPT ![t] = << >>]
  BY <1>3 DEF Resumed
<1> QED
  BY <1>1, <1>4

\* and one returns to the callback that made it.
LEMMA ResumedShape ==
  ASSUME StackType, NEW t \in Thread, ~Idle(t), NEW ok, Len(stack[t]) > 1,
         stack' = [stack EXCEPT ![t] = Resumed(t, ok)]
  PROVE  /\ stack' \in [Thread -> Seq(Frames)]
         /\ \A u \in Thread : u # t => stack'[u] = stack[u]
         /\ Len(stack'[t]) = Len(stack[t]) - 1 /\ stack'[t] # << >>
         /\ stack[t][2] \in Frames
         /\ \E m \in {"failed", "export", "recall"} :
              stack'[t][1] = [stack[t][2] EXCEPT !.pc = m]
         /\ \A i \in 2 .. Len(stack[t]) - 1 : stack'[t][i] = stack[t][i + 1]
<1> DEFINE s == stack[t]
           z == Tail(s)
           n == IF ~ok THEN "failed" ELSE IF HasShares THEN "export" ELSE "recall"
           f == [Head(z) EXCEPT !.pc = n]
           w == IF z = << >> THEN z ELSE <<f>> \o Tail(z)
<1>1. s \in Seq(Frames) /\ stack \in [Thread -> Seq(Frames)] /\ Len(s) \in Nat \ {0}
      /\ s # << >> /\ Len(s) > 1
  BY TopFirst DEF StackType, Idle
<1>2. stack' = [stack EXCEPT ![t] = w]
  BY DEF Resumed
<1>3. n \in {"failed", "export", "recall"}
  OBVIOUS
<1>0. s = stack[t]
  OBVIOUS
<1> HIDE DEF s, n
<1>4. /\ z \in Seq(Frames) /\ Len(z) = Len(s) - 1
      /\ \A i \in 1 .. Len(z) : z[i] = s[i + 1]
  BY <1>1, HeadTailProperties
<1> HIDE DEF z
<1>5. Len(z) \in Nat \ {0} /\ z # << >> /\ 1 \in 1 .. Len(z)
  <2>1. Len(z) \in Nat \ {0}
    BY <1>1, <1>4
  <2> QED
    BY <2>1
<1>6. Head(z) = s[2] /\ s[2] \in Frames
  <2>1. Head(z) = z[1] /\ z[1] \in Frames
    BY <1>4, <1>5, ElementOfSeq
  <2>2. z[1] = s[1 + 1]
    BY <1>4, <1>5
  <2> QED
    BY <2>1, <2>2
<1>7. f = [s[2] EXCEPT !.pc = n] /\ f \in Frames
  <2>1. [s[2] EXCEPT !.pc = n] \in Frames
    BY <1>3, <1>6 DEF Frames
  <2> QED
    BY <1>6, <2>1
<1> HIDE DEF f
<1> DEFINE v == <<f>> \o Tail(z)
<1>8. /\ v \in Seq(Frames) /\ Len(v) = Len(z) /\ v # << >>
      /\ v[1] = f /\ \A i \in 2 .. Len(z) : v[i] = z[i]
  BY <1>4, <1>5, <1>7, NewHead
<1>9. stack' = [stack EXCEPT ![t] = v]
  BY <1>2, <1>5
<1> HIDE DEF v
<1>10. stack'[t] = v /\ stack' \in [Thread -> Seq(Frames)]
       /\ \A u \in Thread : u # t => stack'[u] = stack[u]
  BY <1>1, <1>8, <1>9
<1>11. \A i \in 2 .. Len(s) - 1 : stack'[t][i] = s[i + 1]
  BY <1>1, <1>4, <1>8, <1>10
<1>12. \E m \in {"failed", "export", "recall"} : stack'[t][1] = [s[2] EXCEPT !.pc = m]
  <2>1. stack'[t][1] = [s[2] EXCEPT !.pc = n]
    BY <1>7, <1>8, <1>10
  <2> QED
    BY <1>3, <2>1
<1>13. Len(stack'[t]) = Len(s) - 1 /\ stack'[t] # << >>
  BY <1>4, <1>8, <1>10
<1> QED
  BY <1>0, <1>6, <1>10, <1>11, <1>12, <1>13

\* Frames with other values in some of their fields.
LEMMA FrameAt ==
  ASSUME NEW f \in Frames,
         NEW p \in {"call", "sent", "dial", "dialed", "taken", "signin",
                    "export", "recall", "failed"}
  PROVE  LET g == [f EXCEPT !.pc = p]
         IN  /\ g \in Frames /\ g.pc = p /\ g.cb = f.cb /\ g.wrote = f.wrote
             /\ g.conn = f.conn /\ g.method = f.method /\ g.file = f.file
BY DEF Frames

LEMMA FrameSent ==
  ASSUME NEW f \in Frames, NEW c \in Conn
  PROVE  LET g == [f EXCEPT !.pc = "sent", !.conn = c]
         IN  /\ g \in Frames /\ g.pc = "sent" /\ g.cb = f.cb /\ g.wrote = f.wrote
             /\ g.conn = c /\ g.method = f.method /\ g.file = f.file
BY DEF Frames

LEMMA FrameTaken ==
  ASSUME NEW f \in Frames, NEW b \in {"none", "real", "noop"}
  PROVE  LET g == [f EXCEPT !.pc = "taken", !.cb = b]
         IN  /\ g \in Frames /\ g.pc = "taken" /\ g.cb = b /\ g.wrote = f.wrote
             /\ g.conn = f.conn /\ g.method = f.method /\ g.file = f.file
BY DEF Frames

LEMMA FrameWrote ==
  ASSUME NEW f \in Frames, f.wrote < 3
  PROVE  LET g == [f EXCEPT !.wrote = @ + 1]
         IN  /\ g \in Frames /\ g.pc = f.pc /\ g.cb = f.cb /\ g.wrote = f.wrote + 1
             /\ g.conn = f.conn /\ g.method = f.method /\ g.file = f.file
<1>1. f.wrote + 1 \in 0 .. 3
  BY DEF Frames
<1> QED
  BY <1>1 DEF Frames

\* What Signin writes.
LEMMA Writes ==
  /\ HasAddress => /\ Len(SigninWrites) = 3 /\ SigninWrites[1] = "address"
                   /\ SigninWrites[2] = "ident" /\ SigninWrites[3] = "user"
                   /\ Range(SigninWrites) = {"address", "ident", "user"}
  /\ ~HasAddress => /\ Len(SigninWrites) = 1 /\ SigninWrites[1] = "user"
                    /\ Range(SigninWrites) = {"user"}
<1>1. CASE HasAddress
  <2> DEFINE w == <<"address", "ident", "user">>
  <2>1. SigninWrites = w
    BY <1>1 DEF SigninWrites
  <2>2. Len(w) = 3 /\ w[1] = "address" /\ w[2] = "ident" /\ w[3] = "user" /\ DOMAIN w = 1 .. 3
    OBVIOUS
  <2>3. 1 .. 3 = {1, 2, 3}
    OBVIOUS
  <2> HIDE DEF w
  <2>4. Range(w) = {"address", "ident", "user"}
    BY <2>2, <2>3 DEF Range
  <2> QED
    BY <1>1, <2>1, <2>2, <2>4
<1>2. CASE ~HasAddress
  <2> DEFINE w == <<"user">>
  <2>1. SigninWrites = w
    BY <1>2 DEF SigninWrites
  <2>2. Len(w) = 1 /\ w[1] = "user" /\ DOMAIN w = 1 .. 1
    OBVIOUS
  <2>3. 1 .. 1 = {1}
    OBVIOUS
  <2> HIDE DEF w
  <2>4. Range(w) = {"user"}
    BY <2>2, <2>3 DEF Range
  <2> QED
    BY <1>2, <2>1, <2>2, <2>4
<1> QED
  BY <1>1, <1>2

LEMMA WritesDomain == DOMAIN SigninWrites = 1 .. Len(SigninWrites)
<1>1. CASE HasAddress
  <2>1. SigninWrites = <<"address", "ident", "user">>
    BY <1>1 DEF SigninWrites
  <2> QED
    BY <2>1
<1>2. CASE ~HasAddress
  <2>1. SigninWrites = <<"user">>
    BY <1>2 DEF SigninWrites
  <2> QED
    BY <2>1
<1> QED
  BY <1>1, <1>2

\* Stacks stay in order when their current frame is replaced,
LEMMA ReplacedOK ==
  ASSUME StackType, FrameInv, NEW t \in Thread, ~Idle(t), NEW f \in Frames, FrameOK(f, 1),
         stack' = [stack EXCEPT ![t] = Replaced(t, f)]
  PROVE  StackType' /\ FrameInv'
<1>1. /\ stack' \in [Thread -> Seq(Frames)]
      /\ \A u \in Thread : u # t => stack'[u] = stack[u]
      /\ Len(stack'[t]) = Len(stack[t])
      /\ stack'[t][1] = f /\ \A i \in 2 .. Len(stack[t]) : stack'[t][i] = stack[t][i]
  BY ReplacedShape
<1>2. Len(stack[t]) \in Nat
  BY TopFirst
<1>3. ASSUME NEW i \in 1 .. Len(stack'[t])
      PROVE  FrameOK(stack'[t][i], i)
  <2>1. CASE i = 1
    BY <1>1, <2>1
  <2>2. CASE i # 1
    <3>1. i \in 2 .. Len(stack[t]) /\ i \in 1 .. Len(stack[t])
      BY <1>1, <1>2, <2>2
    <3> QED
      BY <1>1, <3>1 DEF FrameInv
  <2> QED
    BY <2>1, <2>2
<1> QED
  BY <1>1, <1>3 DEF StackType, FrameInv

\* when the callback signs in,
LEMMA PushedOK ==
  ASSUME StackType, FrameInv, NEW t \in Thread, ~Idle(t), NEW f \in Frames, NEW g \in Frames,
         FrameOK(g, 1), FrameOK(f, 2),
         stack' = [stack EXCEPT ![t] = <<g>> \o Replaced(t, f)]
  PROVE  StackType' /\ FrameInv'
<1>1. /\ stack' \in [Thread -> Seq(Frames)]
      /\ \A u \in Thread : u # t => stack'[u] = stack[u]
      /\ Len(stack'[t]) = Len(stack[t]) + 1 /\ stack'[t] # << >>
      /\ stack'[t][1] = g /\ stack'[t][2] = f
      /\ \A i \in 2 .. Len(stack[t]) : stack'[t][i + 1] = stack[t][i]
  <2> DEFINE r == <<g>> \o Replaced(t, f)
  <2>1. stack' = [stack EXCEPT ![t] = r]
    OBVIOUS
  <2> QED
    BY ONLY StackType, ~Idle(t), <2>1, t \in Thread, f \in Frames, g \in Frames, PushedShape
<1>2. Len(stack[t]) \in Nat
  BY TopFirst
<1>3. ASSUME NEW i \in 1 .. Len(stack'[t])
      PROVE  FrameOK(stack'[t][i], i)
  <2>1. CASE i = 1 \/ i = 2
    BY <1>1, <2>1
  <2>2. CASE i # 1 /\ i # 2
    <3> DEFINE j == i - 1
    <3>1. j \in 2 .. Len(stack[t]) /\ j \in 1 .. Len(stack[t]) /\ j + 1 = i /\ j > 1 /\ i > 1
      BY <1>1, <1>2, <2>2
    <3> HIDE DEF j
    <3>2. stack'[t][i] = stack[t][j]
      BY <1>1, <3>1
    <3>3. FrameOK(stack[t][j], j)
      BY <3>1 DEF FrameInv
    <3> QED
      BY <3>1, <3>2, <3>3 DEF FrameOK
  <2> QED
    BY <2>1, <2>2
<1> QED
  BY <1>1, <1>3 DEF StackType, FrameInv

\* when a call returns
LEMMA ResumedOK ==
  ASSUME StackType, FrameInv, NEW t \in Thread, ~Idle(t), NEW ok,
         stack' = [stack EXCEPT ![t] = Resumed(t, ok)]
  PROVE  StackType' /\ FrameInv'
<1>1. Len(stack[t]) \in Nat \ {0}
  BY TopFirst
<1>2. CASE Len(stack[t]) = 1
  <2>1. /\ stack' \in [Thread -> Seq(Frames)]
        /\ \A u \in Thread : u # t => stack'[u] = stack[u]
        /\ stack'[t] = << >>
    BY <1>2, EmptiedShape
  <2>2. Len(stack'[t]) = 0
    BY <2>1
  <2> QED
    BY <2>1, <2>2 DEF StackType, FrameInv
<1>3. CASE Len(stack[t]) > 1
  <2>1. /\ stack' \in [Thread -> Seq(Frames)]
        /\ \A u \in Thread : u # t => stack'[u] = stack[u]
        /\ Len(stack'[t]) = Len(stack[t]) - 1 /\ stack[t][2] \in Frames
        /\ \A i \in 2 .. Len(stack[t]) - 1 : stack'[t][i] = stack[t][i + 1]
    BY <1>3, ResumedShape
  <2>2. PICK m \in {"failed", "export", "recall"} :
          stack'[t][1] = [stack[t][2] EXCEPT !.pc = m]
    BY <1>3, ResumedShape
  <2>3. FrameOK(stack'[t][1], 1)
    <3> DEFINE f == stack[t][2]
    <3>1. FrameOK(f, 2)
      <4>1. 2 \in 1 .. Len(stack[t])
        BY <1>1, <1>3
      <4> QED
        BY <4>1 DEF FrameInv
    <3>2. f \in Frames /\ stack'[t][1] = [f EXCEPT !.pc = m]
      BY <2>1, <2>2
    <3> HIDE DEF f
    <3>3. /\ stack'[t][1].pc = m /\ stack'[t][1].wrote = f.wrote
          /\ stack'[t][1].method = f.method /\ stack'[t][1].file = f.file
      BY <3>2 DEF Frames
    <3> QED
      BY <3>1, <3>3 DEF FrameOK
  <2>4. ASSUME NEW i \in 2 .. Len(stack[t]) - 1
        PROVE  FrameOK(stack'[t][i], i)
    <3>1. i + 1 \in 1 .. Len(stack[t]) /\ i > 1 /\ i + 1 > 1
      BY <1>1
    <3>2. FrameOK(stack[t][i + 1], i + 1)
      BY <3>1 DEF FrameInv
    <3> QED
      BY <2>1, <3>1, <3>2 DEF FrameOK
  <2>5. \A i \in 1 .. Len(stack'[t]) : i = 1 \/ i \in 2 .. Len(stack[t]) - 1
    BY <1>1, <2>1
  <2> QED
    BY <2>1, <2>3, <2>4, <2>5 DEF StackType, FrameInv
<1>4. Len(stack[t]) = 1 \/ Len(stack[t]) > 1
  <2>1. \A n \in Nat \ {0} : n = 1 \/ n > 1
    OBVIOUS
  <2> QED
    BY <1>1, <2>1
<1> QED
  BY <1>2, <1>3, <1>4

\* and when one begins.
LEMMA StartedOK ==
  ASSUME StackType, FrameInv, NEW t \in Thread, NEW f \in Frames, FrameOK(f, 1),
         stack' = [stack EXCEPT ![t] = <<f>>]
  PROVE  StackType' /\ FrameInv'
<1>1. <<f>> \in Seq(Frames) /\ Len(<<f>>) = 1 /\ <<f>>[1] = f
  OBVIOUS
<1>2. /\ stack' \in [Thread -> Seq(Frames)] /\ stack'[t] = <<f>>
      /\ \A u \in Thread : u # t => stack'[u] = stack[u]
  BY <1>1 DEF StackType
<1> QED
  BY <1>1, <1>2 DEF StackType, FrameInv

LEMMA TypeHasStacks ==
  ASSUME TypeOK
  PROVE  /\ StackType /\ client \in Conn /\ reconnCb \in {"real", "noop"}
         /\ HasAddress \in BOOLEAN /\ HasShares \in BOOLEAN
BY DEF TypeOK, StackType, Frames

\* The frames a step puts on the stack.
LEMMA SendFrame ==
  ASSUME TypeOK, NEW t \in Thread, ~Idle(t), Send(t, "sent")
  PROVE  \E f \in Frames :
           /\ stack' = [stack EXCEPT ![t] = Replaced(t, f)]
           /\ f.pc = "sent" /\ f.conn = client /\ f.cb = Top(t).cb
           /\ f.wrote = Top(t).wrote /\ f.method = Top(t).method /\ f.file = Top(t).file
<1> DEFINE f == [Top(t) EXCEPT !.pc = "sent", !.conn = client]
<1>1. Top(t) \in Frames /\ client \in Conn
  BY TypeHasStacks, TopFirst
<1>2. /\ f \in Frames /\ f.pc = "sent" /\ f.cb = Top(t).cb /\ f.wrote = Top(t).wrote
      /\ f.conn = client /\ f.method = Top(t).method /\ f.file = Top(t).file
  BY <1>1, FrameSent
<1>3. stack' = [stack EXCEPT ![t] = Replaced(t, f)]
  BY DEF Send
<1> HIDE DEF f
<1> QED
  BY <1>2, <1>3

LEMMA GotoFrame ==
  ASSUME TypeOK, NEW t \in Thread, ~Idle(t),
         NEW p \in {"dial", "dialed", "recall"}, Goto(t, p)
  PROVE  \E f \in Frames :
           /\ stack' = [stack EXCEPT ![t] = Replaced(t, f)]
           /\ f.pc = p /\ f.conn = Top(t).conn /\ f.cb = Top(t).cb
           /\ f.wrote = Top(t).wrote /\ f.method = Top(t).method /\ f.file = Top(t).file
<1> DEFINE f == [Top(t) EXCEPT !.pc = p]
<1>1. Top(t) \in Frames
  BY TypeHasStacks, TopFirst
<1>2. /\ f \in Frames /\ f.pc = p /\ f.cb = Top(t).cb /\ f.wrote = Top(t).wrote
      /\ f.conn = Top(t).conn /\ f.method = Top(t).method /\ f.file = Top(t).file
  BY <1>1 DEF Frames
<1>3. stack' = [stack EXCEPT ![t] = Replaced(t, f)]
  BY DEF Goto
<1> HIDE DEF f
<1> QED
  BY <1>2, <1>3

LEMMA SigninFrame ==
  ASSUME TypeOK, NEW t \in Thread, Signin(t)
  PROVE  /\ ~Idle(t) /\ Top(t).pc = "sent" /\ Top(t).method = "Signin"
         /\ \E f \in Frames :
              /\ stack' = [stack EXCEPT ![t] = Replaced(t, f)]
              /\ f.pc = "sent" /\ f.conn = Top(t).conn /\ f.cb = Top(t).cb
              /\ f.wrote = Top(t).wrote + 1 /\ f.method = "Signin"
<1> DEFINE f == [Top(t) EXCEPT !.wrote = @ + 1]
<1>1. ~Idle(t) /\ Top(t).pc = "sent" /\ Top(t).method = "Signin"
  BY DEF Signin, At
<1>2. Top(t) \in Frames
  BY <1>1, TypeHasStacks, TopFirst
<1>3. Top(t).wrote < 3
  <2>1. Top(t).wrote < Len(SigninWrites)
    BY DEF Signin
  <2>2. Len(SigninWrites) = 3 \/ Len(SigninWrites) = 1
    BY Writes
  <2>3. Top(t).wrote \in 0 .. 3
    BY <1>2 DEF Frames
  <2>4. Top(t).wrote < 3 \/ Top(t).wrote < 1
    BY <2>1, <2>2
  <2> QED
    BY <2>3, <2>4
<1>4. /\ f \in Frames /\ f.pc = Top(t).pc /\ f.cb = Top(t).cb /\ f.wrote = Top(t).wrote + 1
      /\ f.conn = Top(t).conn /\ f.method = Top(t).method /\ f.file = Top(t).file
  BY <1>2, <1>3, FrameWrote
<1>5. stack' = [stack EXCEPT ![t] = Replaced(t, f)]
  BY DEF Signin
<1> HIDE DEF f
<1> QED
  BY <1>1, <1>4, <1>5

LEMMA TakeCbFrame ==
  ASSUME TypeOK, NEW t \in Thread, TakeCb(t)
  PROVE  /\ ~Idle(t) /\ Top(t).pc = "dialed"
         /\ \E f \in Frames :
              /\ stack' = [stack EXCEPT ![t] = Replaced(t, f)]
              /\ f.pc = "taken" /\ f.conn = Top(t).conn /\ f.cb = reconnCb
              /\ f.wrote = Top(t).wrote /\ f.method = Top(t).method /\ f.file = Top(t).file
<1> DEFINE f == [Top(t) EXCEPT !.pc = "taken", !.cb = reconnCb]
<1>1. ~Idle(t) /\ Top(t).pc = "dialed"
  BY DEF TakeCb, At
<1>2. Top(t) \in Frames /\ reconnCb \in {"none", "real", "noop"}
  BY <1>1, TypeHasStacks, TopFirst
<1>3. /\ f \in Frames /\ f.pc = "taken" /\ f.cb = reconnCb /\ f.wrote = Top(t).wrote
      /\ f.conn = Top(t).conn /\ f.method = Top(t).method /\ f.file = Top(t).file
  BY <1>2, FrameTaken
<1>4. stack' = [stack EXCEPT ![t] = Replaced(t, f)]
  BY DEF TakeCb
<1> HIDE DEF f
<1> QED
  BY <1>1, <1>3, <1>4

\* RunCb of the real callback.
Pushes(t) ==
  stack' = [stack EXCEPT ![t] =
              <<Frame("Signin", NoFile)>> \o Replaced(t, [Top(t) EXCEPT !.pc = "signin"])]

LEMMA PushFrames ==
  ASSUME TypeOK, NEW t \in Thread, ~Idle(t), Pushes(t)
  PROVE  \E f, g \in Frames :
           /\ stack' = [stack EXCEPT ![t] = <<g>> \o Replaced(t, f)]
           /\ f.pc = "signin" /\ f.cb = Top(t).cb
           /\ f.wrote = Top(t).wrote /\ f.method = Top(t).method /\ f.file = Top(t).file
           /\ g.pc = "call" /\ g.cb = "none" /\ g.wrote = 0 /\ g.method = "Signin"
<1> DEFINE f == [Top(t) EXCEPT !.pc = "signin"]
           g == Frame("Signin", NoFile)
<1>1. Top(t) \in Frames
  BY TypeHasStacks, TopFirst
<1>2. /\ f \in Frames /\ f.pc = "signin" /\ f.cb = Top(t).cb /\ f.wrote = Top(t).wrote
      /\ f.method = Top(t).method /\ f.file = Top(t).file
  BY <1>1, FrameAt
<1>3. g \in Frames /\ g.pc = "call" /\ g.cb = "none" /\ g.wrote = 0 /\ g.method = "Signin"
  BY FrameType
<1>4. stack' = [stack EXCEPT ![t] = <<g>> \o Replaced(t, f)]
  BY DEF Pushes
<1> HIDE DEF f, g
<1> QED
  BY <1>2, <1>3, <1>4

LEMMA RunCbKinds ==
  ASSUME NEW t \in Thread, RunCb(t)
  PROVE  /\ ~Idle(t) /\ Top(t).pc = "taken"
         /\ \/ Top(t).cb = "noop" /\ Goto(t, "recall")
            \/ Top(t).cb = "real" /\ Pushes(t)
BY DEF RunCb, Pushes, At

\* Every action keeps the stacks in order.
LEMMA StackStep ==
  ASSUME TypeOK, FrameInv, [Next]_vars
  PROVE  StackType' /\ FrameInv'
<1>0. StackType
  BY TypeHasStacks
<1>1. ASSUME NEW t \in Thread, NEW m \in {"SetFile", "GetDir"}, NEW f \in File \cup {NoFile},
             m = "SetFile" => f \in File,
             stack' = [stack EXCEPT ![t] = <<Frame(m, f)>>]
      PROVE  StackType' /\ FrameInv'
  <2>1. m \in {"SetFile", "GetDir", "Signin"}
    OBVIOUS
  <2> DEFINE g == Frame(m, f)
  <2>2. /\ g \in Frames /\ g.pc = "call" /\ g.cb = "none" /\ g.wrote = 0
        /\ g.method = m /\ g.file = f
    BY <2>1, FrameType
  <2>3. FrameOK(g, 1)
    BY <1>1, <2>2 DEF FrameOK
  <2> HIDE DEF g
  <2>4. stack' = [stack EXCEPT ![t] = <<g>>]
    BY <1>1 DEF g
  <2> QED
    BY <1>0, <2>2, <2>3, <2>4, StartedOK
<1>2. ASSUME NEW t \in Thread, ~Idle(t)
      PROVE  Top(t) \in Frames /\ FrameOK(Top(t), 1)
  <2>1. Top(t) = stack[t][1] /\ Top(t) \in Frames /\ Len(stack[t]) \in Nat \ {0}
    BY <1>0, <1>2, TopFirst
  <2>2. 1 \in 1 .. Len(stack[t])
    BY <2>1
  <2> QED
    BY <2>1, <2>2 DEF FrameInv
<1>3. ASSUME NEW t \in Thread, ~Idle(t), Top(t).pc \in {"call", "recall"}, Send(t, "sent")
      PROVE  StackType' /\ FrameInv'
  <2>1. PICK f \in Frames :
           /\ stack' = [stack EXCEPT ![t] = Replaced(t, f)]
           /\ f.pc = "sent" /\ f.wrote = Top(t).wrote
           /\ f.method = Top(t).method /\ f.file = Top(t).file
    BY <1>3, SendFrame
  <2>2. FrameOK(f, 1)
    BY <1>2, <1>3, <2>1 DEF FrameOK
  <2> QED
    BY <1>0, <1>3, <2>1, <2>2, ReplacedOK
<1>4. ASSUME NEW t \in Thread, ~Idle(t), NEW p \in {"dial", "dialed", "recall"}, Goto(t, p),
             Top(t).pc # "sent", p \in {"dial", "dialed"} => Top(t).pc \in {"call", "dial"}
      PROVE  StackType' /\ FrameInv'
  <2>1. PICK f \in Frames :
           /\ stack' = [stack EXCEPT ![t] = Replaced(t, f)]
           /\ f.pc = p /\ f.cb = Top(t).cb /\ f.wrote = Top(t).wrote
           /\ f.method = Top(t).method /\ f.file = Top(t).file
    BY <1>4, GotoFrame
  <2>2. FrameOK(f, 1)
    BY <1>2, <1>4, <2>1 DEF FrameOK
  <2> QED
    BY <1>0, <1>4, <2>1, <2>2, ReplacedOK
<1>5. ASSUME NEW t \in Thread, Signin(t)
      PROVE  StackType' /\ FrameInv'
  <2>1. ~Idle(t)
    BY <1>5, SigninFrame
  <2>2. PICK f \in Frames :
           /\ stack' = [stack EXCEPT ![t] = Replaced(t, f)]
           /\ f.pc = "sent" /\ f.method = "Signin"
    BY <1>5, SigninFrame
  <2>3. FrameOK(f, 1)
    BY <2>2 DEF FrameOK
  <2> QED
    BY <1>0, <2>1, <2>2, <2>3, ReplacedOK
<1>6. ASSUME NEW t \in Thread, TakeCb(t)
      PROVE  StackType' /\ FrameInv'
  <2>1. ~Idle(t) /\ Top(t).pc = "dialed"
    BY <1>6, TakeCbFrame
  <2>2. PICK f \in Frames :
           /\ stack' = [stack EXCEPT ![t] = Replaced(t, f)]
           /\ f.pc = "taken" /\ f.wrote = Top(t).wrote
           /\ f.method = Top(t).method /\ f.file = Top(t).file
    BY <1>6, TakeCbFrame
  <2>3. FrameOK(f, 1)
    BY <1>2, <2>1, <2>2 DEF FrameOK
  <2> QED
    BY <1>0, <2>1, <2>2, <2>3, ReplacedOK
<1>7. ASSUME NEW t \in Thread, ~Idle(t), Top(t).pc = "taken", Pushes(t)
      PROVE  StackType' /\ FrameInv'
  <2>1. PICK f, g \in Frames :
           /\ stack' = [stack EXCEPT ![t] = <<g>> \o Replaced(t, f)]
           /\ f.pc = "signin" /\ f.cb = Top(t).cb
           /\ f.wrote = Top(t).wrote /\ f.method = Top(t).method /\ f.file = Top(t).file
           /\ g.pc = "call" /\ g.cb = "none" /\ g.wrote = 0 /\ g.method = "Signin"
    BY <1>7, PushFrames, Zenon
  <2>2. FrameOK(f, 2) /\ FrameOK(g, 1)
    BY <1>2, <1>7, <2>1 DEF FrameOK
  <2> QED
    BY <1>0, <1>7, <2>1, <2>2, PushedOK
<1>8. ASSUME NEW t \in Thread, ~Idle(t), NEW ok, Return(t, ok)
      PROVE  StackType' /\ FrameInv'
  BY <1>0, <1>8, ResumedOK DEF Return
<1>9. ASSUME UNCHANGED stack
      PROVE  StackType' /\ FrameInv'
  BY <1>0, <1>9 DEF StackType, FrameInv
<1>10. ASSUME NEW t \in Thread, Step(t)
       PROVE  StackType' /\ FrameInv'
  <2>1. CASE Call(t)
    BY <1>3, <1>4, <2>1 DEF Call, At
  <2>2. CASE Recall(t)
    BY <1>3, <1>8, <2>2 DEF Recall, At
  <2>3. CASE Answered(t) \/ SigninRefused(t) \/ Lost(t) \/ DialFails(t) \/ CbFailed(t)
    BY <1>8, <2>3 DEF Answered, SigninRefused, Lost, DialFails, CbFailed, At
  <2>4. ASSUME NEW c \in Conn, Dial(t, c)
        PROVE  StackType' /\ FrameInv'
    BY <1>4, <2>4 DEF Dial, At
  <2>5. CASE RunCb(t)
    BY <1>4, <1>7, <2>5, RunCbKinds
  <2>6. CASE ExportDone(t)
    BY <1>4, <2>6 DEF ExportDone, At
  <2> QED
    BY <1>5, <1>6, <1>10, <2>1, <2>2, <2>3, <2>4, <2>5, <2>6 DEF Step
<1> QED
  BY <1>1, <1>9, <1>10
  DEF Next, Detected, Asks, FromScanner, FromExport, Break, Disconnected, peer, vars

-----------------------------------------------------------------------------
(* Type correctness.                                                       *)

\* What TypeOK says of the variables other than the stacks.
RestType ==
  /\ client \in Conn
  /\ reconnCb \in {"real", "noop"}
  /\ export \in [Thread -> SUBSET File]
  /\ scan \subseteq File
  /\ HasAddress \in BOOLEAN /\ HasShares \in BOOLEAN /\ overlapped \in BOOLEAN
  /\ state \in [Conn -> {"unused", "open", "broken"}]
  /\ refused \subseteq Conn
  /\ served \subseteq Conn
  /\ fields \in [Conn -> SUBSET {"address", "ident", "user"}]
  /\ db \subseteq [file : File, ident : BOOLEAN]

\* A call that returns leaves them in their types,
LEMMA ReturnType ==
  ASSUME TypeOK, NEW t \in Thread, ~Idle(t), NEW ok, Return(t, ok)
  PROVE  /\ client' = client /\ scan' = scan /\ HasAddress' = HasAddress /\ HasShares' = HasShares
         /\ overlapped' = overlapped
         /\ reconnCb' \in {"real", "noop"} /\ export' \in [Thread -> SUBSET File]
<1>1. Top(t) \in Frames
  BY TypeHasStacks, TopFirst
<1>2. Top(t).cb \in {"none", "real", "noop"}
  BY <1>1 DEF Frames
<1>3. reconnCb' \in {"real", "noop"}
  BY <1>2 DEF Return, Restored, TypeOK
<1>4. export' \in [Thread -> SUBSET File]
  BY DEF Return, Exporting, TypeOK
<1> QED
  BY <1>3, <1>4 DEF Return

\* and so does a handler that returns.
LEMMA HandledType ==
  ASSUME TypeOK, FrameInv, NEW t \in Thread, ~Idle(t), Handled(t)
  PROVE  /\ fields' \in [Conn -> SUBSET {"address", "ident", "user"}]
         /\ db' \subseteq [file : File, ident : BOOLEAN]
<1>1. Top(t) \in Frames /\ FrameOK(Top(t), 1)
  <2>1. Top(t) = stack[t][1] /\ Top(t) \in Frames /\ Len(stack[t]) \in Nat \ {0}
    BY TypeHasStacks, TopFirst
  <2>2. 1 \in 1 .. Len(stack[t])
    BY <2>1
  <2> QED
    BY <2>1, <2>2 DEF FrameInv
<1>2. Top(t).conn \in Conn
  BY <1>1 DEF Frames
<1>3. Range(SigninWrites) \subseteq {"address", "ident", "user"}
  BY Writes
<1>4. CASE Top(t).method = "SetFile" /\ SetFile(Top(t).conn, Top(t).file)
  <2>1. Top(t).file \in File
    BY <1>1, <1>4 DEF FrameOK
  <2>2. [file |-> Top(t).file, ident |-> "ident" \in fields[Top(t).conn]]
          \in [file : File, ident : BOOLEAN]
    BY <2>1
  <2> QED
    BY <1>4, <2>2 DEF SetFile, TypeOK
<1>5. CASE UNCHANGED <<fields, db>>
  BY <1>5 DEF TypeOK
<1>6. CASE /\ fields' = [fields EXCEPT ![Top(t).conn] = Range(SigninWrites)]
           /\ UNCHANGED db
  BY <1>2, <1>3, <1>6 DEF TypeOK
<1> QED
  BY <1>4, <1>5, <1>6 DEF Handled

\* The next field a Signin writes.
LEMMA SigninNext ==
  ASSUME TypeOK, NEW t \in Thread, Signin(t)
  PROVE  /\ Top(t).wrote \in Nat /\ Top(t).wrote + 1 \in 1 .. Len(SigninWrites)
         /\ SigninWrites[Top(t).wrote + 1] \in Range(SigninWrites)
         /\ HasAddress /\ Top(t).wrote = 0 => SigninWrites[Top(t).wrote + 1] = "address"
         /\ HasAddress /\ Top(t).wrote = 1 => SigninWrites[Top(t).wrote + 1] = "ident"
         /\ HasAddress /\ Top(t).wrote = 2 => SigninWrites[Top(t).wrote + 1] = "user"
         /\ HasAddress => Top(t).wrote \in {0, 1, 2}
         /\ ~HasAddress => Top(t).wrote = 0 /\ SigninWrites[Top(t).wrote + 1] = "user"
<1>1. ~Idle(t)
  BY SigninFrame
<1>2. Top(t) \in Frames
  BY <1>1, TypeHasStacks, TopFirst
<1> DEFINE w == Top(t).wrote
<1>3. w \in 0 .. 3 /\ w < Len(SigninWrites)
  BY <1>2 DEF Signin, Frames
<1> HIDE DEF w
<1>4. CASE HasAddress
  <2>1. /\ Len(SigninWrites) = 3 /\ SigninWrites[1] = "address"
        /\ SigninWrites[2] = "ident" /\ SigninWrites[3] = "user"
        /\ Range(SigninWrites) = {"address", "ident", "user"}
    BY <1>4, Writes
  <2>2. w < 3
    BY <1>3, <2>1
  <2>3. w = 0 \/ w = 1 \/ w = 2
    BY <1>3, <2>2
  <2>4. w + 1 \in 1 .. 3
    BY <2>3
  <2>5. /\ w = 0 => SigninWrites[w + 1] = "address"
        /\ w = 1 => SigninWrites[w + 1] = "ident"
        /\ w = 2 => SigninWrites[w + 1] = "user"
    BY <2>1
  <2> QED
    BY <1>3, <1>4, <2>1, <2>3, <2>4, <2>5 DEF w
<1>5. CASE ~HasAddress
  <2>1. /\ Len(SigninWrites) = 1 /\ SigninWrites[1] = "user"
        /\ Range(SigninWrites) = {"user"}
    BY <1>5, Writes
  <2>2. w < 1
    BY <1>3, <2>1
  <2>3. w = 0 /\ w + 1 = 1
    BY <1>3, <2>2
  <2> QED
    BY <1>3, <1>5, <2>1, <2>3 DEF w
<1> QED
  BY <1>4, <1>5

LEMMA RestStep ==
  ASSUME TypeOK, FrameInv, [Next]_vars
  PROVE  RestType'
<1>1. ASSUME NEW t \in Thread, Signin(t)
      PROVE  RestType'
  <2>1. SigninWrites[Top(t).wrote + 1] \in {"address", "ident", "user"}
    BY <1>1, SigninNext, Writes
  <2>2. fields' = [fields EXCEPT ![Top(t).conn] = @ \cup {SigninWrites[Top(t).wrote + 1]}]
    BY <1>1 DEF Signin
  <2>3. fields' \in [Conn -> SUBSET {"address", "ident", "user"}]
    BY <2>1, <2>2 DEF TypeOK
  <2> QED
    BY <1>1, <2>3 DEF Signin, net, TypeOK, RestType
<1>2. ASSUME NEW t \in Thread, Answered(t)
      PROVE  RestType'
  <2>1. ~Idle(t) /\ Handled(t) /\ Return(t, TRUE) /\ UNCHANGED <<net, served>>
    BY <1>2 DEF Answered, At
  <2>2. /\ fields' \in [Conn -> SUBSET {"address", "ident", "user"}]
        /\ db' \subseteq [file : File, ident : BOOLEAN]
    BY <2>1, HandledType
  <2>3. /\ client' = client /\ scan' = scan /\ HasAddress' = HasAddress /\ HasShares' = HasShares
        /\ overlapped' = overlapped
        /\ reconnCb' \in {"real", "noop"} /\ export' \in [Thread -> SUBSET File]
    BY <2>1, ReturnType
  <2> QED
    BY <2>1, <2>2, <2>3 DEF net, TypeOK, RestType
<1>3. ASSUME NEW t \in Thread, Lost(t)
      PROVE  RestType'
  <2>1. ~Idle(t) /\ Return(t, FALSE) /\ UNCHANGED <<net, served>>
    BY <1>3 DEF Lost, At
  <2>2. /\ fields' \in [Conn -> SUBSET {"address", "ident", "user"}]
        /\ db' \subseteq [file : File, ident : BOOLEAN]
    <3>1. UNCHANGED <<fields, db>> \/ Handled(t)
      BY <1>3 DEF Lost
    <3> QED
      BY <2>1, <3>1, HandledType DEF TypeOK
  <2>3. /\ client' = client /\ scan' = scan /\ HasAddress' = HasAddress /\ HasShares' = HasShares
        /\ overlapped' = overlapped
        /\ reconnCb' \in {"real", "noop"} /\ export' \in [Thread -> SUBSET File]
    BY <2>1, ReturnType
  <2> QED
    BY <2>1, <2>2, <2>3 DEF net, TypeOK, RestType
<1>4. ASSUME NEW t \in Thread, ~Idle(t), Return(t, FALSE), UNCHANGED master,
             state' = state, refused' \subseteq Conn
      PROVE  RestType'
  <2>1. /\ client' = client /\ scan' = scan /\ HasAddress' = HasAddress /\ HasShares' = HasShares
        /\ overlapped' = overlapped
        /\ reconnCb' \in {"real", "noop"} /\ export' \in [Thread -> SUBSET File]
    BY <1>4, ReturnType
  <2> QED
    BY <1>4, <2>1 DEF master, TypeOK, RestType
<1>5. ASSUME NEW t \in Thread, SigninRefused(t)
      PROVE  RestType'
  <2>1. ~Idle(t)
    BY <1>5 DEF SigninRefused, At
  <2>2. Top(t) \in Frames
    BY <2>1, TypeHasStacks, TopFirst
  <2>3. Top(t).conn \in Conn
    BY <2>2 DEF Frames
  <2>4. refused' \subseteq Conn
    BY <1>5, <2>3 DEF SigninRefused, TypeOK
  <2> QED
    BY <1>4, <1>5, <2>1, <2>4 DEF SigninRefused
<1>6. ASSUME NEW t \in Thread, DialFails(t) \/ CbFailed(t)
      PROVE  RestType'
  BY <1>4, <1>6 DEF DialFails, CbFailed, At, net, TypeOK
<1>7. ASSUME NEW t \in Thread, Call(t) \/ Recall(t)
      PROVE  RestType'
  <2>1. CASE UNCHANGED <<client, reconnCb, export, scan, HasAddress, HasShares, overlapped, net, master>>
    BY <2>1 DEF net, master, TypeOK, RestType
  <2>2. CASE ~Idle(t) /\ Return(t, FALSE) /\ UNCHANGED <<net, master>>
    BY <1>4, <2>2 DEF net, TypeOK
  <2> QED
    BY <1>7, <2>1, <2>2 DEF Call, Recall, Send, At
<1>8. ASSUME NEW t \in Thread, NEW c \in Conn, Dial(t, c)
      PROVE  RestType'
  BY <1>8 DEF Dial, TypeOK, RestType
<1>9. ASSUME NEW t \in Thread, TakeCb(t) \/ RunCb(t) \/ ExportDone(t)
      PROVE  RestType'
  <2>1. overlapped' \in BOOLEAN
    BY <1>9 DEF TakeCb, RunCb, ExportDone, TypeOK
  <2> QED
    BY <1>9, <2>1 DEF TakeCb, RunCb, ExportDone, net, master, TypeOK, RestType
<1>10. ASSUME NEW f \in File, Detected(f)
       PROVE  RestType'
  BY <1>10 DEF Detected, net, master, TypeOK, RestType
<1>11. ASSUME NEW t \in Thread, Asks(t)
       PROVE  RestType'
  BY <1>11 DEF Asks, net, master, TypeOK, RestType
<1>12. ASSUME NEW t \in Thread, NEW f \in File, FromScanner(t, f)
       PROVE  RestType'
  BY <1>12 DEF FromScanner, net, master, TypeOK, RestType
<1>13. ASSUME NEW t \in Thread, NEW e \in Thread, NEW f \in File, FromExport(t, e, f)
       PROVE  RestType'
  BY <1>13 DEF FromExport, net, master, TypeOK, RestType
<1>14. ASSUME NEW c \in Conn, Break(c) \/ Disconnected(c)
       PROVE  RestType'
  BY <1>14 DEF Break, Disconnected, peer, net, master, TypeOK, RestType
<1>15. CASE UNCHANGED vars
  BY <1>15 DEF vars, peer, net, master, TypeOK, RestType
<1> QED
  BY <1>1, <1>2, <1>3, <1>5, <1>6, <1>7, <1>8, <1>9, <1>10, <1>11, <1>12, <1>13, <1>14, <1>15
  DEF Next, Step

\* The program starts with empty stacks,
LEMMA InitStacks ==
  ASSUME Init
  PROVE  /\ StackType /\ FrameInv
         /\ \A t \in Thread : stack[t] = << >> /\ Len(stack[t]) = 0
<1>1. << >> \in Seq(Frames) /\ Len(<< >>) = 0
  OBVIOUS
<1>2. \A t \in Thread : stack[t] = << >> /\ Len(stack[t]) = 0
  BY <1>1 DEF Init
<1>3. StackType
  BY <1>1 DEF Init, StackType
<1> QED
  BY <1>2, <1>3 DEF FrameInv

LEMMA TypeOf ==
  ASSUME StackType, FrameInv, RestType
  PROVE  TypeOK
BY DEF StackType, FrameInv, FrameOK, Frames, RestType, TypeOK

LEMMA InitType == Init => TypeOK /\ FrameInv
<1> SUFFICES ASSUME Init PROVE TypeOK /\ FrameInv
  OBVIOUS
<1>1. 1 \in Conn
  BY SessionAssumption DEF Conn
<1>2. Range(SigninWrites) \subseteq {"address", "ident", "user"}
  BY Writes
<1>3. RestType
  BY <1>1, <1>2, SessionAssumption DEF Init, RestType
<1> QED
  BY <1>3, InitStacks, TypeOf

LEMMA TypeStep == TypeOK /\ FrameInv /\ [Next]_vars => (TypeOK /\ FrameInv)'
<1> SUFFICES ASSUME TypeOK, FrameInv, [Next]_vars PROVE (TypeOK /\ FrameInv)'
  OBVIOUS
<1>1. StackType' /\ FrameInv'
  BY StackStep
<1>2. RestType'
  BY RestStep
<1>3. TypeOK'
  BY <1>1, <1>2 DEF StackType, FrameInv, FrameOK, Frames, RestType, TypeOK
<1> QED
  BY <1>1, <1>3

\* The client, the calls of the threads and what the master has keep their types,
\* and the frames below the current one are calls whose callback is signing in.
THEOREM TypeCorrect == Spec => []TypeOK
<1>1. Spec => [](TypeOK /\ FrameInv)
  BY InitType, TypeStep, PTL DEF Spec
<1> QED
  BY <1>1, PTL

-----------------------------------------------------------------------------
(* The requests that are under way.                                        *)

LEMMA HeadFirst ==
  ASSUME NEW S, NEW s \in Seq(S), s # << >>
  PROVE  Head(s) = s[1] /\ s[1] \in S /\ Len(s) \in Nat \ {0}
<1>1. Len(s) \in Nat \ {0} /\ Head(s) = s[1]
  BY EmptySeq
<1>2. 1 \in 1 .. Len(s)
  BY <1>1
<1> QED
  BY <1>1, <1>2, ElementOfSeq

\* A step of a thread leaves the other stacks alone.
LEMMA Others ==
  ASSUME NEW t \in Thread, TypeOK, Step(t), NEW u \in Thread, u # t
  PROVE  stack'[u] = stack[u]
<1>1. stack \in [Thread -> Seq(Frames)]
  BY TypeHasStacks DEF StackType
<1>2. ASSUME NEW s, stack' = [stack EXCEPT ![t] = s]
      PROVE  stack'[u] = stack[u]
  BY <1>1, <1>2
<1>3. CASE Call(t) \/ Recall(t)
  BY <1>2, <1>3 DEF Call, Recall, Send, Goto, Return
<1>4. CASE Signin(t) \/ TakeCb(t)
  BY <1>2, <1>4 DEF Signin, TakeCb
<1>5. CASE Answered(t) \/ SigninRefused(t) \/ Lost(t) \/ DialFails(t) \/ CbFailed(t)
  BY <1>2, <1>5 DEF Answered, SigninRefused, Lost, DialFails, CbFailed, Return
<1>6. CASE \E c \in Conn : Dial(t, c)
  BY <1>2, <1>6 DEF Dial, Goto
<1>7. CASE RunCb(t) \/ ExportDone(t)
  BY <1>2, <1>7 DEF RunCb, ExportDone, Goto
<1> QED
  BY <1>3, <1>4, <1>5, <1>6, <1>7 DEF Step

\* The current frame after a replacement, a new call,
LEMMA ReplacedTop ==
  ASSUME StackType, NEW t \in Thread, ~Idle(t), NEW f \in Frames,
         stack' = [stack EXCEPT ![t] = Replaced(t, f)]
  PROVE  ~Idle(t)' /\ Top(t)' = f
<1>1. /\ stack'[t] \in Seq(Frames) /\ stack'[t] # << >> /\ stack'[t][1] = f
  BY ReplacedShape
<1>2. Head(stack'[t]) = stack'[t][1]
  BY <1>1, HeadFirst
<1> QED
  BY <1>1, <1>2 DEF Idle, Top

LEMMA StartedTop ==
  ASSUME StackType, NEW t \in Thread, NEW f \in Frames, stack' = [stack EXCEPT ![t] = <<f>>]
  PROVE  ~Idle(t)' /\ Top(t)' = f
BY DEF StackType, Idle, Top

\* a Signin,
LEMMA PushedTop ==
  ASSUME StackType, NEW t \in Thread, ~Idle(t), NEW f \in Frames, NEW g \in Frames,
         stack' = [stack EXCEPT ![t] = <<g>> \o Replaced(t, f)]
  PROVE  ~Idle(t)' /\ Top(t)' = g
<1>1. /\ stack'[t] \in Seq(Frames) /\ stack'[t] # << >> /\ stack'[t][1] = g
  <2> DEFINE r == <<g>> \o Replaced(t, f)
  <2>1. stack' = [stack EXCEPT ![t] = r]
    OBVIOUS
  <2>2. /\ stack' \in [Thread -> Seq(Frames)]
        /\ \A u \in Thread : u # t => stack'[u] = stack[u]
        /\ Len(stack'[t]) = Len(stack[t]) + 1 /\ stack'[t] # << >>
        /\ stack'[t][1] = g /\ stack'[t][2] = f
        /\ \A i \in 2 .. Len(stack[t]) : stack'[t][i + 1] = stack[t][i]
    BY ONLY StackType, ~Idle(t), <2>1, t \in Thread, f \in Frames, g \in Frames, PushedShape
  <2> QED
    BY <2>2
<1>2. Head(stack'[t]) = stack'[t][1]
  BY <1>1, HeadFirst
<1> QED
  BY <1>1, <1>2 DEF Idle, Top

\* and a return.
LEMMA ResumedTop ==
  ASSUME StackType, NEW t \in Thread, ~Idle(t), NEW ok,
         stack' = [stack EXCEPT ![t] = Resumed(t, ok)]
  PROVE  Idle(t)' \/ Top(t)'.pc \in {"failed", "export", "recall"}
<1>1. Len(stack[t]) \in Nat \ {0}
  BY TopFirst
<1>2. CASE Len(stack[t]) = 1
  BY <1>2, EmptiedShape DEF Idle
<1>3. CASE Len(stack[t]) > 1
  <2>1. /\ stack'[t] \in Seq(Frames) /\ stack'[t] # << >> /\ stack[t][2] \in Frames
        /\ \E m \in {"failed", "export", "recall"} :
             stack'[t][1] = [stack[t][2] EXCEPT !.pc = m]
    BY <1>3, ResumedShape
  <2>2. stack'[t][1].pc \in {"failed", "export", "recall"}
    BY <2>1 DEF Frames
  <2>3. Head(stack'[t]) = stack'[t][1]
    BY <2>1, HeadFirst
  <2> QED
    BY <2>2, <2>3 DEF Top
<1>4. Len(stack[t]) = 1 \/ Len(stack[t]) > 1
  <2>1. \A n \in Nat \ {0} : n = 1 \/ n > 1
    OBVIOUS
  <2> QED
    BY <1>1, <2>1
<1> QED
  BY <1>2, <1>3, <1>4

LEMMA TopOK ==
  ASSUME TypeOK, FrameInv, NEW t \in Thread, ~Idle(t)
  PROVE  Top(t) \in Frames /\ FrameOK(Top(t), 1)
<1>1. Top(t) = stack[t][1] /\ Top(t) \in Frames /\ Len(stack[t]) \in Nat \ {0}
  BY TypeHasStacks, TopFirst
<1>2. 1 \in 1 .. Len(stack[t])
  BY <1>1
<1> QED
  BY <1>1, <1>2 DEF FrameInv

\* A request that has just gone out has written nothing.
LEMMA SentStep ==
  ASSUME TypeOK, FrameInv, [Next]_vars, NEW u \in Thread, At(u, "sent")', ~Signin(u)
  PROVE  Top(u)'.wrote = 0 \/ (At(u, "sent") /\ Top(u)' = Top(u))
<1>0. StackType
  BY TypeHasStacks
<1>1. CASE stack'[u] = stack[u]
  BY <1>1 DEF At, Idle, Top
<1>2. ASSUME NEW m \in {"SetFile", "GetDir"}, NEW f \in File \cup {NoFile},
             stack' = [stack EXCEPT ![u] = <<Frame(m, f)>>]
      PROVE  FALSE
  <2>1. m \in {"SetFile", "GetDir", "Signin"}
    OBVIOUS
  <2> DEFINE g == Frame(m, f)
  <2>2. g \in Frames /\ g.pc = "call"
    BY <2>1, FrameType
  <2> HIDE DEF g
  <2>3. stack' = [stack EXCEPT ![u] = <<g>>]
    BY <1>2 DEF g
  <2>4. Top(u)' = g
    BY <1>0, <2>2, <2>3, StartedTop
  <2> QED
    BY <2>2, <2>4 DEF At
<1>3. ASSUME ~Idle(u), Top(u).pc # "sent", Send(u, "sent")
      PROVE  Top(u)'.wrote = 0
  <2>1. PICK f \in Frames : /\ stack' = [stack EXCEPT ![u] = Replaced(u, f)]
                            /\ f.wrote = Top(u).wrote
    BY <1>3, SendFrame
  <2>2. Top(u)' = f
    BY <1>0, <1>3, <2>1, ReplacedTop
  <2> QED
    BY <1>3, <2>1, <2>2, TopOK DEF FrameOK
<1>4. ASSUME ~Idle(u), NEW p \in {"dial", "dialed", "recall"}, Goto(u, p)
      PROVE  FALSE
  <2>1. PICK f \in Frames : /\ stack' = [stack EXCEPT ![u] = Replaced(u, f)]
                            /\ f.pc = p
    BY <1>4, GotoFrame
  <2>2. Top(u)' = f
    BY <1>0, <1>4, <2>1, ReplacedTop
  <2> QED
    BY <2>1, <2>2 DEF At
<1>5. ASSUME TakeCb(u)
      PROVE  FALSE
  <2>1. ~Idle(u)
    BY <1>5, TakeCbFrame
  <2>2. PICK f \in Frames : /\ stack' = [stack EXCEPT ![u] = Replaced(u, f)]
                            /\ f.pc = "taken"
    BY <1>5, TakeCbFrame
  <2>3. Top(u)' = f
    BY <1>0, <2>1, <2>2, ReplacedTop
  <2> QED
    BY <2>2, <2>3 DEF At
<1>6. ASSUME ~Idle(u), Pushes(u)
      PROVE  FALSE
  <2>1. PICK f, g \in Frames :
           /\ stack' = [stack EXCEPT ![u] = <<g>> \o Replaced(u, f)]
           /\ f.pc = "signin" /\ f.cb = Top(u).cb
           /\ f.wrote = Top(u).wrote /\ f.method = Top(u).method /\ f.file = Top(u).file
           /\ g.pc = "call" /\ g.cb = "none" /\ g.wrote = 0 /\ g.method = "Signin"
    BY <1>6, PushFrames, Zenon
  <2>2. Top(u)' = g
    BY <1>0, <1>6, <2>1, PushedTop
  <2> QED
    BY <2>1, <2>2 DEF At
<1>7. ASSUME ~Idle(u), NEW ok, Return(u, ok)
      PROVE  FALSE
  <2>1. stack' = [stack EXCEPT ![u] = Resumed(u, ok)]
    BY <1>7 DEF Return
  <2>2. Idle(u)' \/ Top(u)'.pc \in {"failed", "export", "recall"}
    BY <1>0, <1>7, <2>1, ResumedTop
  <2> QED
    BY <2>2 DEF At
<1>8. CASE Step(u)
  <2>1. CASE Call(u)
    BY <1>3, <1>4, <2>1 DEF Call, At
  <2>2. CASE Recall(u)
    BY <1>3, <1>7, <2>2 DEF Recall, At
  <2>3. CASE Answered(u) \/ SigninRefused(u) \/ Lost(u) \/ DialFails(u) \/ CbFailed(u)
    BY <1>7, <2>3 DEF Answered, SigninRefused, Lost, DialFails, CbFailed, At
  <2>4. CASE \E c \in Conn : Dial(u, c)
    BY <1>4, <2>4 DEF Dial, At
  <2>5. CASE RunCb(u)
    BY <1>4, <1>6, <2>5, RunCbKinds
  <2>6. CASE ExportDone(u)
    BY <1>4, <2>6 DEF ExportDone, At
  <2> QED
    BY <1>5, <1>8, <2>1, <2>2, <2>3, <2>4, <2>5, <2>6 DEF Step
<1>9. CASE \E t \in Thread, m \in {"SetFile", "GetDir"}, f \in File \cup {NoFile} :
             stack' = [stack EXCEPT ![t] = <<Frame(m, f)>>]
  <2>1. PICK t \in Thread, m \in {"SetFile", "GetDir"}, f \in File \cup {NoFile} :
            stack' = [stack EXCEPT ![t] = <<Frame(m, f)>>]
    BY <1>9
  <2>2. CASE t = u
    BY <1>2, <2>1, <2>2
  <2>3. CASE t # u
    BY <1>0, <1>1, <2>1, <2>3 DEF StackType
  <2> QED
    BY <2>2, <2>3
<1>10. CASE \E t \in Thread : Step(t)
  BY <1>1, <1>8, <1>10, Others
<1>11. CASE UNCHANGED stack
  BY <1>1, <1>11
<1> QED
  BY <1>9, <1>10, <1>11
  DEF Next, Detected, Asks, FromScanner, FromExport, Break, Disconnected, peer, vars

-----------------------------------------------------------------------------
(* What the master keeps of the peer.                                      *)

\* Signin has assigned everything on connection c.
Full(c) == Range(SigninWrites) \subseteq fields[c]

\* The master serves every connection that is open.
ServeInv == \A c \in Conn : state[c] = "open" => c \in served

\* The Signin of t on connection c is halfway.
Writer(t, c) ==
  /\ At(t, "sent")
  /\ Top(t).conn = c
  /\ Top(t).wrote \in 1 .. Len(SigninWrites) - 1

\* The fields of a connection are assigned in their order,
OrderInv ==
  \A c \in Conn :
    IF HasAddress THEN /\ "user" \in fields[c] => "ident" \in fields[c]
                       /\ "ident" \in fields[c] => "address" \in fields[c]
                 ELSE fields[c] \subseteq {"user"}

\* if some are and some are not a Signin is under way,
HalfInv ==
  \A c \in Conn : fields[c] = {} \/ Full(c) \/ \E t \in Thread : Writer(t, c)

\* and a Signin has assigned what it has written.
WroteInv ==
  \A t \in Thread : At(t, "sent") =>
    \A i \in 1 .. Top(t).wrote :
      i \in 1 .. Len(SigninWrites) /\ SigninWrites[i] \in fields[Top(t).conn]

FieldsInv == OrderInv /\ HalfInv /\ WroteInv

\* Whatever is stored is stored under the peer's ident.
DbInv == \A e \in db : e.ident = TRUE

GoneInv == ServeInv /\ FieldsInv /\ DbInv /\ NothingOfTheGone

\* HasAddress is never changed.
LEMMA AddressKept ==
  ASSUME [Next]_vars
  PROVE  HasAddress' = HasAddress /\ SigninWrites' = SigninWrites
<1>1. ASSUME NEW t \in Thread, Step(t)
      PROVE  HasAddress' = HasAddress
  <2>1. CASE Call(t) \/ Recall(t) \/ Signin(t)
    BY <2>1 DEF Call, Recall, Send, Return, Signin
  <2>2. CASE Answered(t) \/ SigninRefused(t) \/ Lost(t) \/ DialFails(t) \/ CbFailed(t)
    BY <2>2 DEF Answered, SigninRefused, Lost, DialFails, CbFailed, Return
  <2>3. CASE (\E c \in Conn : Dial(t, c)) \/ TakeCb(t) \/ RunCb(t) \/ ExportDone(t)
    BY <2>3 DEF Dial, TakeCb, RunCb, ExportDone
  <2> QED
    BY <1>1, <2>1, <2>2, <2>3 DEF Step
<1>2. HasAddress' = HasAddress
  BY <1>1
  DEF Next, Detected, Asks, FromScanner, FromExport, Break, Disconnected, peer, vars
<1> QED
  BY <1>2 DEF SigninWrites

\* A handler that returns: it stores a file, or does nothing, or ends a Signin.
Stores(t) ==
  /\ Top(t).method = "SetFile" /\ SetFile(Top(t).conn, Top(t).file)
  /\ Top(t).conn \in served

Completes(t) ==
  /\ fields' = [fields EXCEPT ![Top(t).conn] = Range(SigninWrites)]
  /\ UNCHANGED db

\* A step of a thread that is not part of a Signin leaves the fields alone and
\* ends no Signin that is halfway.
LEMMA StepKinds ==
  ASSUME TypeOK, FrameInv, ServeInv, NEW t \in Thread, Step(t)
  PROVE  \/ Signin(t)
         \/ At(t, "sent") /\ Completes(t) /\ UNCHANGED <<served, state>>
         \/ /\ fields' = fields /\ \A c \in Conn : ~Writer(t, c)
            /\ UNCHANGED db \/ (Stores(t) /\ ~Idle(t) /\ UNCHANGED <<served, state>>)
            /\ \/ UNCHANGED <<served, state>>
               \/ \E c \in Conn : /\ served' = served \cup {c}
                                  /\ state' = [state EXCEPT ![c] = "open"]
<1>1. ASSUME NEW c \in Conn, Writer(t, c)
      PROVE  /\ At(t, "sent") /\ Top(t).method = "Signin" /\ Top(t).wrote # 0
             /\ Top(t).wrote # Len(SigninWrites)
  <2>1. At(t, "sent") /\ Top(t).wrote \in 1 .. Len(SigninWrites) - 1
    BY <1>1 DEF Writer
  <2>2. Len(SigninWrites) = 3 \/ Len(SigninWrites) = 1
    BY Writes
  <2>3. Top(t).wrote \in 1 .. 3 - 1 \/ Top(t).wrote \in 1 .. 1 - 1
    BY <2>1, <2>2
  <2>4. Top(t).wrote # 0 /\ Top(t).wrote # Len(SigninWrites)
    <3>1. \A x \in 1 .. 3 - 1 : x # 0 /\ x # 3
      OBVIOUS
    <3>2. 1 .. 1 - 1 = {}
      OBVIOUS
    <3> QED
      BY <2>1, <2>2, <3>1, <3>2
  <2>5. FrameOK(Top(t), 1)
    BY <2>1, TopOK DEF At
  <2> QED
    BY <2>1, <2>4, <2>5 DEF FrameOK
<1>2. ASSUME Handled(t), At(t, "sent"), Top(t).conn \in served, UNCHANGED <<served, state>>,
             Top(t).method = "Signin" \/ \A c \in Conn : ~Writer(t, c)
      PROVE  \/ At(t, "sent") /\ Completes(t) /\ UNCHANGED <<served, state>>
             \/ /\ fields' = fields /\ \A c \in Conn : ~Writer(t, c)
                /\ UNCHANGED db \/ (Stores(t) /\ ~Idle(t) /\ UNCHANGED <<served, state>>)
                /\ UNCHANGED <<served, state>>
  <2>1. CASE Top(t).method = "Signin"
    BY <1>2, <2>1 DEF Handled, Completes
  <2>2. CASE Top(t).method # "Signin"
    BY <1>2, <2>2 DEF Handled, SetFile, Stores, At
  <2> QED
    BY <2>1, <2>2
<1>3. ASSUME At(t, "sent")
      PROVE  /\ Top(t).conn \in Conn
             /\ Top(t).method = "Signin" \/ \A c \in Conn : ~Writer(t, c)
  <2>1. Top(t).conn \in Conn
    BY <1>3, TopOK DEF At, Frames
  <2> QED
    BY <1>1, <2>1
<1>4. CASE Answered(t)
  <2>1. /\ At(t, "sent") /\ Handled(t) /\ UNCHANGED <<served, state>>
        /\ state[Top(t).conn] = "open"
    BY <1>4 DEF Answered, net
  <2>2. Top(t).conn \in served
    BY <1>3, <2>1 DEF ServeInv
  <2> QED
    BY <1>2, <1>3, <2>1, <2>2
<1>5. CASE Lost(t)
  <2>1. /\ At(t, "sent") /\ UNCHANGED <<served, state>>
        /\ \/ Top(t).wrote \in {0, Len(SigninWrites)} /\ UNCHANGED <<fields, db>>
           \/ Top(t).conn \in served /\ Handled(t)
    BY <1>5 DEF Lost, net
  <2>2. CASE Top(t).wrote \in {0, Len(SigninWrites)} /\ UNCHANGED <<fields, db>>
    BY <1>1, <2>1, <2>2
  <2>3. CASE Top(t).conn \in served /\ Handled(t)
    BY <1>2, <1>3, <2>1, <2>3
  <2> QED
    BY <2>1, <2>2, <2>3
<1>6. CASE SigninRefused(t)
  BY <1>1, <1>6 DEF SigninRefused, master
<1>7. CASE Call(t) \/ Recall(t) \/ TakeCb(t) \/ RunCb(t) \/ ExportDone(t)
  BY <1>1, <1>7 DEF Call, Recall, Send, TakeCb, RunCb, ExportDone, At, net, master
<1>8. CASE DialFails(t) \/ CbFailed(t)
  BY <1>1, <1>8 DEF DialFails, CbFailed, At, net, master
<1>9. CASE \E c \in Conn : Dial(t, c)
  BY <1>1, <1>9 DEF Dial, At
<1> QED
  BY <1>4, <1>5, <1>6, <1>7, <1>8, <1>9 DEF Step

\* The steps that are not a thread's own: the fields and the Signins that are
\* halfway stay.
LEMMA OtherKinds ==
  ASSUME TypeOK, [Next]_vars, ~(\E t \in Thread : Step(t))
  PROVE  /\ fields' = fields
         /\ \A u \in Thread : ~Idle(u) => stack'[u] = stack[u]
<1>1. stack \in [Thread -> Seq(Frames)]
  BY TypeHasStacks DEF StackType
<1>2. CASE UNCHANGED <<fields, stack>>
  BY <1>2
<1>3. ASSUME NEW t \in Thread, Idle(t), NEW s, stack' = [stack EXCEPT ![t] = s],
             fields' = fields
      PROVE  \A u \in Thread : ~Idle(u) => stack'[u] = stack[u]
  BY <1>1, <1>3
<1>4. ASSUME NEW t \in Thread, NEW f \in File, FromScanner(t, f)
      PROVE  fields' = fields /\ \A u \in Thread : ~Idle(u) => stack'[u] = stack[u]
  BY <1>3, <1>4 DEF FromScanner, master
<1>5. ASSUME NEW t \in Thread, NEW e \in Thread, NEW f \in File, FromExport(t, e, f)
      PROVE  fields' = fields /\ \A u \in Thread : ~Idle(u) => stack'[u] = stack[u]
  BY <1>3, <1>5 DEF FromExport, master
<1>6. ASSUME NEW t \in Thread, Asks(t)
      PROVE  fields' = fields /\ \A u \in Thread : ~Idle(u) => stack'[u] = stack[u]
  BY <1>3, <1>6 DEF Asks, master
<1> QED
  BY <1>2, <1>4, <1>5, <1>6 DEF Next, Detected, Break, Disconnected, peer, master, vars

\* Fields are only ever set.
LEMMA FieldsGrow ==
  ASSUME TypeOK, FrameInv, ServeInv, [Next]_vars, NEW c \in Conn
  PROVE  fields[c] \cap Range(SigninWrites) \subseteq fields'[c]
<1>1. fields \in [Conn -> SUBSET {"address", "ident", "user"}]
  BY DEF TypeOK
<1>2. ASSUME NEW t \in Thread, Signin(t)
      PROVE  fields[c] \subseteq fields'[c]
  BY <1>1, <1>2 DEF Signin
<1>3. ASSUME NEW t \in Thread, Completes(t)
      PROVE  fields[c] \cap Range(SigninWrites) \subseteq fields'[c]
  <2>1. fields'[c] = fields[c] \/ fields'[c] = Range(SigninWrites)
    BY <1>1, <1>3 DEF Completes
  <2> QED
    BY <2>1
<1>4. CASE \E t \in Thread : Step(t)
  BY <1>2, <1>3, <1>4, StepKinds
<1>5. CASE ~(\E t \in Thread : Step(t))
  BY <1>5, OtherKinds
<1> QED
  BY <1>4, <1>5

LEMMA WroteStep ==
  ASSUME TypeOK, FrameInv, ServeInv, WroteInv, [Next]_vars
  PROVE  WroteInv'
<1>1. SigninWrites' = SigninWrites
  BY AddressKept
<1> SUFFICES ASSUME NEW u \in Thread, At(u, "sent")', NEW i \in 1 .. Top(u)'.wrote
             PROVE  i \in 1 .. Len(SigninWrites) /\ SigninWrites[i] \in fields'[Top(u)'.conn]
  BY <1>1 DEF WroteInv
<1>2. ASSUME At(u, "sent"), Top(u)'.conn = Top(u).conn, i \in 1 .. Top(u).wrote
      PROVE  i \in 1 .. Len(SigninWrites) /\ SigninWrites[i] \in fields'[Top(u)'.conn]
  <2>1. i \in 1 .. Len(SigninWrites) /\ SigninWrites[i] \in fields[Top(u).conn]
    BY <1>2 DEF WroteInv
  <2>2. Top(u).conn \in Conn
    BY <1>2, TopOK DEF At, Frames
  <2>3. SigninWrites[i] \in Range(SigninWrites)
    BY <2>1, WritesDomain DEF Range
  <2> QED
    BY <1>2, <2>1, <2>2, <2>3, FieldsGrow
<1>3. CASE ~Signin(u)
  <2>1. Top(u)'.wrote = 0 \/ (At(u, "sent") /\ Top(u)' = Top(u))
    BY <1>3, SentStep
  <2>2. Top(u)'.wrote # 0
    OBVIOUS
  <2> QED
    BY <1>2, <2>1, <2>2
<1>4. CASE Signin(u)
  <2>1. ~Idle(u) /\ Top(u).pc = "sent"
    BY <1>4, SigninFrame
  <2>2. PICK f \in Frames : /\ stack' = [stack EXCEPT ![u] = Replaced(u, f)]
                            /\ f.conn = Top(u).conn /\ f.wrote = Top(u).wrote + 1
    BY <1>4, SigninFrame
  <2>3. Top(u)' = f
    BY <2>1, <2>2, ReplacedTop, TypeHasStacks
  <2>4. Top(u).wrote \in Nat /\ Top(u).wrote + 1 \in 1 .. Len(SigninWrites)
    BY <1>4, SigninNext
  <2>5. CASE i \in 1 .. Top(u).wrote
    BY <1>2, <2>1, <2>2, <2>3, <2>5 DEF At
  <2>6. CASE i = Top(u).wrote + 1
    <3>1. Top(u).conn \in Conn
      BY <2>1, TopOK DEF Frames
    <3>2. SigninWrites[Top(u).wrote + 1] \in fields'[Top(u).conn]
      BY <1>4, <3>1 DEF Signin, TypeOK
    <3> QED
      BY <2>2, <2>3, <2>4, <2>6, <3>2
  <2>7. i \in 1 .. Top(u).wrote \/ i = Top(u).wrote + 1
    <3>1. i \in 1 .. Top(u).wrote + 1
      BY <2>2, <2>3
    <3> QED
      BY <2>4, <3>1
  <2> QED
    BY <2>5, <2>6, <2>7
<1> QED
  BY <1>3, <1>4

LEMMA OrderStep ==
  ASSUME TypeOK, FrameInv, ServeInv, OrderInv, WroteInv, [Next]_vars
  PROVE  OrderInv'
<1>1. HasAddress' = HasAddress /\ fields \in [Conn -> SUBSET {"address", "ident", "user"}]
  BY AddressKept DEF TypeOK
<1>2. CASE fields' = fields
  BY <1>1, <1>2 DEF OrderInv
<1>3. ASSUME NEW t \in Thread, Completes(t)
      PROVE  OrderInv'
  <2>1. \A c \in Conn : fields'[c] = fields[c] \/ fields'[c] = Range(SigninWrites)
    BY <1>1, <1>3 DEF Completes
  <2>2. /\ HasAddress => Range(SigninWrites) = {"address", "ident", "user"}
        /\ ~HasAddress => Range(SigninWrites) = {"user"}
    BY Writes
  <2> QED
    BY <1>1, <2>1, <2>2 DEF OrderInv
<1>4. ASSUME NEW t \in Thread, Signin(t)
      PROVE  OrderInv'
  <2> DEFINE w == Top(t).wrote
             d == Top(t).conn
             x == SigninWrites[w + 1]
  <2>1. /\ w \in Nat
        /\ HasAddress /\ w = 0 => x = "address"
        /\ HasAddress /\ w = 1 => x = "ident"
        /\ HasAddress /\ w = 2 => x = "user"
        /\ HasAddress => w \in {0, 1, 2}
        /\ ~HasAddress => w = 0 /\ x = "user"
    BY <1>4, SigninNext
  <2>2. At(t, "sent") /\ fields' = [fields EXCEPT ![d] = @ \cup {x}]
    BY <1>4 DEF Signin
  <2>3. \A i \in 1 .. w : SigninWrites[i] \in fields[d]
    BY <2>2 DEF WroteInv
  <2> HIDE DEF w, d, x
  <2>4. \A c \in Conn : fields'[c] = fields[c] \/ (c = d /\ fields'[c] = fields[c] \cup {x})
    BY <1>1, <2>2
  <2>5. HasAddress => /\ SigninWrites[1] = "address" /\ SigninWrites[2] = "ident"
    BY Writes
  <2>6. /\ HasAddress /\ w = 1 => "address" \in fields[d]
        /\ HasAddress /\ w = 2 => "ident" \in fields[d]
    <3>1. 1 \in 1 .. 1 /\ 2 \in 1 .. 2
      OBVIOUS
    <3> QED
      BY <2>3, <2>5, <3>1
  <2> QED
    BY <1>1, <2>1, <2>4, <2>6 DEF OrderInv
<1>5. CASE \E t \in Thread : Step(t)
  BY <1>2, <1>3, <1>4, <1>5, StepKinds
<1>6. CASE ~(\E t \in Thread : Step(t))
  BY <1>2, <1>6, OtherKinds
<1> QED
  BY <1>5, <1>6

LEMMA HalfStep ==
  ASSUME TypeOK, FrameInv, ServeInv, HalfInv, WroteInv, [Next]_vars
  PROVE  HalfInv'
<1>0. SigninWrites' = SigninWrites /\ fields \in [Conn -> SUBSET {"address", "ident", "user"}]
  BY AddressKept DEF TypeOK
<1> SUFFICES ASSUME NEW c \in Conn
             PROVE  fields'[c] = {} \/ Full(c)' \/ \E t \in Thread : Writer(t, c)'
  BY DEF HalfInv
<1>1. ASSUME fields'[c] = fields[c],
             \A u \in Thread : Writer(u, c) => stack'[u] = stack[u]
      PROVE  fields'[c] = {} \/ Full(c)' \/ \E t \in Thread : Writer(t, c)'
  <2>1. Full(c) => Full(c)'
    BY <1>0, <1>1 DEF Full
  <2>2. ASSUME NEW u \in Thread, Writer(u, c)
        PROVE  Writer(u, c)'
    BY <1>0, <1>1, <2>2 DEF Writer, At, Idle, Top
  <2> QED
    BY <1>1, <2>1, <2>2 DEF HalfInv
<1>2. ASSUME NEW t \in Thread, Step(t), fields' = fields, ~Writer(t, c)
      PROVE  fields'[c] = {} \/ Full(c)' \/ \E u \in Thread : Writer(u, c)'
  <2>1. \A u \in Thread : Writer(u, c) => stack'[u] = stack[u]
    BY <1>2, Others
  <2> QED
    BY <1>1, <1>2, <2>1
<1>3. ASSUME NEW t \in Thread, Step(t), At(t, "sent"), Completes(t)
      PROVE  fields'[c] = {} \/ Full(c)' \/ \E u \in Thread : Writer(u, c)'
  <2>1. CASE Top(t).conn = c
    BY <1>0, <1>3, <2>1 DEF Completes, Full
  <2>2. CASE Top(t).conn # c
    <3>1. fields'[c] = fields[c]
      BY <1>0, <1>3, <2>2 DEF Completes
    <3>2. \A u \in Thread : Writer(u, c) => stack'[u] = stack[u]
      BY <1>3, <2>2, Others DEF Writer
    <3> QED
      BY <1>1, <3>1, <3>2
  <2> QED
    BY <2>1, <2>2
<1>4. ASSUME NEW t \in Thread, Step(t), Signin(t)
      PROVE  fields'[c] = {} \/ Full(c)' \/ \E u \in Thread : Writer(u, c)'
  <2>1. CASE Top(t).conn # c
    <3>1. fields'[c] = fields[c]
      BY <1>0, <1>4, <2>1 DEF Signin
    <3>2. \A u \in Thread : Writer(u, c) => stack'[u] = stack[u]
      BY <1>4, <2>1, Others DEF Writer
    <3> QED
      BY <1>1, <3>1, <3>2
  <2>2. CASE Top(t).conn = c
    <3>1. PICK f \in Frames : /\ stack' = [stack EXCEPT ![t] = Replaced(t, f)] /\ f.pc = "sent"
                              /\ f.conn = Top(t).conn /\ f.wrote = Top(t).wrote + 1
      BY <1>4, SigninFrame
    <3>2. ~Idle(t) /\ ~Idle(t)' /\ Top(t)' = f
      BY <1>4, <3>1, SigninFrame, ReplacedTop, TypeHasStacks
    <3>3. At(t, "sent")' /\ Top(t)'.conn = c /\ Top(t)'.wrote = Top(t).wrote + 1
      BY <2>2, <3>1, <3>2 DEF At
    <3> DEFINE w == Top(t).wrote
    <3>4. w \in Nat /\ w + 1 \in 1 .. Len(SigninWrites)
      BY <1>4, SigninNext
    <3>5. CASE w + 1 = Len(SigninWrites)
      <4>1. WroteInv'
        BY WroteStep
      <4>2. \A i \in 1 .. w + 1 : SigninWrites[i] \in fields'[c]
        BY <1>0, <3>3, <4>1 DEF WroteInv
      <4>3. \A i \in 1 .. Len(SigninWrites) : SigninWrites[i] \in fields'[c]
        BY <3>5, <4>2
      <4>4. Range(SigninWrites) \subseteq fields'[c]
        BY <4>3, WritesDomain DEF Range
      <4> QED
        BY <1>0, <4>4 DEF Full
    <3>6. CASE w + 1 # Len(SigninWrites)
      <4>1. Len(SigninWrites) \in Nat
        BY Writes
      <4>2. w + 1 \in 1 .. Len(SigninWrites) - 1
        BY <3>4, <3>6, <4>1
      <4>3. Writer(t, c)'
        BY <1>0, <3>3, <4>2 DEF Writer
      <4> QED
        BY <4>3
    <3> QED
      BY <3>5, <3>6
  <2> QED
    BY <2>1, <2>2
<1>5. CASE \E t \in Thread : Step(t)
  BY <1>2, <1>3, <1>4, <1>5, StepKinds
<1>6. CASE ~(\E t \in Thread : Step(t))
  <2>1. fields' = fields /\ \A u \in Thread : ~Idle(u) => stack'[u] = stack[u]
    BY <1>6, OtherKinds
  <2>2. \A u \in Thread : Writer(u, c) => stack'[u] = stack[u]
    BY <2>1 DEF Writer, At
  <2> QED
    BY <1>1, <2>1, <2>2
<1> QED
  BY <1>5, <1>6

\* What a handler stores is stored under the peer's ident.
LEMMA StoresIdent ==
  ASSUME TypeOK, OrderInv, NEW t \in Thread, ~Idle(t), Stores(t)
  PROVE  \/ db' = db
         \/ /\ Top(t).conn \in served /\ "address" \in fields[Top(t).conn]
            /\ db' = db \cup {[file |-> Top(t).file, ident |-> TRUE]}
<1> DEFINE c == Top(t).conn
           e == [file |-> Top(t).file, ident |-> "ident" \in fields[c]]
<1>1. c \in Conn /\ c \in served
  BY TypeHasStacks, TopFirst DEF Frames, Stores
<1>2. db' = IF {"address", "user"} \subseteq fields[c] THEN db \cup {e} ELSE db
  BY DEF Stores, SetFile
<1>3. CASE {"address", "user"} \subseteq fields[c]
  <2>1. HasAddress /\ "ident" \in fields[c]
    BY <1>1, <1>3 DEF OrderInv
  <2>2. e = [file |-> Top(t).file, ident |-> TRUE]
    <3>1. ("ident" \in fields[c]) = TRUE
      BY <2>1, Zenon
    <3> QED
      BY <3>1
  <2> QED
    BY <1>1, <1>2, <1>3, <2>2
<1> QED
  BY <1>2, <1>3

\* A connection on which a Signin is halfway is not given up: whoever has an
\* address there has everything, and is deleted.
LEMMA AllGone ==
  ASSUME TypeOK, FieldsInv, DbInv, NEW c \in Conn, Disconnected(c), "address" \in fields[c]
  PROVE  db' = {}
<1>1. ASSUME NEW t \in Thread, Writer(t, c)
      PROVE  FALSE
  <2>1. Top(t).wrote \in 1 .. Len(SigninWrites) - 1 /\ Top(t).wrote \in {0, Len(SigninWrites)}
    BY <1>1 DEF Writer, Disconnected
  <2>2. Len(SigninWrites) \in Nat
    BY Writes
  <2> QED
    BY <2>1, <2>2
<1>2. Range(SigninWrites) \subseteq fields[c]
  BY <1>1 DEF FieldsInv, HalfInv, Full
<1>3. HasAddress
  BY DEF FieldsInv, OrderInv
<1>4. ("ident" \in fields[c]) = TRUE
  <2>1. "ident" \in fields[c]
    BY <1>2, <1>3, Writes
  <2> QED
    BY <2>1, Zenon
<1>5. db' = {e \in db : e.ident # ("ident" \in fields[c])}
  BY DEF Disconnected
<1>6. db' = {e \in db : e.ident # TRUE}
  BY <1>4, <1>5
<1> QED
  BY <1>6 DEF DbInv

LEMMA ServeStep ==
  ASSUME TypeOK, FrameInv, ServeInv, [Next]_vars
  PROVE  ServeInv'
<1>0. state \in [Conn -> {"unused", "open", "broken"}]
  BY DEF TypeOK
<1>1. CASE UNCHANGED <<served, state>>
  BY <1>1 DEF ServeInv
<1>2. ASSUME NEW c \in Conn, served' = served \cup {c}, state' = [state EXCEPT ![c] = "open"]
      PROVE  ServeInv'
  BY <1>0, <1>2 DEF ServeInv
<1>3. ASSUME NEW t \in Thread, Signin(t)
      PROVE  ServeInv'
  BY <1>1, <1>3 DEF Signin, net
<1>4. ASSUME NEW c \in Conn, Break(c)
      PROVE  ServeInv'
  BY <1>0, <1>4 DEF Break, master, ServeInv
<1>5. ASSUME NEW c \in Conn, Disconnected(c)
      PROVE  ServeInv'
  BY <1>0, <1>5 DEF Disconnected, net, ServeInv
<1>6. CASE \E t \in Thread : Step(t)
  BY <1>1, <1>2, <1>3, <1>6, StepKinds
<1> QED
  BY <1>1, <1>4, <1>5, <1>6
  DEF Next, Detected, Asks, FromScanner, FromExport, net, master, vars

LEMMA GoneStep ==
  ASSUME TypeOK, FrameInv, GoneInv, [Next]_vars
  PROVE  DbInv' /\ NothingOfTheGone'
<1>1. ServeInv /\ OrderInv /\ FieldsInv /\ DbInv /\ NothingOfTheGone
  BY DEF GoneInv, FieldsInv
<1>2. \A c \in Conn : "address" \in fields[c] => "address" \in fields'[c]
  <2> SUFFICES ASSUME NEW c \in Conn, "address" \in fields[c]
               PROVE  "address" \in fields'[c]
    OBVIOUS
  <2>1. HasAddress
    BY <1>1 DEF OrderInv
  <2>2. "address" \in Range(SigninWrites)
    BY <2>1, Writes
  <2> QED
    BY <1>1, <2>2, FieldsGrow
<1>3. ASSUME served \subseteq served', db' = db
      PROVE  DbInv' /\ NothingOfTheGone'
  <2>1. served \subseteq Conn
    BY DEF TypeOK
  <2> QED
    BY <1>1, <1>2, <1>3, <2>1 DEF DbInv, NothingOfTheGone
<1>4. ASSUME NEW t \in Thread, ~Idle(t), Stores(t), UNCHANGED <<served, state>>
      PROVE  DbInv' /\ NothingOfTheGone'
  <2>1. CASE db' = db
    BY <1>3, <1>4, <2>1
  <2>2. CASE /\ Top(t).conn \in served /\ "address" \in fields[Top(t).conn]
             /\ db' = db \cup {[file |-> Top(t).file, ident |-> TRUE]}
    <3>1. DbInv'
      BY <1>1, <2>2 DEF DbInv
    <3>2. Top(t).conn \in Conn
      BY <2>2 DEF TypeOK
    <3> QED
      BY <1>2, <1>4, <2>2, <3>1, <3>2 DEF NothingOfTheGone
  <2> QED
    BY <1>1, <1>4, <2>1, <2>2, StoresIdent
<1>5. ASSUME NEW t \in Thread, Step(t)
      PROVE  DbInv' /\ NothingOfTheGone'
  <2>1. CASE Signin(t)
    BY <1>3, <2>1 DEF Signin
  <2>2. CASE Completes(t) /\ UNCHANGED <<served, state>>
    BY <1>3, <2>2 DEF Completes
  <2>3. CASE UNCHANGED db /\ served \subseteq served'
    BY <1>3, <2>3
  <2> QED
    BY <1>1, <1>4, <1>5, <2>1, <2>2, <2>3, StepKinds
<1>6. ASSUME NEW c \in Conn, Disconnected(c)
      PROVE  DbInv' /\ NothingOfTheGone'
  <2>1. CASE "address" \in fields[c]
    <3>1. db' = {}
      BY <1>1, <1>6, <2>1, AllGone
    <3> QED
      BY <3>1 DEF DbInv, NothingOfTheGone
  <2>2. CASE "address" \notin fields[c]
    <3>1. db' = db /\ served' = served \ {c} /\ served \subseteq Conn
      BY <1>6, <2>2 DEF Disconnected, TypeOK
    <3> QED
      BY <1>1, <1>2, <2>2, <3>1 DEF DbInv, NothingOfTheGone
  <2> QED
    BY <2>1, <2>2
<1>7. CASE UNCHANGED <<served, db>>
  BY <1>3, <1>7
<1> QED
  BY <1>5, <1>6, <1>7 DEF Next, Detected, Asks, FromScanner, FromExport, Break, master, vars

LEMMA InitGone == Init => GoneInv
<1> SUFFICES ASSUME Init PROVE GoneInv
  OBVIOUS
<1>1. 1 \in Conn /\ \A t \in Thread : Idle(t)
  BY InitStacks, SessionAssumption DEF Conn, Idle
<1>2. /\ HasAddress => Range(SigninWrites) = {"address", "ident", "user"}
      /\ ~HasAddress => Range(SigninWrites) = {"user"}
  BY Writes
<1>3. \A c \in Conn : fields[c] = {} \/ fields[c] = Range(SigninWrites)
  BY DEF Init
<1>4. ServeInv
  BY <1>1 DEF Init, ServeInv
<1>5. OrderInv
  BY <1>2, <1>3 DEF OrderInv
<1>6. HalfInv
  BY <1>3 DEF HalfInv, Full
<1>7. WroteInv
  BY <1>1 DEF WroteInv, At
<1>8. db = {}
  BY DEF Init
<1> QED
  BY <1>4, <1>5, <1>6, <1>7, <1>8 DEF GoneInv, FieldsInv, DbInv, NothingOfTheGone

LEMMA GoneKept ==
  TypeOK /\ FrameInv /\ GoneInv /\ [Next]_vars => (TypeOK /\ FrameInv /\ GoneInv)'
<1> SUFFICES ASSUME TypeOK, FrameInv, GoneInv, [Next]_vars
             PROVE  (TypeOK /\ FrameInv /\ GoneInv)'
  OBVIOUS
<1>1. ServeInv /\ OrderInv /\ HalfInv /\ WroteInv
  BY DEF GoneInv, FieldsInv
<1>2. (TypeOK /\ FrameInv)'
  BY TypeStep
<1>3. ServeInv' /\ OrderInv' /\ HalfInv' /\ WroteInv'
  BY <1>1, ServeStep, OrderStep, HalfStep, WroteStep
<1>4. DbInv' /\ NothingOfTheGone'
  BY GoneStep
<1> QED
  BY <1>2, <1>3, <1>4 DEF GoneInv, FieldsInv

\* The master has files of the peer only while it serves a connection on which the
\* peer has given its address: whatever the interleaving of cuts, of sign-ins that
\* are halfway and of requests answered after the cut, Peer.Disconnected of the
\* last connection leaves nothing behind.
THEOREM NothingLeftBehind == Spec => []NothingOfTheGone
<1>1. Spec => [](TypeOK /\ FrameInv /\ GoneInv)
  BY InitType, InitGone, GoneKept, PTL DEF Spec
<1>2. GoneInv => NothingOfTheGone
  BY DEF GoneInv
<1> QED
  BY <1>1, <1>2, PTL

-----------------------------------------------------------------------------
(* The reconnect callback.                                                 *)

\* The stack of a thread that has no callback,
Plain(s) == Len(s) = 0 \/ (Len(s) = 1 /\ s[1].cb = "none")

\* of one that has taken the callback out of the client and left it there,
Taken(s) == Len(s) = 1 /\ s[1].cb = "real" /\ s[1].pc = "taken"

\* and of one that has put the no-op in its place: it is within the callback, or
\* in the Signin the callback makes, which may have found the no-op itself.
Running(s) ==
  \/ Len(s) = 1 /\ s[1].cb = "real" /\ s[1].pc # "taken"
  \/ Len(s) = 2 /\ s[2].cb = "real" /\ s[1].cb # "real" /\ s[1].method = "Signin"

\* As long as no two reconnects overlapped, at most one thread has a callback, and
\* the client has what that thread has left in it.
CbInv ==
  ~overlapped =>
    \/ reconnCb = "real" /\ \A t \in Thread : Plain(stack[t])
    \/ \E t \in Thread :
         /\ \A u \in Thread \ {t} : Plain(stack[u])
         /\ \/ Taken(stack[t]) /\ reconnCb = "real"
            \/ Running(stack[t]) /\ reconnCb = "noop"

\* A step that only changes how far the current call has got.
Moved(t) ==
  /\ Top(t).pc # "taken"
  /\ reconnCb' = reconnCb
  /\ \E f \in Frames : /\ stack' = [stack EXCEPT ![t] = Replaced(t, f)]
                       /\ f.cb = Top(t).cb /\ f.method = Top(t).method /\ f.pc # "taken"

LEMMA Moves ==
  ASSUME TypeOK, NEW t \in Thread, Step(t)
  PROVE  /\ ~Idle(t)
         /\ \/ Moved(t)
            \/ RunCb(t)
            \/ TakeCb(t)
            \/ Top(t).pc # "taken" /\ \E ok \in BOOLEAN : Return(t, ok)
<1>1. ~Idle(t)
  BY DEF Step, Call, Recall, Signin, Answered, SigninRefused, Lost, Dial, DialFails,
         TakeCb, RunCb, ExportDone, CbFailed, At
<1>2. ASSUME Send(t, "sent"), Top(t).pc # "taken"
      PROVE  Moved(t)
  <2>1. PICK f \in Frames :
           /\ stack' = [stack EXCEPT ![t] = Replaced(t, f)]
           /\ f.pc = "sent" /\ f.cb = Top(t).cb /\ f.method = Top(t).method
    BY <1>1, <1>2, SendFrame
  <2> QED
    BY <1>2, <2>1 DEF Moved, Send
<1>3. ASSUME NEW p \in {"dial", "dialed", "recall"}, Goto(t, p), Top(t).pc # "taken",
             reconnCb' = reconnCb
      PROVE  Moved(t)
  <2>1. PICK f \in Frames :
           /\ stack' = [stack EXCEPT ![t] = Replaced(t, f)]
           /\ f.pc = p /\ f.cb = Top(t).cb /\ f.method = Top(t).method
    BY <1>1, <1>3, GotoFrame
  <2> QED
    BY <1>3, <2>1 DEF Moved
<1>4. ASSUME Signin(t)
      PROVE  Moved(t)
  <2>1. Top(t).pc = "sent" /\ Top(t).method = "Signin" /\ reconnCb' = reconnCb
    BY <1>4, SigninFrame DEF Signin
  <2>2. PICK f \in Frames :
           /\ stack' = [stack EXCEPT ![t] = Replaced(t, f)]
           /\ f.pc = "sent" /\ f.cb = Top(t).cb /\ f.method = "Signin"
    BY <1>4, SigninFrame
  <2> QED
    BY <2>1, <2>2 DEF Moved
<1>5. CASE Call(t)
  BY <1>2, <1>3, <1>5 DEF Call, At
<1>6. CASE Recall(t)
  BY <1>1, <1>2, <1>6 DEF Recall, At
<1>7. CASE Answered(t) \/ SigninRefused(t) \/ Lost(t) \/ DialFails(t) \/ CbFailed(t)
  BY <1>1, <1>7 DEF Answered, SigninRefused, Lost, DialFails, CbFailed, At
<1>8. CASE \E c \in Conn : Dial(t, c)
  BY <1>3, <1>8 DEF Dial, At
<1>9. CASE ExportDone(t)
  BY <1>3, <1>9 DEF ExportDone, At
<1> QED
  BY <1>1, <1>4, <1>5, <1>6, <1>7, <1>8, <1>9 DEF Step

LEMMA MovedShape ==
  ASSUME TypeOK, NEW t \in Thread, ~Idle(t), Moved(t)
  PROVE  /\ Len(stack'[t]) = Len(stack[t])
         /\ stack'[t][1].cb = stack[t][1].cb /\ stack'[t][1].method = stack[t][1].method
         /\ stack'[t][1].pc # "taken" /\ stack[t][1].pc # "taken"
         /\ Len(stack[t]) = 2 => stack'[t][2] = stack[t][2]
<1>1. PICK f \in Frames : /\ stack' = [stack EXCEPT ![t] = Replaced(t, f)]
                          /\ f.cb = Top(t).cb /\ f.method = Top(t).method /\ f.pc # "taken"
  BY DEF Moved
<1>2. /\ Len(stack'[t]) = Len(stack[t]) /\ stack'[t][1] = f
      /\ \A i \in 2 .. Len(stack[t]) : stack'[t][i] = stack[t][i]
  BY <1>1, TypeHasStacks, ReplacedShape
<1>3. Top(t) = stack[t][1]
  BY TypeHasStacks, TopFirst
<1>4. ASSUME Len(stack[t]) = 2
      PROVE  stack'[t][2] = stack[t][2]
  <2>1. 2 \in 2 .. Len(stack[t])
    BY <1>4
  <2> QED
    BY <1>2, <2>1
<1> QED
  BY <1>1, <1>2, <1>3, <1>4 DEF Moved

LEMMA TakeCbShape ==
  ASSUME TypeOK, FrameInv, NEW t \in Thread, TakeCb(t)
  PROVE  /\ Len(stack'[t]) = Len(stack[t])
         /\ stack[t][1].cb = "none" /\ stack[t][1].pc = "dialed"
         /\ stack'[t][1].cb = reconnCb /\ stack'[t][1].method = stack[t][1].method
         /\ stack'[t][1].pc = "taken" /\ reconnCb' = reconnCb
         /\ Len(stack[t]) = 2 => stack'[t][2] = stack[t][2]
<1>1. ~Idle(t) /\ Top(t).pc = "dialed"
  BY TakeCbFrame
<1>2. PICK f \in Frames :
         /\ stack' = [stack EXCEPT ![t] = Replaced(t, f)]
         /\ f.pc = "taken" /\ f.cb = reconnCb /\ f.method = Top(t).method
  BY TakeCbFrame
<1>3. /\ Len(stack'[t]) = Len(stack[t]) /\ stack'[t][1] = f
      /\ \A i \in 2 .. Len(stack[t]) : stack'[t][i] = stack[t][i]
  BY <1>1, <1>2, TypeHasStacks, ReplacedShape
<1>4. Top(t) = stack[t][1] /\ FrameOK(Top(t), 1)
  BY <1>1, TypeHasStacks, TopFirst, TopOK
<1>5. ASSUME Len(stack[t]) = 2
      PROVE  stack'[t][2] = stack[t][2]
  <2>1. 2 \in 2 .. Len(stack[t])
    BY <1>5
  <2> QED
    BY <1>3, <2>1
<1>6. stack[t][1].cb = "none"
  BY <1>1, <1>4 DEF FrameOK
<1> QED
  BY <1>1, <1>2, <1>3, <1>4, <1>5, <1>6 DEF TakeCb

LEMMA ReturnShape ==
  ASSUME TypeOK, NEW t \in Thread, ~Idle(t), NEW ok \in BOOLEAN, Return(t, ok)
  PROVE  /\ reconnCb' = IF stack[t][1].cb = "none" THEN reconnCb ELSE stack[t][1].cb
         /\ Len(stack[t]) = 1 => Len(stack'[t]) = 0
         /\ Len(stack[t]) = 2 => /\ Len(stack'[t]) = 1 /\ stack'[t][1].cb = stack[t][2].cb
                                 /\ stack'[t][1].pc \in {"failed", "export", "recall"}
<1>0. StackType /\ Top(t) = stack[t][1]
  BY TypeHasStacks, TopFirst
<1>1. reconnCb' = IF stack[t][1].cb = "none" THEN reconnCb ELSE stack[t][1].cb
  BY <1>0 DEF Return, Restored
<1>2. stack' = [stack EXCEPT ![t] = Resumed(t, ok)]
  BY DEF Return
<1>3. ASSUME Len(stack[t]) = 1
      PROVE  Len(stack'[t]) = 0
  <2>1. stack'[t] = << >>
    BY <1>0, <1>2, <1>3, EmptiedShape
  <2> QED
    BY <2>1
<1>4. ASSUME Len(stack[t]) = 2
      PROVE  /\ Len(stack'[t]) = 1 /\ stack'[t][1].cb = stack[t][2].cb
             /\ stack'[t][1].pc \in {"failed", "export", "recall"}
  <2>0. Len(stack[t]) > 1
    BY <1>4
  <2>1. /\ Len(stack'[t]) = Len(stack[t]) - 1 /\ stack[t][2] \in Frames
        /\ \E m \in {"failed", "export", "recall"} :
             stack'[t][1] = [stack[t][2] EXCEPT !.pc = m]
    BY <1>0, <1>2, <2>0, ResumedShape
  <2> DEFINE g == stack[t][2]
  <2>2. PICK m \in {"failed", "export", "recall"} : stack'[t][1] = [g EXCEPT !.pc = m]
    BY <2>1
  <2>3. g \in Frames
    BY <2>1
  <2> HIDE DEF g
  <2>4. stack'[t][1].cb = g.cb /\ stack'[t][1].pc = m
    BY <2>2, <2>3 DEF Frames
  <2> QED
    BY <1>4, <2>1, <2>4 DEF g
<1> QED
  BY <1>1, <1>3, <1>4

LEMMA RunCbShape ==
  ASSUME TypeOK, NEW t \in Thread, RunCb(t)
  PROVE  /\ reconnCb' = "noop" /\ stack[t][1].pc = "taken"
         /\ \/ /\ stack[t][1].cb = "noop" /\ Len(stack'[t]) = Len(stack[t])
               /\ stack'[t][1].cb = "noop" /\ stack'[t][1].method = stack[t][1].method
               /\ stack'[t][1].pc = "recall"
               /\ Len(stack[t]) = 2 => stack'[t][2] = stack[t][2]
            \/ /\ stack[t][1].cb = "real" /\ Len(stack'[t]) = Len(stack[t]) + 1
               /\ stack'[t][1].cb = "none" /\ stack'[t][1].method = "Signin"
               /\ stack'[t][1].pc = "call"
               /\ stack'[t][2].cb = "real"
<1>0. StackType /\ ~Idle(t) /\ Top(t).pc = "taken" /\ reconnCb' = "noop"
  BY TypeHasStacks, RunCbKinds DEF RunCb
<1>1. Top(t) = stack[t][1]
  BY <1>0, TopFirst
<1>2. CASE Top(t).cb = "noop" /\ Goto(t, "recall")
  <2>1. PICK f \in Frames : /\ stack' = [stack EXCEPT ![t] = Replaced(t, f)]
                            /\ f.pc = "recall" /\ f.cb = Top(t).cb /\ f.method = Top(t).method
    BY <1>0, <1>2, GotoFrame
  <2>2. /\ Len(stack'[t]) = Len(stack[t]) /\ stack'[t][1] = f
        /\ \A i \in 2 .. Len(stack[t]) : stack'[t][i] = stack[t][i]
    BY <1>0, <2>1, ReplacedShape
  <2>3. ASSUME Len(stack[t]) = 2
        PROVE  stack'[t][2] = stack[t][2]
    <3>1. 2 \in 2 .. Len(stack[t])
      BY <2>3
    <3> QED
      BY <2>2, <3>1
  <2> QED
    BY <1>0, <1>1, <1>2, <2>1, <2>2, <2>3
<1>3. CASE Top(t).cb = "real" /\ Pushes(t)
  <2>1. PICK f, g \in Frames :
           /\ stack' = [stack EXCEPT ![t] = <<g>> \o Replaced(t, f)]
           /\ f.pc = "signin" /\ f.cb = Top(t).cb
           /\ f.wrote = Top(t).wrote /\ f.method = Top(t).method /\ f.file = Top(t).file
           /\ g.pc = "call" /\ g.cb = "none" /\ g.wrote = 0 /\ g.method = "Signin"
    BY <1>0, <1>3, PushFrames, Zenon
  <2>2. /\ Len(stack'[t]) = Len(stack[t]) + 1 /\ stack'[t][1] = g /\ stack'[t][2] = f
    <3> DEFINE r == <<g>> \o Replaced(t, f)
    <3>1. stack' = [stack EXCEPT ![t] = r]
      BY <2>1
    <3>2. /\ stack' \in [Thread -> Seq(Frames)]
          /\ \A u \in Thread : u # t => stack'[u] = stack[u]
          /\ Len(stack'[t]) = Len(stack[t]) + 1 /\ stack'[t] # << >>
          /\ stack'[t][1] = g /\ stack'[t][2] = f
          /\ \A i \in 2 .. Len(stack[t]) : stack'[t][i + 1] = stack[t][i]
      BY ONLY <1>0, <3>1, t \in Thread, f \in Frames, g \in Frames, PushedShape
    <3> QED
      BY <3>2
  <2> QED
    BY <1>0, <1>1, <1>3, <2>1, <2>2
<1> QED
  BY <1>2, <1>3, RunCbKinds

LEMMA BusyLen ==
  ASSUME TypeOK, NEW t \in Thread
  PROVE  Len(stack[t]) \in Nat /\ (Idle(t) <=> Len(stack[t]) = 0)
<1>1. stack[t] \in Seq(Frames)
  BY TypeHasStacks DEF StackType
<1> QED
  BY <1>1, EmptySeq DEF Idle

\* A thread without a callback stays so until it takes one,
LEMMA PlainStep ==
  ASSUME TypeOK, FrameInv, NEW t \in Thread, Step(t), Plain(stack[t])
  PROVE  \/ Plain(stack'[t]) /\ reconnCb' = reconnCb
         \/ /\ TakeCb(t) /\ Len(stack'[t]) = 1 /\ stack'[t][1].pc = "taken"
            /\ stack'[t][1].cb = reconnCb /\ reconnCb' = reconnCb
<1>1. ~Idle(t)
  BY Moves
<1>2. Len(stack[t]) = 1 /\ stack[t][1].cb = "none"
  BY <1>1, BusyLen DEF Plain
<1>3. CASE Moved(t)
  BY <1>1, <1>2, <1>3, MovedShape DEF Plain, Moved
<1>4. CASE RunCb(t)
  BY <1>2, <1>4, RunCbShape
<1>5. CASE TakeCb(t)
  BY <1>2, <1>5, TakeCbShape
<1>6. CASE \E ok \in BOOLEAN : Return(t, ok)
  BY <1>1, <1>2, <1>6, ReturnShape DEF Plain
<1> QED
  BY <1>3, <1>4, <1>5, <1>6, Moves

\* runs it next,
LEMMA TakenStep ==
  ASSUME TypeOK, FrameInv, NEW t \in Thread, Step(t), Taken(stack[t])
  PROVE  Running(stack'[t]) /\ reconnCb' = "noop"
<1>1. ~Idle(t) /\ Top(t) = stack[t][1]
  BY Moves, TypeHasStacks, TopFirst
<1>2. Len(stack[t]) = 1 /\ stack[t][1].cb = "real" /\ stack[t][1].pc = "taken"
  BY DEF Taken
<1>3. RunCb(t)
  BY <1>1, <1>2, Moves, TakeCbShape DEF Moved
<1>4. Len(stack'[t]) = Len(stack[t]) + 1 /\ stack'[t][1].cb = "none"
      /\ stack'[t][1].method = "Signin" /\ stack'[t][2].cb = "real" /\ reconnCb' = "noop"
  BY <1>2, <1>3, RunCbShape
<1>5. Len(stack'[t]) = 2
  BY <1>2, <1>4
<1> QED
  BY <1>4, <1>5 DEF Running

\* and puts it back when its call returns.
LEMMA RunningStep ==
  ASSUME TypeOK, FrameInv, NEW t \in Thread, Step(t), Running(stack[t]), reconnCb = "noop"
  PROVE  \/ Running(stack'[t]) /\ reconnCb' = "noop"
         \/ Plain(stack'[t]) /\ reconnCb' = "real"
<1>1. ~Idle(t) /\ Top(t) = stack[t][1] /\ stack[t][1] \in Frames
  BY Moves, TypeHasStacks, TopFirst
<1>2. CASE Len(stack[t]) = 1 /\ stack[t][1].cb = "real" /\ stack[t][1].pc # "taken"
  <2>1. CASE Moved(t)
    BY <1>1, <1>2, <2>1, MovedShape DEF Running, Moved
  <2>2. CASE RunCb(t) \/ TakeCb(t)
    BY <1>2, <2>2, RunCbShape, TakeCbShape
  <2>3. CASE \E ok \in BOOLEAN : Return(t, ok)
    BY <1>1, <1>2, <2>3, ReturnShape DEF Plain
  <2> QED
    BY <2>1, <2>2, <2>3, Moves
<1>3. CASE /\ Len(stack[t]) = 2 /\ stack[t][2].cb = "real"
           /\ stack[t][1].cb # "real" /\ stack[t][1].method = "Signin"
  <2>1. CASE Moved(t)
    BY <1>1, <1>3, <2>1, MovedShape DEF Running, Moved
  <2>2. CASE RunCb(t)
    BY <1>3, <2>2, RunCbShape DEF Running
  <2>3. CASE TakeCb(t)
    BY <1>3, <2>3, TakeCbShape DEF Running
  <2>4. CASE \E ok \in BOOLEAN : Return(t, ok)
    <3>1. /\ reconnCb' = IF stack[t][1].cb = "none" THEN reconnCb ELSE stack[t][1].cb
          /\ Len(stack'[t]) = 1 /\ stack'[t][1].cb = stack[t][2].cb
          /\ stack'[t][1].pc \in {"failed", "export", "recall"}
      BY <1>1, <1>3, <2>4, ReturnShape
    <3>2. stack[t][1].cb \in {"none", "real", "noop"}
      BY <1>1 DEF Frames
    <3> QED
      BY <1>3, <3>1, <3>2 DEF Running
  <2> QED
    BY <2>1, <2>2, <2>3, <2>4, Moves
<1> QED
  BY <1>2, <1>3 DEF Running

\* A thread with a callback is seen by one that begins to reconnect.
LEMMA HolderSeen ==
  ASSUME NEW t \in Thread, Taken(stack[t]) \/ Running(stack[t])
  PROVE  HasCb(t)
<1>1. CASE Len(stack[t]) = 1 /\ stack[t][1].cb = "real"
  <2>1. 1 \in 1 .. Len(stack[t])
    BY <1>1
  <2> QED
    BY <1>1, <2>1 DEF HasCb
<1>2. CASE Len(stack[t]) = 2 /\ stack[t][2].cb = "real"
  <2>1. 2 \in 1 .. Len(stack[t])
    BY <1>2
  <2> QED
    BY <1>2, <2>1 DEF HasCb
<1> QED
  BY <1>1, <1>2 DEF Taken, Running

\* An overlap is never forgotten, and stacks and the callback are changed by
\* threads and by new calls.
LEMMA OverlapKept ==
  ASSUME TypeOK, [Next]_vars
  PROVE  overlapped => overlapped'
<1>1. ASSUME NEW t \in Thread, Step(t)
      PROVE  overlapped => overlapped'
  <2>1. CASE Call(t) \/ Recall(t) \/ Signin(t)
    BY <2>1 DEF Call, Recall, Send, Return, Signin
  <2>2. CASE Answered(t) \/ SigninRefused(t) \/ Lost(t) \/ DialFails(t) \/ CbFailed(t)
    BY <2>2 DEF Answered, SigninRefused, Lost, DialFails, CbFailed, Return
  <2>3. CASE (\E c \in Conn : Dial(t, c)) \/ TakeCb(t) \/ RunCb(t) \/ ExportDone(t)
    BY <2>3 DEF Dial, TakeCb, RunCb, ExportDone
  <2> QED
    BY <1>1, <2>1, <2>2, <2>3 DEF Step
<1> QED
  BY <1>1
  DEF Next, Detected, Asks, FromScanner, FromExport, Break, Disconnected, peer, vars

LEMMA NewCall ==
  ASSUME TypeOK, [Next]_vars, ~(\E t \in Thread : Step(t))
  PROVE  /\ reconnCb' = reconnCb /\ client' = client
         /\ \A u \in Thread : stack'[u] = stack[u] \/ (Idle(u) /\ Plain(stack'[u]))
<1>1. stack \in [Thread -> Seq(Frames)]
  BY TypeHasStacks DEF StackType
<1>2. ASSUME NEW t \in Thread, Idle(t),
             NEW m \in {"SetFile", "GetDir"}, NEW f \in File \cup {NoFile},
             stack' = [stack EXCEPT ![t] = <<Frame(m, f)>>]
      PROVE  \A u \in Thread : stack'[u] = stack[u] \/ (Idle(u) /\ Plain(stack'[u]))
  <2>1. m \in {"SetFile", "GetDir", "Signin"}
    OBVIOUS
  <2> DEFINE g == Frame(m, f)
  <2>2. g \in Frames /\ g.cb = "none"
    BY <2>1, FrameType
  <2> HIDE DEF g
  <2>3. stack' = [stack EXCEPT ![t] = <<g>>]
    BY <1>2 DEF g
  <2>4. stack'[t] = <<g>> /\ \A u \in Thread : u # t => stack'[u] = stack[u]
    BY <1>1, <2>3
  <2>5. Plain(<<g>>)
    BY <2>2 DEF Plain
  <2> QED
    BY <1>2, <2>4, <2>5
<1>3. CASE UNCHANGED <<stack, reconnCb, client>>
  BY <1>3
<1> QED
  BY <1>2, <1>3
  DEF Next, Detected, Asks, FromScanner, FromExport, Break, Disconnected, peer, vars

LEMMA CbStep ==
  ASSUME TypeOK, FrameInv, CbInv, [Next]_vars
  PROVE  CbInv'
<1> SUFFICES ASSUME ~overlapped'
             PROVE  \/ reconnCb' = "real" /\ \A t \in Thread : Plain(stack'[t])
                    \/ \E t \in Thread :
                         /\ \A u \in Thread \ {t} : Plain(stack'[u])
                         /\ \/ Taken(stack'[t]) /\ reconnCb' = "real"
                            \/ Running(stack'[t]) /\ reconnCb' = "noop"
  BY DEF CbInv
<1>1. ~overlapped
  BY OverlapKept
<1>2. CASE reconnCb = "real" /\ \A t \in Thread : Plain(stack[t])
  <2>1. ASSUME NEW t \in Thread, Step(t)
        PROVE  \/ reconnCb' = "real" /\ \A u \in Thread : Plain(stack'[u])
               \/ /\ \A u \in Thread \ {t} : Plain(stack'[u])
                  /\ Taken(stack'[t]) /\ reconnCb' = "real"
    <3>1. \A u \in Thread \ {t} : Plain(stack'[u])
      BY <1>2, <2>1, Others
    <3>2. CASE Plain(stack'[t]) /\ reconnCb' = reconnCb
      BY <1>2, <3>1, <3>2
    <3>3. CASE /\ Len(stack'[t]) = 1 /\ stack'[t][1].pc = "taken"
               /\ stack'[t][1].cb = reconnCb /\ reconnCb' = reconnCb
      BY <1>2, <3>1, <3>3 DEF Taken
    <3> QED
      BY <1>2, <2>1, <3>2, <3>3, PlainStep
  <2>2. CASE ~(\E t \in Thread : Step(t))
    BY <1>2, <2>2, NewCall
  <2> QED
    BY <2>1, <2>2
<1>3. ASSUME NEW h \in Thread, \A u \in Thread \ {h} : Plain(stack[u]),
             \/ Taken(stack[h]) /\ reconnCb = "real"
             \/ Running(stack[h]) /\ reconnCb = "noop"
      PROVE  \/ reconnCb' = "real" /\ \A t \in Thread : Plain(stack'[t])
             \/ /\ \A u \in Thread \ {h} : Plain(stack'[u])
                /\ \/ Taken(stack'[h]) /\ reconnCb' = "real"
                   \/ Running(stack'[h]) /\ reconnCb' = "noop"
  <2>1. CASE Step(h)
    <3>1. \A u \in Thread \ {h} : Plain(stack'[u])
      BY <1>3, <2>1, Others
    <3> QED
      BY <1>3, <2>1, <3>1, TakenStep, RunningStep
  <2>2. ASSUME NEW t \in Thread \ {h}, Step(t)
        PROVE  /\ \A u \in Thread \ {h} : Plain(stack'[u])
               /\ stack'[h] = stack[h] /\ reconnCb' = reconnCb
    <3>1. ~TakeCb(t)
      BY <1>3, HolderSeen DEF TakeCb
    <3>2. Plain(stack'[t]) /\ reconnCb' = reconnCb
      BY <1>3, <2>2, <3>1, PlainStep
    <3> QED
      BY <1>3, <2>2, <3>2, Others
  <2>3. CASE ~(\E t \in Thread : Step(t))
    <3>1. ~Idle(h)
      BY <1>3, BusyLen DEF Taken, Running
    <3> QED
      BY <1>3, <2>3, <3>1, NewCall
  <2> QED
    BY <1>3, <2>1, <2>2, <2>3
<1> QED
  BY <1>1, <1>2, <1>3 DEF CbInv

LEMMA InitCb == Init => CbInv
<1> SUFFICES ASSUME Init PROVE CbInv
  OBVIOUS
<1>1. \A t \in Thread : Plain(stack[t])
  BY InitStacks DEF Plain
<1> QED
  BY <1>1 DEF Init, CbInv

\* As long as no two reconnects overlapped the client never loses its callback:
\* whenever no call is running it is in place, however many dials and sign-ins
\* failed and however often the sign-in of a reconnect reconnected itself.
THEOREM CallbackAlwaysKept == Spec => []CallbackKept
<1>1. Init => TypeOK /\ FrameInv /\ CbInv
  BY InitType, InitCb
<1>2. TypeOK /\ FrameInv /\ CbInv /\ [Next]_vars => (TypeOK /\ FrameInv /\ CbInv)'
  BY TypeStep, CbStep
<1>3. TypeOK /\ CbInv => CallbackKept
  <2> SUFFICES ASSUME TypeOK, CbInv, ~overlapped, \A t \in Thread : Idle(t)
               PROVE  reconnCb = "real"
    BY DEF CallbackKept
  <2>1. \A t \in Thread : Len(stack[t]) = 0
    BY BusyLen
  <2> QED
    BY <2>1 DEF CbInv, Running
<1> QED
  BY <1>1, <1>2, <1>3, PTL DEF Spec

-----------------------------------------------------------------------------
(* Signing in again.                                                       *)

\* Thread t is about to sign in on the connection the client has.
Pending(t) ==
  \/ At(t, "dialed")
  \/ Len(stack[t]) = 1 /\ At(t, "taken")
  \/ Len(stack[t]) = 2 /\ (At(t, "call") \/ At(t, "taken") \/ At(t, "recall"))
  \/ Len(stack[t]) = 2 /\ At(t, "sent") /\ Top(t).conn = client

\* The client's connection is cut, or the peer has signed in on it or was refused.
SignedIn == state[client] # "open" \/ client \in refused \/ Full(client)

SignInv == ~overlapped => SignedIn \/ \E t \in Thread : Pending(t)

\* A connection opens only by a Dial; otherwise nobody is signed out.
LEMMA NetStep ==
  ASSUME TypeOK, [Next]_vars, ~(\E t \in Thread, c \in Conn : Dial(t, c))
  PROVE  /\ client' = client /\ refused \subseteq refused'
         /\ \A c \in Conn : state'[c] = "open" => state[c] = "open"
<1>0. state \in [Conn -> {"unused", "open", "broken"}]
  BY DEF TypeOK
<1>1. ASSUME NEW t \in Thread, Step(t)
      PROVE  client' = client /\ refused \subseteq refused' /\ state' = state
  <2>1. CASE Call(t) \/ Recall(t) \/ Signin(t)
    BY <2>1 DEF Call, Recall, Send, Return, Signin, net
  <2>2. CASE Answered(t) \/ SigninRefused(t) \/ Lost(t) \/ DialFails(t) \/ CbFailed(t)
    BY <2>2 DEF Answered, SigninRefused, Lost, DialFails, CbFailed, Return, net
  <2>3. CASE TakeCb(t) \/ RunCb(t) \/ ExportDone(t)
    BY <2>3 DEF TakeCb, RunCb, ExportDone, net
  <2> QED
    BY <1>1, <2>1, <2>2, <2>3 DEF Step
<1>2. ASSUME NEW c \in Conn, Break(c)
      PROVE  /\ client' = client /\ refused \subseteq refused'
             /\ \A d \in Conn : state'[d] = "open" => state[d] = "open"
  BY <1>0, <1>2 DEF Break, peer
<1>3. CASE UNCHANGED <<client, refused, state>>
  BY <1>3
<1> QED
  BY <1>1, <1>2, <1>3
  DEF Next, Detected, Asks, FromScanner, FromExport, Disconnected, peer, net, vars

LEMMA SignedKept ==
  ASSUME TypeOK, FrameInv, ServeInv, [Next]_vars, SignedIn,
         ~(\E t \in Thread, c \in Conn : Dial(t, c))
  PROVE  SignedIn'
<1>1. client \in Conn
  BY DEF TypeOK
<1>2. client' = client /\ refused \subseteq refused' /\ (state'[client] = "open" => state[client] = "open")
  BY <1>1, NetStep
<1>3. ASSUME Full(client)
      PROVE  Full(client)'
  BY <1>1, <1>2, <1>3, AddressKept, FieldsGrow DEF Full
<1> QED
  BY <1>2, <1>3 DEF SignedIn

\* The current frame of the next state.
LEMMA NowAt ==
  ASSUME TypeOK, FrameInv, [Next]_vars, NEW t \in Thread, Len(stack'[t]) # 0
  PROVE  /\ Top(t)' = stack'[t][1]
         /\ \A p : stack'[t][1].pc = p => At(t, p)'
<1>1. stack'[t] \in Seq(Frames)
  BY StackStep DEF StackType
<1>2. stack'[t] # << >>
  OBVIOUS
<1>3. Head(stack'[t]) = stack'[t][1]
  BY <1>1, <1>2, HeadFirst
<1> QED
  BY <1>2, <1>3 DEF At, Idle, Top

LEMMA DialPending ==
  ASSUME TypeOK, NEW t \in Thread, NEW c \in Conn, Dial(t, c)
  PROVE  Pending(t)'
<1>1. ~Idle(t) /\ Goto(t, "dialed")
  BY DEF Dial, At
<1>2. PICK f \in Frames : stack' = [stack EXCEPT ![t] = Replaced(t, f)] /\ f.pc = "dialed"
  BY <1>1, GotoFrame
<1>3. ~Idle(t)' /\ Top(t)' = f
  BY <1>1, <1>2, TypeHasStacks, ReplacedTop
<1> QED
  BY <1>2, <1>3 DEF Pending, At

\* A thread that is about to sign in remains so until it has, was refused, or the
\* connection is cut.
LEMMA PendingStep ==
  ASSUME TypeOK, FrameInv, CbInv, ~overlapped, NEW t \in Thread, Pending(t), Step(t), Next,
         ~(\E u \in Thread, c \in Conn : Dial(u, c))
  PROVE  SignedIn' \/ Pending(t)'
<1>0. [Next]_vars
  OBVIOUS
<1>1. /\ ~Idle(t) /\ Len(stack[t]) # 0 /\ Top(t) = stack[t][1]
  BY Moves, BusyLen, TypeHasStacks, TopFirst
<1>2. /\ client \in Conn /\ client' = client
      /\ \A c \in Conn : state'[c] = "open" => state[c] = "open"
  BY <1>0, NetStep DEF TypeOK
<1>3. /\ Len(stack[t]) = 1 \/ Len(stack[t]) = 2
      /\ Len(stack[t]) = 2 => stack[t][1].cb # "real" /\ stack[t][1].method = "Signin"
      /\ Len(stack[t]) = 1 => stack[t][1].cb # "noop"
  <2>1. Plain(stack[t]) \/ Taken(stack[t]) \/ Running(stack[t])
    BY DEF CbInv
  <2> QED
    BY <1>1, <2>1 DEF Plain, Taken, Running
<1>4. CASE TakeCb(t)
  <2>1. Len(stack'[t]) = Len(stack[t]) /\ stack'[t][1].pc = "taken"
    BY <1>4, TakeCbShape
  <2>2. At(t, "taken")'
    BY <1>0, <1>1, <2>1, NowAt
  <2> QED
    BY <1>3, <2>1, <2>2 DEF Pending
<1>5. CASE RunCb(t)
  <2>1. CASE stack[t][1].cb = "noop"
    <3>1. Len(stack'[t]) = 2 /\ stack'[t][1].pc = "recall"
      BY <1>3, <1>5, <2>1, RunCbShape
    <3>2. At(t, "recall")'
      BY <1>0, <3>1, NowAt
    <3> QED
      BY <3>1, <3>2 DEF Pending
  <2>2. CASE stack[t][1].cb = "real"
    <3>1. Len(stack'[t]) = Len(stack[t]) + 1 /\ stack'[t][1].pc = "call"
      BY <1>3, <1>5, <2>2, RunCbShape
    <3>2. Len(stack'[t]) = 2
      <4>1. Len(stack[t]) = 1
        BY <1>3, <2>2
      <4>2. Len(stack'[t]) = 1 + 1
        BY <3>1, <4>1
      <4> QED
        BY <4>2
    <3>3. At(t, "call")'
      BY <1>0, <3>1, <3>2, NowAt
    <3> QED
      BY <3>2, <3>3 DEF Pending
  <2> QED
    BY <1>5, <2>1, <2>2, RunCbShape
<1>6. ASSUME Send(t, "sent"), Len(stack[t]) = 2
      PROVE  Pending(t)'
  <2>1. PICK f \in Frames :
           /\ stack' = [stack EXCEPT ![t] = Replaced(t, f)] /\ f.pc = "sent" /\ f.conn = client
    BY <1>1, <1>6, SendFrame
  <2>2. Len(stack'[t]) = 2 /\ ~Idle(t)' /\ Top(t)' = f
    BY <1>1, <1>6, <2>1, TypeHasStacks, ReplacedShape, ReplacedTop
  <2> QED
    BY <1>2, <2>1, <2>2 DEF Pending, At
<1>7. CASE Call(t) \/ Recall(t)
  <2>1. Len(stack[t]) = 2
    BY <1>7 DEF Call, Recall, Pending, At
  <2>2. CASE state[client] = "broken"
    BY <1>2, <2>2 DEF SignedIn
  <2> QED
    BY <1>6, <1>7, <2>1, <2>2 DEF Call, Recall
<1>8. ASSUME At(t, "sent")
      PROVE  Len(stack[t]) = 2 /\ Top(t).conn = client /\ Top(t).method = "Signin"
  BY <1>1, <1>3, <1>8 DEF Pending, At
<1>9. CASE Signin(t)
  <2>1. At(t, "sent")
    BY <1>9 DEF Signin
  <2>2. PICK f \in Frames : /\ stack' = [stack EXCEPT ![t] = Replaced(t, f)] /\ f.pc = "sent"
                            /\ f.conn = Top(t).conn
    BY <1>9, SigninFrame
  <2>3. Len(stack'[t]) = 2 /\ ~Idle(t)' /\ Top(t)' = f
    BY <1>1, <1>8, <2>1, <2>2, TypeHasStacks, ReplacedShape, ReplacedTop
  <2> QED
    BY <1>2, <1>8, <2>1, <2>2, <2>3 DEF Pending, At
<1>10. CASE Answered(t)
  <2>1. At(t, "sent") /\ Handled(t)
    BY <1>10 DEF Answered
  <2>2. fields' = [fields EXCEPT ![client] = Range(SigninWrites)]
    BY <1>8, <2>1 DEF Handled
  <2>3. fields'[client] = Range(SigninWrites)
    BY <1>2, <2>2 DEF TypeOK
  <2> QED
    BY <1>0, <1>2, <2>3, AddressKept DEF SignedIn, Full
<1>11. CASE SigninRefused(t)
  BY <1>2, <1>8, <1>11 DEF SigninRefused, SignedIn
<1>12. CASE Lost(t)
  <2>1. state[client] = "broken"
    BY <1>8, <1>12 DEF Lost
  <2> QED
    BY <1>2, <2>1 DEF SignedIn
<1>13. CASE DialFails(t) \/ ExportDone(t) \/ CbFailed(t)
  BY <1>13 DEF DialFails, ExportDone, CbFailed, Pending, At
<1> QED
  BY <1>4, <1>5, <1>7, <1>9, <1>10, <1>11, <1>12, <1>13 DEF Step

LEMMA SignStep ==
  ASSUME TypeOK, FrameInv, ServeInv, CbInv, SignInv, [Next]_vars
  PROVE  SignInv'
<1> SUFFICES ASSUME ~overlapped'
             PROVE  SignedIn' \/ \E t \in Thread : Pending(t)'
  BY DEF SignInv
<1>1. ~overlapped
  BY OverlapKept
<1>2. CASE \E t \in Thread, c \in Conn : Dial(t, c)
  BY <1>2, DialPending
<1>3. CASE ~(\E t \in Thread, c \in Conn : Dial(t, c))
  <2>1. CASE SignedIn
    BY <1>3, <2>1, SignedKept
  <2>2. ASSUME NEW t \in Thread, Pending(t)
        PROVE  SignedIn' \/ Pending(t)'
    <3>1. ~Idle(t) /\ client' = client
      BY <1>3, <2>2, BusyLen, NetStep DEF Pending, At
    <3>2. CASE stack'[t] = stack[t]
      BY <2>2, <3>1, <3>2 DEF Pending, At, Idle, Top
    <3>3. CASE Step(t) /\ Next
      BY <1>1, <1>3, <2>2, <3>3, PendingStep
    <3>4. CASE \E u \in Thread : u # t /\ Step(u)
      BY <3>2, <3>4, Others
    <3>5. CASE ~(\E u \in Thread : Step(u))
      BY <3>1, <3>2, <3>5, OtherKinds
    <3>6. CASE UNCHANGED vars
      BY <3>2, <3>6 DEF vars, peer
    <3> QED
      BY <3>3, <3>4, <3>5, <3>6
  <2> QED
    BY <1>1, <2>1, <2>2 DEF SignInv
<1> QED
  BY <1>2, <1>3

LEMMA InitSign == Init => SignInv
<1> SUFFICES ASSUME Init PROVE Full(client)
  BY DEF SignInv, SignedIn
<1>1. 1 \in Conn
  BY SessionAssumption DEF Conn
<1> QED
  BY <1>1 DEF Init, Full

SessionInv == TypeOK /\ FrameInv /\ GoneInv /\ CbInv /\ SignInv

LEMMA SessionStep == SessionInv /\ [Next]_vars => SessionInv'
<1> SUFFICES ASSUME SessionInv, [Next]_vars PROVE SessionInv'
  OBVIOUS
<1>1. TypeOK /\ FrameInv /\ GoneInv /\ CbInv /\ SignInv /\ ServeInv
  BY DEF SessionInv, GoneInv
<1>2. (TypeOK /\ FrameInv /\ GoneInv)'
  BY <1>1, GoneKept
<1>3. CbInv' /\ SignInv'
  BY <1>1, CbStep, SignStep
<1> QED
  BY <1>2, <1>3 DEF SessionInv

\* As long as no two reconnects overlapped, an open connection between two calls
\* is one on which the peer has signed in or was refused: no order of cuts, of
\* failed dials and of reconnects within a sign-in leaves the peer connected and
\* unknown to the master.
THEOREM SignedAlways == Spec => []SignedBetweenCalls
<1>1. Init => SessionInv
  BY InitType, InitGone, InitCb, InitSign DEF SessionInv
<1>2. SessionInv => SignedBetweenCalls
  <2> SUFFICES ASSUME SessionInv, ~overlapped, \A t \in Thread : Idle(t), state[client] = "open"
               PROVE  client \in refused \/ Range(SigninWrites) \subseteq fields[client]
    BY DEF SignedBetweenCalls
  <2>1. \A t \in Thread : ~Pending(t)
    BY BusyLen DEF SessionInv, Pending, At
  <2> QED
    BY <2>1 DEF SessionInv, SignInv, SignedIn, Full
<1> QED
  BY <1>1, <1>2, SessionStep, PTL DEF Spec

==============================================================================
