----------------------------- MODULE ByteStream -----------------------------
(***************************************************************************)
(* What a reader may expect of an io.ReadCloser over a file: the bytes     *)
(* from `start' on come in order and without gaps, the end is announced    *)
(* only after the last of them, and whatever goes wrong is an error and    *)
(* not an end.  This is promised as long as the source gives the whole     *)
(* file.  Module Stream shows when src/fetch.go implements this.           *)
(***************************************************************************)
EXTENDS Integers, Sequences

CONSTANT Size      \* the size of the file

VARIABLES start,   \* the offset the stream was opened at
          out,     \* the bytes the reader has been given
          status,  \* "open", "eof", "broken" or "closed"
          cut      \* the source does not give the whole file

vars == <<start, out, status, cut>>

\* The first n bytes of the stream.  A byte is its position in the file.
Prefix(n) == [i \in 1 .. n |-> start + i - 1]

Total == IF start < Size THEN Size - start ELSE 0

Init == start \in Nat /\ out = << >> /\ status = "open" /\ cut \in BOOLEAN

Deliver ==
  /\ status = "open"
  /\ \E n \in Len(out) .. Total : out' = Prefix(n)
  /\ UNCHANGED <<start, status>>

Finish ==
  /\ status = "open"
  /\ out' = Prefix(Total)
  /\ status' = "eof"
  /\ UNCHANGED start

\* An error is reported, or the process ends.
Break ==
  /\ status = "open"
  /\ status' = "broken"
  /\ UNCHANGED <<start, out>>

Close ==
  /\ status # "closed"
  /\ status' = "closed"
  /\ UNCHANGED <<start, out>>

\* From then on nothing is promised.
LoseBytes == cut'

Next ==
  \/ ~cut /\ UNCHANGED cut /\ (Deliver \/ Finish \/ Break \/ Close)
  \/ LoseBytes

Spec == Init /\ [][Next]_vars
=============================================================================
