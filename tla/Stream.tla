------------------------------- MODULE Stream -------------------------------
(***************************************************************************)
(* src/fetch.go: pfStream, a pfHandle (module Fetch) that is read from an  *)
(* offset on, one Read after the other.  GetFile of src/ftp.go opens one   *)
(* at the offset the client wants to resume at, and the FTP server copies  *)
(* it to the client with a buffer of BufSize bytes until Read reports      *)
(* io.EOF or an error.                                                     *)
(*                                                                         *)
(* A stream has a handle of its own, so there is one reader.  The context  *)
(* of the stream is cancelled by Close only, which the copying goroutine   *)
(* calls between two Reads: a Read of a stream is never interrupted.       *)
(*                                                                         *)
(* A definition D_Variant in front of D is D with a mistake in it: it is   *)
(* not used, and shows which property would notice the mistake.            *)
(***************************************************************************)
EXTENDS Fetch

CONSTANTS BufSize,   \* len(p)
          Start      \* the offsets a stream may be opened at

ASSUME StreamAssumption ==
  /\ BufSize \in Nat \ {0}
  /\ Start \subseteq Nat

\* The handle that GetFile makes is the stream's own: nobody else reads it, and
\* the FTP server does not recover the panics of its Reads.
OwnHandle == ~Recovers /\ \E r \in Reader : Reader = {r}

VARIABLES start,     \* the offset the stream was opened at
          offset,    \* pfStream.offset
          out,       \* the bytes copied to the client
          stream     \* "open", "reading", "eof", "error" or "closed"

svars == <<vars, start, offset, out, stream>>

\* GetFile: the handle of NewHandle, and a stream at the offset.
StreamInit ==
  /\ Init
  /\ start \in Start
  /\ offset = start
  /\ out = << >>
  /\ stream = "open"

\* pfStream.Read: the call of pfHandle.Read ...
Begin(r) ==
  /\ stream = "open"
  /\ LET q == [offset |-> offset, size |-> BufSize]
     IN  ReadAtEnd(r, q) \/ Read(r, q) \/ ReadPanics(r, q)
  /\ stream' = "reading"
  /\ UNCHANGED <<start, offset, out>>

Returns_NoAdvance(r) ==
  /\ ~crashed
  /\ stream = "reading"
  /\ pc[r] = "idle"
  /\ IF result[r].kind = "error"
     THEN stream' = "error" /\ UNCHANGED <<offset, out>>
     ELSE /\ out' = out \o result[r].bytes
          /\ UNCHANGED offset
          /\ stream' = IF Len(result[r].bytes) < BufSize THEN "eof" ELSE "open"
  /\ UNCHANGED <<vars, start>>

\* ... and what it makes of the answer: fewer bytes than fit mean the end.
Returns(r) ==
  /\ ~crashed
  /\ stream = "reading"
  /\ pc[r] = "idle"
  /\ IF result[r].kind = "error"
     THEN stream' = "error" /\ UNCHANGED <<offset, out>>
     ELSE /\ out' = out \o result[r].bytes
          /\ offset' = offset + Len(result[r].bytes)
          /\ stream' = IF Len(result[r].bytes) < BufSize THEN "eof" ELSE "open"
  /\ UNCHANGED <<vars, start>>

\* The copy is over, or the client has gone.
CloseStream ==
  /\ ~crashed
  /\ stream \in {"open", "eof", "error"}
  /\ stream' = "closed"
  /\ UNCHANGED <<vars, start, offset, out>>

\* The rest of Fetch: peers answer, and the Read that waits for them goes on.
Fetching ==
  /\ \/ \E b \in Block, k \in Lost : Fetched(b, k)
     \/ \E b \in Block : FetchFailed(b)
     \/ \E r \in Reader : Grab(r) \/ GrabPanics(r) \/ GrabMissing(r) \/ GiveUp(r)
  /\ UNCHANGED <<start, offset, out, stream>>

Copying == \E r \in Reader : Begin(r) \/ Returns(r)

StreamNext == Copying \/ CloseStream \/ Fetching

\* The client goes on copying, every call to a peer returns, and a goroutine
\* that can run does.
StreamSpec ==
  /\ StreamInit /\ [][StreamNext]_svars
  /\ WF_svars(Copying)
  /\ WF_svars(Fetching)

-----------------------------------------------------------------------------
\* What the client sees: a Read under way is still an open stream, and the end
\* of the process is as good as an error.
Seen ==
  IF crashed \/ stream = "error" THEN "broken"
  ELSE IF stream \in {"open", "reading"} THEN "open" ELSE stream

\* The file is a whole number of blocks and its rest no whole number of buffers.
\* The last Read with bytes to return needs the empty block behind the file too,
\* takes it for one that could not be fetched (src/fetch.go:224), and returns
\* neither the bytes nor an error.
Overreads ==
  /\ Size % BlockSize = 0
  /\ start < Size
  /\ (Size - start) % BufSize # 0

Abstract == INSTANCE ByteStream WITH status <- Seen, cut <- short \/ Overreads

\* Whatever is fetched, purged, prefetched or fails meanwhile, the client gets
\* the bytes of the file from its offset on, in order and without gaps; the end
\* (fewer bytes than the buffer holds, src/fetch.go:277) is reported after the
\* last byte and never in place of an error.  This needs peers that still have
\* all the bytes that were hashed, and a stream that is not one of those that
\* lose their last bytes whatever the peers do.
Refines == Abstract!Spec

\* pfStream asks for a whole buffer even when less is left of the file.  As
\* long as it started at a multiple of the buffer size this never reaches
\* beyond the blocks of the handle, whatever the size of the file; and even
\* from peers that have lost bytes the client gets nothing that is out of place.
AlignedSafe ==
  start % BufSize = 0 /\ BlockSize % BufSize = 0 =>
    /\ ~short => ~crashed
    /\ out = Abstract!Prefix(Len(out))

\* Every stream ends: each Read makes progress or is the last.
StreamEnds == <>(stream \in {"eof", "error", "closed"} \/ crashed)
=============================================================================
