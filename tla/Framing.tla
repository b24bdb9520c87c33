------------------------------ MODULE Framing ------------------------------
(***************************************************************************)
(* Length-prefixed frames over one TCP stream (protocol/framing.go):       *)
(* WriteFrame at one end and ReadFrame, in the loop of serve, at the other.*)
(*                                                                         *)
(* The stream delivers bytes in order and in any portions; the writer may  *)
(* disappear after any byte.  A byte is known by its frame and position,   *)
(* and the bytes of a prefix by the size that they encode together.        *)
(***************************************************************************)
EXTENDS Integers, Sequences, FiniteSetsExt

CONSTANTS
    Size,           \* the sizes of the frames that peers write
    MaxFrameSize,
    MaxFrames       \* bound: frames written

ASSUME SizeAssumption == Size \subseteq Nat /\ {MaxFrameSize, MaxFrames} \subseteq Nat

HdrLen == 4

VARIABLES
    written,    \* the sizes of the frames begun, in order
    pos,        \* bytes written of the last one; zero when it is complete
    closed,     \* the writer has closed its end, or is gone
    stream,     \* bytes written and not read
    arrived,    \* how many of them the reader's kernel has
    part,       \* what ReadFrame is reading: "prefix" or "body"
    need,       \* the length of that part
    have,       \* the bytes of it that io.ReadFull has got
    got,        \* the frames ReadFrame has returned
    result      \* the error that ended the reader

writerVars == <<written, pos, closed>>
readerVars == <<part, need, have, got, result>>
vars == <<writerVars, stream, arrived, readerVars>>

\* Byte k of frame i, whose body has n bytes.
Byte(i, k, n) == [frame |-> i, at |-> k, size |-> n]
Body(i, n) == [k \in 1 .. n |-> Byte(i, HdrLen + k, n)]

Init ==
    /\ written = << >> /\ pos = 0 /\ closed = FALSE
    /\ stream = << >> /\ arrived = 0
    /\ part = "prefix" /\ need = HdrLen /\ have = << >>
    /\ got = << >> /\ result = "none"

-----------------------------------------------------------------------------
(* The writer and the network.                                             *)

\* A Write may be cut off anywhere, so every byte is a step.
WriteByte(n) ==
    /\ ~closed
    /\ \/ pos = 0 /\ Len(written) < MaxFrames /\ written' = Append(written, n)
       \/ pos > 0 /\ n = written[Len(written)] /\ UNCHANGED written
    /\ pos' = IF pos + 1 = HdrLen + n THEN 0 ELSE pos + 1
    /\ stream' = Append(stream, Byte(Len(written'), pos + 1, n))
    /\ UNCHANGED <<closed, arrived, readerVars>>

Close ==
    /\ ~closed
    /\ closed' = TRUE
    /\ UNCHANGED <<written, pos, stream, arrived, readerVars>>

Deliver ==
    /\ arrived < Len(stream)
    /\ arrived' = arrived + 1
    /\ UNCHANGED <<writerVars, stream, readerVars>>

-----------------------------------------------------------------------------
(* The reader: ReadFrame in a loop.                                        *)

Reading == result = "none"

\* One Read inside io.ReadFull, which asks for what is still missing.
Read ==
    LET k == Min({arrived, need - Len(have)})
    IN  /\ Reading
        /\ k > 0
        /\ have' = have \o SubSeq(stream, 1, k)
        /\ stream' = SubSeq(stream, k + 1, Len(stream))
        /\ arrived' = arrived - k
        /\ UNCHANGED <<writerVars, part, need, got, result>>

\* A plausible slip: one Read is taken for a whole part.
OneReadIsEnough == have # << >>

\* io.ReadFull has filled its buffer.
ReadFull == Len(have) = need

\* binary.BigEndian.Uint32(hdr[:]).
DecodedSize == have[Len(have)].size

\* A plausible slip: no limit on what a peer announces.
AnySizeAccepted(n) == n # 0

\* The checks on the decoded size.
SizeAccepted(n) == n # 0 /\ n <= MaxFrameSize

ReadPrefix ==
    /\ Reading /\ part = "prefix" /\ ReadFull
    /\ have' = << >>
    /\ \/ /\ SizeAccepted(DecodedSize)
          /\ part' = "body" /\ need' = DecodedSize
          /\ UNCHANGED result
       \/ /\ ~SizeAccepted(DecodedSize)
          /\ result' = IF DecodedSize = 0 THEN "zeroLength" ELSE "tooLarge"
          /\ UNCHANGED <<part, need>>
    /\ UNCHANGED <<writerVars, stream, arrived, got>>

\* The frame is returned.
ReadBody ==
    /\ Reading /\ part = "body" /\ ReadFull
    /\ got' = Append(got, have)
    /\ part' = "prefix" /\ need' = HdrLen /\ have' = << >>
    /\ UNCHANGED <<writerVars, stream, arrived, result>>

\* A plausible slip: any end of the stream counts as a clean one.
EveryEndIsClean == "EOF"

\* io.ReadFull at the end of the stream; ReadFrame wraps the error, which
\* errors.Is still sees through.
EndOfStream == IF have = << >> THEN "EOF" ELSE "unexpectedEOF"

ReadEnd ==
    /\ Reading /\ ~ReadFull
    /\ closed /\ stream = << >>
    /\ result' = EndOfStream
    /\ UNCHANGED <<writerVars, stream, arrived, part, need, have, got>>

\* The deadline of the read passes, or the connection is reset.
ReadError ==
    /\ Reading
    /\ result' = "error"
    /\ UNCHANGED <<writerVars, stream, arrived, part, need, have, got>>

\* After an error the caller closes the connection.
Stopped == ~Reading /\ UNCHANGED vars

Next ==
    \/ \E n \in Size : WriteByte(n)
    \/ Close \/ Deliver
    \/ Read \/ ReadPrefix \/ ReadBody \/ ReadEnd \/ ReadError
    \/ Stopped

Spec == Init /\ [][Next]_vars

-----------------------------------------------------------------------------
(* Properties.                                                             *)

\* Types; no buffer is larger than MaxFrameSize, whatever a peer announces.
TypeOK ==
    /\ written \in Seq(Size) /\ pos \in Nat /\ closed \in BOOLEAN
    /\ arrived \in 0 .. Len(stream)
    /\ part \in {"prefix", "body"}
    /\ need \in 0 .. Max({HdrLen, MaxFrameSize})
    /\ Len(have) <= need
    /\ result \in {"none", "EOF", "unexpectedEOF", "zeroLength", "tooLarge", "error"}

\* The frames read are the frames written, whole and in order, however the
\* network cuts the stream into portions: ReadFrame never loses its place.
FramesIntact ==
    \A i \in 1 .. Len(got) : got[i] = Body(i, written[i])

\* "It returns io.EOF only when the underlying reader is at a clean message
\* boundary": the writer was not inside a frame (pos is 0 when the last one is
\* complete).  It does not hold: io.ReadFull of a body of which no byte arrives
\* fails with io.EOF too, ReadFrame wraps it, and errors.Is sees through that.
EOFOnlyAtBoundary == result = "EOF" => pos = 0

\* What io.EOF, which serve takes for the client's goodbye, does say: every
\* complete frame has been returned, and the stream ended between two frames or
\* between a length prefix and its body, never inside either of them.
CleanEndLosesNothing ==
    result = "EOF" => /\ Len(got) = IF pos = 0 THEN Len(written) ELSE Len(written) - 1
                      /\ pos \in {0, HdrLen}
=============================================================================
