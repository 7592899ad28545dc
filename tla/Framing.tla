------------------------------- MODULE Framing -------------------------------
(***************************************************************************)
(* The receiving half of a Channel at the level of bytes: LineBuffer       *)
(* (crates/assuan-protocol/src/frame.rs) fed from the read-ahead storage of*)
(* Channel::receive (crates/assuan-transport/src/channel.rs).  The stream  *)
(* hands out its bytes in pieces of any size; the peer has sent source and *)
(* then closed its end.  Wire!Receives is the line-level view of this.     *)
(***************************************************************************)
EXTENDS Naturals, Sequences, FiniteSets, Slices, Limits

CONSTANT
    MaxSource       \* bound: bytes the peer sends

ASSUME FramingAssumption == MaxLine \in Nat \ {0} /\ MaxSource \in Nat

Byte == {"x", "CR", "LF"}

VARIABLES
    source,         \* all the peer sends before EOF
    taken,          \* bytes the stream has handed out
    ahead,          \* the pending bytes of ahead
    storage,        \* LineBuffer: the bytes assembled so far
    ready,          \* LineBuffer.ready
    reading,        \* a read_line_or_eof future exists
    verdict,        \* how the latest read ended: "none", "Line", "Eof",
                    \* "LineTooLong", "UnexpectedEof", "Cancelled"
    start,          \* history: bytes of source before the line being assembled
    lines,          \* history: the lines returned
    discarded       \* history: some read ended early and wiped the buffers

bufferVars == <<storage, ready>>
frameVars == <<source, taken, ahead, bufferVars, reading, verdict, start, lines, discarded>>

FrameInit ==
    /\ source \in SeqUpTo(Byte, MaxSource)
    /\ taken = 0 /\ ahead = <<>>
    /\ storage = <<>> /\ ready = FALSE
    /\ reading = FALSE /\ verdict = "none"
    /\ start = 0 /\ lines = <<>> /\ discarded = FALSE

\* Position of the first LF of a sequence, 0 if it has none.
FirstLF(s) ==
    IF "LF" \in Range(s)
    THEN CHOOSE i \in DOMAIN s : s[i] = "LF" /\ \A j \in 1..(i - 1) : s[j] # "LF"
    ELSE 0

\* The content of an assembled line: without its LF and one CR before it.
Content(s) ==
    LET end == Len(s) - 1 IN
    SubSeq(s, 1, IF end > 0 /\ s[end] = "CR" THEN end - 1 ELSE end)

\* LineBuffer::clear
Clears == storage' = <<>> /\ ready' = FALSE

\* Operation's Drop on an incomplete read: Channel::clear.  It also resets the
\* failed flag that feed has just set, so no state between two calls has it.
Fails(why) ==
    /\ Clears
    /\ ahead' = <<>>
    /\ reading' = FALSE /\ verdict' = why
    /\ discarded' = TRUE
    /\ UNCHANGED <<source, start, lines>>

\* read_line_or_eof: the buffer is cleared for the next line.  Sessions never
\* read again after a failure (ClientSession, ServerSession) or after EOF.
StartRead ==
    /\ ~reading /\ ~discarded /\ verdict # "Eof"
    /\ Clears
    /\ reading' = TRUE
    /\ start' = start + Len(storage)
    /\ UNCHANGED <<source, taken, ahead, verdict, lines, discarded>>

\* How many of the bytes feed consumes before it stops with TooLong: the byte
\* that fills the storage without being a LF is the last.
RoomShort == MaxLine - 1 - Len(storage)    \* mutated: off by one
Room == MaxLine - Len(storage)

\* feed finds its LF: the line is returned, the other bytes stay ahead.
FeedCompletesAll ==    \* mutated: consumed ignored, the read-ahead is dropped
    LET lf == FirstLF(ahead) IN
    /\ reading /\ lf # 0 /\ lf <= Room
    /\ storage' = storage \o SubSeq(ahead, 1, lf)
    /\ ready' = TRUE
    /\ ahead' = <<>>
    /\ reading' = FALSE /\ verdict' = "Line"
    /\ lines' = Append(lines, Content(storage'))
    /\ UNCHANGED <<source, taken, start, discarded>>
FeedCompletes ==
    LET lf == FirstLF(ahead) IN
    /\ reading /\ lf # 0 /\ lf <= Room
    /\ storage' = storage \o SubSeq(ahead, 1, lf)
    /\ ready' = TRUE
    /\ ahead' = SubSeq(ahead, lf + 1, Len(ahead))
    /\ reading' = FALSE /\ verdict' = "Line"
    /\ lines' = Append(lines, Content(storage'))
    /\ UNCHANGED <<source, taken, start, discarded>>

\* feed consumes everything and wants more.
FeedContinues ==
    /\ reading /\ ahead # <<>>
    /\ FirstLF(ahead) = 0 /\ Len(ahead) < Room
    /\ storage' = storage \o ahead
    /\ ahead' = <<>>
    /\ UNCHANGED <<source, taken, ready, reading, verdict, start, lines, discarded>>

\* feed cannot fit a terminator any more: LineTooLong.
FeedFails ==
    LET lf == FirstLF(ahead) IN
    /\ reading
    /\ IF lf = 0 THEN Len(ahead) >= Room ELSE lf > Room
    /\ Fails("LineTooLong")
    /\ UNCHANGED taken

\* stream.read returns some of the bytes that are there.
Fill ==
    /\ reading /\ ahead = <<>>
    /\ \E k \in 1..MaxLine :
          /\ taken + k <= Len(source)
          /\ ahead' = SubSeq(source, taken + 1, taken + k)
          /\ taken' = taken + k
    /\ UNCHANGED <<source, bufferVars, reading, verdict, start, lines, discarded>>

\* stream.read returns nothing: finish_eof decides.
Eof ==
    /\ reading /\ ahead = <<>> /\ taken = Len(source)
    /\ \/ /\ storage # <<>> /\ ~ready
          /\ Fails("UnexpectedEof")
       \/ /\ storage = <<>> \/ ready
          /\ reading' = FALSE /\ verdict' = "Eof"
          /\ UNCHANGED <<source, ahead, bufferVars, start, lines, discarded>>
    /\ UNCHANGED taken

\* The future is dropped at its await, or its deadline passes there.
Cancel ==
    /\ reading /\ ahead = <<>>
    /\ Fails("Cancelled")
    /\ UNCHANGED taken

FrameNext ==
    \/ StartRead \/ FeedCompletes \/ FeedContinues \/ FeedFails
    \/ Fill \/ Eof \/ Cancel

FrameSpec == FrameInit /\ [][FrameNext]_frameVars

-----------------------------------------------------------------------------
(* Reference: the lines of a byte sequence, from the positions of its LFs. *)

LFs == {p \in DOMAIN source : source[p] = "LF"}
Previous(p) == LET before == {q \in LFs : q < p} IN
               IF before = {} THEN 0 ELSE CHOOSE q \in before : \A r \in before : r <= q
Stripped(s) == SubSeq(s, 1, Len(s) - IF ends_with(s, <<"CR", "LF">>) THEN 2 ELSE 1)
\* Where the i-th line ends.
LineEnd(i) == CHOOSE p \in LFs : Cardinality({q \in LFs : q <= p}) = i
Reference == [i \in 1..Cardinality(LFs) |->
                 Stripped(SubSeq(source, Previous(LineEnd(i)) + 1, LineEnd(i)))]

(***************************************************************************)
(* However the stream cuts its bytes into pieces, the lines returned are   *)
(* the lines sent, in order, without one missing, repeated or merged; and  *)
(* until a read fails, every byte taken from the stream is in a returned   *)
(* line, in the line being assembled, or in the read-ahead.                *)
(***************************************************************************)
LinesAreFaithful ==
    /\ starts_with(Reference, lines)
    /\ ~discarded => SubSeq(source, start + 1, taken) = storage \o ahead

(***************************************************************************)
(* A line is refused as too long exactly when its LF is not among its      *)
(* first MaxLine bytes, so that one of exactly MaxLine bytes is returned.  *)
(* EOF counts as clean only when the peer's last byte ended a line and all *)
(* lines have been returned.                                               *)
(***************************************************************************)
VerdictIsRight ==
    /\ verdict = "LineTooLong" =>
          /\ start + MaxLine <= Len(source)
          /\ \A p \in (start + 1)..(start + MaxLine) : source[p] # "LF"
    /\ Len(storage) <= MaxLine /\ (~ready => Len(storage) < MaxLine)
    /\ verdict = "Eof" => lines = Reference /\ (source # <<>> => last(source) = "LF")
    /\ verdict = "UnexpectedEof" => source # <<>> /\ last(source) # "LF"
=============================================================================
