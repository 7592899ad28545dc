------------------------------ MODULE DataLines ------------------------------
(***************************************************************************)
(* How a payload of any length travels in D lines: the sender's loop over  *)
(* encode_data_chunk (crates/assuan-protocol/src/encode.rs, as called by   *)
(* Inquiry::send and CommandContext::send_data) and the receiver's         *)
(* decode_data_in_place (escape.rs), which overwrites the buffer it reads. *)
(***************************************************************************)
EXTENDS Integers, Sequences, FiniteSets, Slices, Limits

CONSTANT
    MaxInput        \* bound: bytes of payload

ASSUME DataAssumption == MaxLine \in Nat /\ MaxLine >= 6 /\ MaxInput \in Nat

\* The bytes that must be escaped, with their two hex digits; and payload bytes
\* that need no escape, among them ones that look like hex digits.
Hex == [b \in {"%", "CR", "LF", "NUL"} |->
          CASE b = "%"  -> <<"2", "5">>
            [] b = "CR" -> <<"0", "D">>
            [] b = "LF" -> <<"0", "A">>
            [] OTHER    -> <<"0", "0">>]
PayloadByte == DOMAIN Hex \cup {"2", "5"}

VARIABLES
    input,          \* history: the payload
    rest,           \* what the sender has not yet encoded
    buffer,         \* the received line after its "D "
    read, written,  \* decode_data_in_place's cursors
    received,       \* history: what the receiver has been given
    turn            \* what goes on: "encode", "decode", "done"

dataVars == <<input, rest, buffer, read, written, received, turn>>

DataInit ==
    /\ input \in SeqUpTo(PayloadByte, MaxInput)
    /\ rest = input
    /\ buffer = <<>> /\ read = 0 /\ written = 0
    /\ received = <<>>
    /\ turn = "encode"

Cost(b) == IF b \in DOMAIN Hex THEN 3 ELSE 1
Escape(b) == IF b \in DOMAIN Hex THEN <<"%">> \o Hex[b] ELSE <<b>>

\* The loop stops at the first byte that would leave no room for the LF.
FitsFull(b) == 2 + Len(buffer) + Cost(b) <= MaxLine    \* mutated: no room kept
Fits(b) == 2 + Len(buffer) + Cost(b) < MaxLine

EncodeByte ==
    /\ turn = "encode" /\ rest # <<>> /\ Fits(Head(rest))
    /\ buffer' = buffer \o Escape(Head(rest))
    /\ rest' = Tail(rest)
    /\ UNCHANGED <<input, read, written, received, turn>>

\* The line goes out, and the other end decodes what follows its "D ".
EncodeEnds ==
    /\ turn = "encode" /\ (rest # <<>> => ~Fits(Head(rest)))
    /\ turn' = "decode"
    /\ UNCHANGED <<input, rest, buffer, read, written, received>>

\* One turn of the second loop: the decoded byte lands on an earlier position.
DecodeByte ==
    /\ turn = "decode" /\ read < Len(buffer)
    /\ IF buffer[read + 1] = "%"
       THEN /\ buffer' = [buffer EXCEPT ![written + 1] =
                 CHOOSE b \in DOMAIN Hex : Hex[b] = <<buffer[read + 2], buffer[read + 3]>>]
            /\ read' = read + 3
       ELSE /\ buffer' = [buffer EXCEPT ![written + 1] = buffer[read + 1]]
            /\ read' = read + 1
    /\ written' = written + 1
    /\ UNCHANGED <<input, rest, received, turn>>

\* The next chunk, if there is one, begins with an empty line.
DecodeEnds ==
    /\ turn = "decode" /\ read = Len(buffer)
    /\ received' = received \o SubSeq(buffer, 1, written)
    /\ buffer' = <<>> /\ read' = 0 /\ written' = 0
    /\ turn' = IF rest = <<>> THEN "done" ELSE "encode"
    /\ UNCHANGED <<input, rest>>

DataNext == EncodeByte \/ EncodeEnds \/ DecodeByte \/ DecodeEnds

DataSpec == DataInit /\ [][DataNext]_dataVars

-----------------------------------------------------------------------------
(* Reference: the escaped form of the payload's bytes from a + 1 to b. *)

\* How many bytes the first n of s take when escaped.
EscapedSize(s, n) == n + 2 * Cardinality({i \in 1..n : s[i] \in DOMAIN Hex})
IsEscaped(s, a, b) ==
    /\ Len(s) = EscapedSize(input, b) - EscapedSize(input, a)
    /\ \A j \in (a + 1)..b :
          SubSeq(s, EscapedSize(input, j - 1) - EscapedSize(input, a) + 1,
                    EscapedSize(input, j) - EscapedSize(input, a))
          = Escape(input[j])

(***************************************************************************)
(* The payload survives escaping, chunking and in-place decoding: at every *)
(* step what was received, what is already decoded, what is still escaped  *)
(* in the buffer and what is still to be sent add up to the payload.  A D  *)
(* line fits MaxLine, holds no raw CR, LF or NUL, never splits an escape,  *)
(* and is cut short of the payload only when it is full.                   *)
(***************************************************************************)
PayloadSurvives ==
    LET decoded == SubSeq(buffer, 1, written)
        gone == Len(received) + written
        sent == Len(input) - Len(rest) IN
    /\ received \o decoded = SubSeq(input, 1, gone)
    /\ IsEscaped(SubSeq(buffer, read + 1, Len(buffer)), gone, sent)
    /\ rest = SubSeq(input, sent + 1, Len(input))
    /\ turn = "done" => received = input
    /\ turn = "decode" /\ read = 0 =>
          /\ 2 + Len(buffer) + 1 <= MaxLine
          /\ \A i \in DOMAIN buffer : buffer[i] \notin {"CR", "LF", "NUL"}
          /\ rest # <<>> => 2 + Len(buffer) + Cost(Head(rest)) + 1 > MaxLine
=============================================================================
