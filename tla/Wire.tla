-------------------------------- MODULE Wire --------------------------------
(***************************************************************************)
(* The connection between a client and a server: one byte stream per       *)
(* direction, seen as the sequence of lines in it, and the receiving side  *)
(* of assuan-transport's Channel, which reads ahead of the line it returns.*)
(* Streams deliver in order and lose nothing; what can be lost is what a   *)
(* channel has already taken out of the stream when it wipes its buffers.  *)
(*                                                                         *)
(* The field op of a line is a history field: the number of the operation  *)
(* (0 is the greeting, n the n-th command) its sender was performing.  No  *)
(* guard of either endpoint reads it.                                      *)
(***************************************************************************)
EXTENDS Kinds, Naturals, Sequences

CONSTANTS
    C2SCap,     \* lines the stream to the server holds before its writer waits
    S2CCap,     \* and the stream to the client
    Names       \* command names, as far as the server tells them apart

ASSUME WireAssumption ==
    C2SCap \in Nat \ {0} /\ S2CCap \in Nat \ {0} /\ Names # {}

VARIABLES
    c2s,        \* lines on their way to the server
    s2c,        \* lines on their way to the client
    copen,      \* the client still owns its stream
    sopen       \* the server still owns its stream

wireVars == <<c2s, s2c, copen, sopen>>

\* A line from the server, and one from the client.  len is the number of
\* decoded bytes of a D line and, as history, of the whole inquiry in its END.
ServerLine == [kind : Incoming \cup {"Fragment"}, op : Nat]
ClientLine == [kind : Outgoing \cup {"Fragment"}, name : Names \cup {"-"},
               len : Nat, op : Nat]

WireTypeOK ==
    /\ c2s \in Seq(ClientLine)
    /\ s2c \in Seq(ServerLine)
    /\ copen \in BOOLEAN
    /\ sopen \in BOOLEAN

WireInit == c2s = <<>> /\ s2c = <<>> /\ copen = TRUE /\ sopen = TRUE

\* The first k lines of a stream are complete.
Complete(wire, k) == \A i \in 1..k : wire[i].kind # "Fragment"

(***************************************************************************)
(* What Channel::receive can end with: the line it returns and what is     *)
(* left in its read-ahead storage and in the stream.  A line already read  *)
(* ahead is returned without touching the stream.  Otherwise one stream    *)
(* read yields any number of the lines that have arrived, and possibly the *)
(* first bytes of the next one.                                            *)
(***************************************************************************)
Receives(ahead, partial, wire) ==
    IF ahead # <<>>
    THEN {[line |-> Head(ahead), ahead |-> Tail(ahead),
           partial |-> partial, wire |-> wire]}
    ELSE {[line |-> wire[1], ahead |-> SubSeq(wire, 2, k),
           partial |-> p /\ k < Len(wire), wire |-> SubSeq(wire, k + 1, Len(wire))] :
             k \in {j \in 1..Len(wire) : Complete(wire, j)}, p \in BOOLEAN}

\* A receive has a line to return without waiting for the peer.
Arrived(ahead, wire) == ahead # <<>> \/ (wire # <<>> /\ Complete(wire, 1))

(***************************************************************************)
(* What a writer leaves in the stream when its write ends early: nothing,  *)
(* a line cut short, or the whole line (only the flush was missing).       *)
(***************************************************************************)
Interrupted(wire, cap, line) ==
    {wire} \cup IF Len(wire) < cap
                THEN {Append(wire, line), Append(wire, [line EXCEPT !.kind = "Fragment"])}
                ELSE {}
=============================================================================
