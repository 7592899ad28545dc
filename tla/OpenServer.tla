----------------------------- MODULE OpenServer -----------------------------
(***************************************************************************)
(* A server session against a peer that may send anything at any time,     *)
(* pipelined commands and stray inquiry lines included, may stop reading,  *)
(* and may hang up in the middle of a line.                                *)
(***************************************************************************)
EXTENDS ServerSession

CONSTANTS
    MaxCommands,    \* bound: commands the peer sends
    PeerKinds,      \* kinds of complete lines the peer sends
    PeerSizes       \* decoded lengths of its D lines

ASSUME PeerAssumption ==
    /\ MaxCommands \in Nat
    /\ PeerKinds \subseteq Outgoing
    /\ PeerSizes \subseteq Nat

PeerLine ==
    [kind : PeerKinds \cap {"Command"}, name : Names, len : {0}, op : {0}]
    \cup [kind : PeerKinds \cap {"Data"}, name : {"-"}, len : PeerSizes, op : {0}]
    \cup [kind : PeerKinds \ {"Command", "Data"}, name : {"-"}, len : {0}, op : {0}]

\* Commands sent and not yet dispatched.
Pipelined == SelectSeq(ahead \o c2s, LAMBDA line : line.kind = "Command")

\* After the server has closed, nothing the peer does can be observed.
PeerSends(line) ==
    /\ copen /\ sopen /\ Len(c2s) < C2SCap
    /\ line.kind = "Command" => dispatched + Len(Pipelined) < MaxCommands
    /\ c2s' = Append(c2s, line)
    /\ UNCHANGED <<serverVars, s2c, copen>>

PeerReads ==
    /\ copen /\ sopen /\ s2c # <<>>
    /\ s2c' = Tail(s2c)
    /\ UNCHANGED <<serverVars, c2s, copen>>

PeerCloses ==
    /\ copen /\ sopen /\ copen' = FALSE
    /\ c2s' \in {c2s} \cup
          IF Len(c2s) < C2SCap
          THEN {Append(c2s, [kind |-> "Fragment", name |-> "-", len |-> 0, op |-> 0])}
          ELSE {}
    /\ UNCHANGED <<serverVars, s2c>>

Init == WireInit /\ ServerInit

\* What hooks and handlers do, cancelling a parked call included.
ApplicationStep ==
    \/ SendStatus \/ (\E n \in 1..MaxDataLines : SendData(n)) \/ Inquire \/ HelpComment
    \/ InquiryNext \/ FinishInquiry \/ ForgetInquiry \/ DropInquiry
    \/ ContextWriteFails \/ InquiryReadFails
    \/ Return \/ ReturnFails

\* What the runtime and the session's own code do.
IdleRead == SkipRequest \/ RefuseRequest \/ Dispatch

SessionStep ==
    \/ Run \/ HookEnds \/ HookTimeout \/ Abort \/ Expire \/ ExpireInquiry
    \/ IdleRead \/ IdleEof \/ IdleTimeout \/ IdleError
    \/ HandlerTimeout \/ FinalWritten \/ FinalTimeout \/ FinalError
    \/ ContextWritten \/ InquiryLine \/ InquiryReadTimeout

Peer == PeerReads \/ PeerCloses \/ \E line \in PeerLine : PeerSends(line)

Next == ApplicationStep \/ SessionStep \/ Peer

Spec == Init /\ [][Next]_vars

\* Built-ins without an await return at their first poll.
BuiltinReturns == name \in {"NOP", "BYE", "UNKNOWN"} /\ Return

(***************************************************************************)
(* The runtime polls what is ready, and clocks advance.  Nothing is assumed*)
(* of the peer or of hooks and handlers.                                   *)
(***************************************************************************)
Fairness ==
    /\ WF_vars(Run) /\ WF_vars(Expire) /\ WF_vars(HookTimeout)
    /\ WF_vars(IdleRead) /\ WF_vars(IdleTimeout)
    /\ WF_vars(HandlerTimeout) /\ WF_vars(FinalTimeout) /\ WF_vars(BuiltinReturns)

FairSpec == Spec /\ Fairness

-----------------------------------------------------------------------------
(***************************************************************************)
(* Every accepted command gets exactly one final response, and the next is *)
(* read only when it has been written completely; the greeting likewise.   *)
(***************************************************************************)
OneFinalPerCommand ==
    /\ at = "idle" => finals = dispatched + 1
    /\ at \in Application \cup {"final"} => finals = dispatched
    /\ dispatched > 0 => authenticated

(***************************************************************************)
(* No final response, and no next command, while the client may still be   *)
(* answering an inquiry or after any context I/O has failed or been        *)
(* cancelled, even if the handler dropped or forgot the guard, or swallowed*)
(* the error and returns Ok; after such a failure no I/O starts either.    *)
(***************************************************************************)
FinalNeedsWholeContext ==
    /\ at \in {"final", "idle"} => ~unanswered /\ ~inquiry /\ ~broken
    /\ broken => io = "none"

(***************************************************************************)
(* The close hook runs only after the stream is closed, and is told Clean  *)
(* only when every accepted command was answered and nothing was cut.      *)
(***************************************************************************)
CleanMeansAnswered ==
    /\ at = "hook" => ~sopen /\ reason # "none"
    /\ reason = "Clean" => /\ authenticated /\ finals = dispatched + 1
                           /\ ~unanswered /\ ~broken

(***************************************************************************)
(* An inquiry never hands more than max_inquiry_bytes to the handler, and  *)
(* its guard can be finished exactly when END or CAN has been consumed.    *)
(***************************************************************************)
InquiryBounded ==
    inquiry /\ io = "none" /\ ~broken =>
        /\ received <= MaxInquiryBytes
        /\ machine.state = "Inquiry"
        /\ (outcome = "none") = unanswered

(***************************************************************************)
(* No phase lasts for ever: neither a handler that never returns, nor a    *)
(* peer that stops reading or sends only comments, can hold the session.   *)
(* Work gets back to the idle read or to the end, and the idle read ends.  *)
(***************************************************************************)
PhasesEnd ==
    /\ at \notin {"idle"} \cup Ended ~> at \in {"idle"} \cup Ended
    /\ at = "idle" ~> at # "idle"
=============================================================================
