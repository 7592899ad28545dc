----------------------------- MODULE OpenClient -----------------------------
(***************************************************************************)
(* A client connection against a peer that may send anything: any sequence *)
(* of complete lines, whole or cut short, at any time, and may stop reading*)
(* or hang up.  What holds here holds without any trust in the server.     *)
(***************************************************************************)
EXTENDS ClientSession

CONSTANT PeerKinds      \* kinds of complete lines the peer sends

ASSUME PeerAssumption == PeerKinds \subseteq Incoming

\* After the client has closed, nothing the peer does can be observed.
PeerSends(k) ==
    /\ sopen /\ copen /\ Len(s2c) < S2CCap
    /\ s2c' = Append(s2c, [kind |-> k, op |-> 0])
    /\ UNCHANGED <<clientVars, c2s, sopen>>

PeerReads ==
    /\ sopen /\ copen /\ c2s # <<>>
    /\ c2s' = Tail(c2s)
    /\ UNCHANGED <<clientVars, s2c, sopen>>

\* The peer hangs up, in the middle of a line or not.
PeerCloses ==
    /\ sopen /\ copen /\ sopen' = FALSE
    /\ s2c' \in {s2c} \cup
          IF Len(s2c) < S2CCap THEN {Append(s2c, [kind |-> "Fragment", op |-> 0])} ELSE {}
    /\ UNCHANGED <<clientVars, c2s>>

\* A read resumed with a line.
ReadLine == RejectLine \/ SkipEmptyLine \/ DeliverEvent \/ InquiryNewFails \/ DrainLine

Init == WireInit /\ ClientInit

\* What the application does.
Calls ==
    \/ HandshakeNext \/ HandshakeFinish
    \/ TransactionNext
    \/ \E n \in Names : Command(n)
    \/ \E n \in SendSizes : Send(n)
    \/ \E k \in {"End", "Can"} : CompleteInquiry(k)
    \/ CancelRead \/ CancelWrite
    \/ DropInquiry \/ ForgetInquiry
    \/ ReleaseTransaction \/ ForgetTransaction
    \/ DropOwner

\* What the runtime does: it resumes parked calls, and time passes.
Resumes ==
    \/ ReadLine \/ ReadTimeout \/ ReadEof \/ ReadError
    \/ CommandWritten \/ DataWritten \/ CompletionWritten
    \/ WriteTimeout \/ WriteError
    \/ ExpireCore \/ ExpireInquiry

Peer == PeerReads \/ PeerCloses \/ \E k \in PeerKinds : PeerSends(k)

Next == Calls \/ Resumes \/ Peer

Spec == Init /\ [][Next]_vars

(***************************************************************************)
(* The runtime polls a future whose line has been read ahead or whose timer*)
(* has fired, and clocks advance.  Nothing is assumed of the peer.         *)
(***************************************************************************)
Fairness ==
    /\ WF_vars(ReadLine)
    /\ WF_vars(ReadTimeout)
    /\ WF_vars(WriteTimeout)
    /\ WF_vars(ExpireCore)

FairSpec == Spec /\ Fairness

-----------------------------------------------------------------------------
(***************************************************************************)
(* Once a read or write has ended without completing (error, timeout, or a *)
(* future dropped at its await), no later call starts I/O on the connection*)
(* again and the client never reports itself usable: IoGuard and check.    *)
(***************************************************************************)
BrokenIoIsFinal == broken => io = "none" /\ ~IsUsable

(***************************************************************************)
(* Responses are matched to operations by count.  A usable client has had  *)
(* one final response per operation; a guard that knows its completion got *)
(* the latest one; a call reading for its response is still owed exactly   *)
(* that response.  Forgotten and dropped guards included.                  *)
(***************************************************************************)
OneFinalPerOperation ==
    /\ IsUsable => finals = begun + 1
    /\ (transaction \/ owner = "handshake") /\ completion # "Pending" =>
          finals = begun + 1
    /\ io = "next" => finals = begun

(***************************************************************************)
(* A command is written only after every line already read ahead, even the *)
(* first bytes of one, has been validated against Ready (command_with).    *)
(***************************************************************************)
ReadAheadDrained == io = "command" => ~HasBufferedInput

(***************************************************************************)
(* inquiry_origin is never left over from an earlier inquiry: in an inquiry*)
(* or after its cancellation it tells the greeting from a command.         *)
(***************************************************************************)
OriginIsCurrent ==
    machine.state \in {"Inquiry", "AwaitFinal"} =>
        IF owner = "handshake" THEN machine.origin = "Greeting"
        ELSE owner = "client" => machine.origin = "Command"

(***************************************************************************)
(* A refused greeting never becomes a client: a handshake does not complete*)
(* with Remote, and a client exists only after a successful greeting.      *)
(***************************************************************************)
RejectedGreetingIsFinal ==
    /\ owner = "handshake" => completion # "Remote"
    /\ owner = "client" => finals > 0 /\ machine.state # "Greeting"

(***************************************************************************)
(* A live inquiry guard that passes its check can always be answered, and  *)
(* what it has put on the wire stays within max_inquiry_bytes.             *)
(***************************************************************************)
InquiryWithinBudget ==
    inquiry /\ io \in {"data", "End", "Can"} =>
        /\ machine.state = "Inquiry"
        /\ sent <= total /\ rest <= total - sent
        /\ total <= MaxInquiryBytes

(***************************************************************************)
(* Every call returns: a peer that stops reading, never answers, or floods *)
(* the client with empty lines cannot hold a call past its deadline.       *)
(***************************************************************************)
CallsReturn == io # "none" ~> io = "none"
=============================================================================
