------------------------------- MODULE Assuan -------------------------------
(***************************************************************************)
(* A client connection and a server session joined by their two streams.   *)
(* Neither side sees the other's variables: they share only the wire and   *)
(* the fact that an end has closed.                                        *)
(***************************************************************************)
EXTENDS Wire

CONSTANTS
    MaxCommands, ChunkBytes, SendSizes, MaxDataLines,
    ClientInquiryBytes,     \* the client's max_inquiry_bytes
    ServerInquiryBytes      \* the server's max_inquiry_bytes

ASSUME AssuanAssumption ==
    /\ {MaxCommands, ClientInquiryBytes, ServerInquiryBytes} \subseteq Nat
    /\ {ChunkBytes, MaxDataLines} \subseteq Nat \ {0}
    /\ SendSizes \subseteq Nat
    /\ Names \subseteq {"NOP", "BYE", "HELP", "CALL", "UNKNOWN"}

VARIABLES
    \* the client
    cmachine, io_uncertain, cahead, cpartial, cexpired, owner, error, transaction,
    completion, cinquiry, cinquiry_expired, sent, total, crest, cname, cio, begun, cfinals,
    cbroken,
    \* the server
    smachine, sahead, spartial, at, sexpired, sname, final, authenticated, sio, srest,
    sinquiry, sinquiry_expired, outcome, received, reason, dispatched, sfinals, unanswered,
    sbroken

C == INSTANCE ClientSession WITH
        MaxInquiryBytes <- ClientInquiryBytes,
        machine <- cmachine, ahead <- cahead, partial <- cpartial, expired <- cexpired,
        inquiry <- cinquiry, inquiry_expired <- cinquiry_expired, rest <- crest,
        name <- cname, io <- cio, finals <- cfinals, broken <- cbroken

S == INSTANCE ServerSession WITH
        MaxInquiryBytes <- ServerInquiryBytes,
        machine <- smachine, ahead <- sahead, partial <- spartial, expired <- sexpired,
        inquiry <- sinquiry, inquiry_expired <- sinquiry_expired, rest <- srest,
        name <- sname, io <- sio, finals <- sfinals, broken <- sbroken

\* What only one side changes.
clientOnly == <<cmachine, io_uncertain, cahead, cpartial, cexpired, owner, error,
                transaction, completion, cinquiry, cinquiry_expired, sent, total, crest,
                cname, cio, begun, cfinals, cbroken>>
serverOnly == <<smachine, sahead, spartial, at, sexpired, sname, final, authenticated,
                sio, srest, sinquiry, sinquiry_expired, outcome, received, reason,
                dispatched, sfinals, unanswered, sbroken>>
vars == <<wireVars, clientOnly, serverOnly>>

Init == WireInit /\ C!ClientInit /\ S!ServerInit

\* The application makes a call; or drops the future of one, or a guard.
ClientCalls ==
    \/ C!HandshakeNext \/ C!HandshakeFinish \/ C!TransactionNext
    \/ \E n \in Names : C!Command(n)
    \/ \E n \in SendSizes : C!Send(n)
    \/ \E k \in {"End", "Can"} : C!CompleteInquiry(k)
    \/ C!ReleaseTransaction
ClientAbandons ==
    \/ C!CancelRead \/ C!CancelWrite \/ C!DropInquiry \/ C!ForgetInquiry
    \/ C!ForgetTransaction \/ C!DropOwner
\* The runtime resumes a parked call with a line or a finished write.
ClientResumes ==
    \/ C!RejectLine \/ C!SkipEmptyLine \/ C!DeliverEvent \/ C!DrainLine
    \/ C!CommandWritten \/ C!DataWritten \/ C!CompletionWritten
ClientFaults ==
    \/ C!InquiryNewFails \/ C!ReadTimeout \/ C!ReadError
    \/ C!WriteTimeout \/ C!WriteError \/ C!ExpireCore \/ C!ExpireInquiry

ServerCalls ==
    \/ S!SendStatus \/ (\E n \in 1..MaxDataLines : S!SendData(n)) \/ S!Inquire
    \/ S!HelpComment \/ S!InquiryNext \/ S!FinishInquiry \/ S!Return
ServerAbandons ==
    \/ S!ContextWriteFails \/ S!InquiryReadFails \/ S!ReturnFails
    \/ S!ForgetInquiry \/ S!DropInquiry
ServerResumes ==
    \/ S!Run \/ S!HookEnds \/ S!SkipRequest \/ S!RefuseRequest \/ S!Dispatch \/ S!IdleEof
    \/ S!FinalWritten \/ S!ContextWritten \/ S!InquiryLine
ServerFaults ==
    \/ S!HookTimeout \/ S!Abort \/ S!Expire \/ S!ExpireInquiry \/ S!IdleTimeout
    \/ S!IdleError \/ S!HandlerTimeout \/ S!FinalTimeout \/ S!FinalError
    \/ S!InquiryReadTimeout

Client == ClientCalls \/ ClientAbandons \/ ClientResumes \/ ClientFaults \/ C!ReadEof
Server == ServerCalls \/ ServerAbandons \/ ServerResumes \/ ServerFaults

ByClient(A) == A /\ UNCHANGED serverOnly
ByServer(A) == A /\ UNCHANGED clientOnly

Next == ByClient(Client) \/ ByServer(Server)

Spec == Init /\ [][Next]_vars

(***************************************************************************)
(* The same system when nothing goes wrong: no deadline passes, no I/O     *)
(* fails, no application abandons a call.  Applications keep calling: they *)
(* read until the final response, complete their inquiries, and handlers   *)
(* return.                                                                 *)
(***************************************************************************)
CalmNext ==
    \/ ByClient(ClientCalls \/ ClientResumes)
    \/ ByServer(ServerCalls \/ ServerResumes)

CalmSpec ==
    /\ Init /\ [][CalmNext]_vars
    /\ WF_vars(ByClient(ClientResumes))
    /\ WF_vars(ByServer(ServerResumes))
    /\ WF_vars(ByClient(C!TransactionNext \/ C!HandshakeNext))
    /\ SF_vars(ByClient(C!CompleteInquiry("End")))
    /\ WF_vars(ByServer(S!InquiryNext))
    /\ WF_vars(ByServer(S!FinishInquiry))
    /\ SF_vars(ByServer(S!Return))

-----------------------------------------------------------------------------
ToClient == cahead \o s2c
ToServer == sahead \o c2s

(***************************************************************************)
(* A response reaches the operation it answers: whatever is still on its   *)
(* way to a client that can read it was sent for the client's current      *)
(* operation, and nothing at all is on its way to a usable client.         *)
(***************************************************************************)
ResponsesAreCurrent ==
    ~cbroken /\ copen =>
        /\ \A i \in DOMAIN ToClient : ToClient[i].op = begun
        /\ C!IsUsable => ToClient = <<>> /\ ~cpartial

(***************************************************************************)
(* The two pure machines fit: neither endpoint is ever sent a line it must *)
(* refuse, whatever the other's application drops, forgets or cancels.     *)
(***************************************************************************)
NoUnexpectedLine ==
    /\ cio \in C!Reading /\ Arrived(cahead, s2c) =>
          C!CM!Receive(cmachine, ToClient[1].kind).err \in {"none", "GreetingRejected"}
    /\ at = "idle" /\ Arrived(sahead, c2s) => ToServer[1].kind = "Command"
    /\ sio = "next" /\ Arrived(sahead, c2s) => ToServer[1].kind \in {"Data", "End", "Can"}

(***************************************************************************)
(* The endpoints never wait for each other: with nothing in flight, client *)
(* and server are not both parked in a read, nor both parked in a write.   *)
(* (A handler that forgets its guard may still write; it is excluded.)     *)
(***************************************************************************)
ServerReading == at = "idle" \/ sio = "next"
ServerWriting == at = "final" \/ sio \in S!Writing
NoMutualWait ==
    copen /\ sopen =>
        /\ ~(/\ cio \in C!Reading /\ ServerReading
             /\ ToClient = <<>> /\ ToServer = <<>>)
        /\ cio \in C!Writing /\ ServerWriting => unanswered

(***************************************************************************)
(* An inquiry completed by END delivers exactly the bytes the client's     *)
(* guard counted: no D line is lost, repeated or left behind.              *)
(***************************************************************************)
InquiryBytesArrive ==
    sio = "next" /\ Arrived(sahead, c2s) /\ ToServer[1].kind = "End" =>
        ToServer[1].len = received

(***************************************************************************)
(* The connection implements SerialCalls.  Issuing is begin_command,       *)
(* executing is the server's dispatch, answering is the client accepting a *)
(* command's final response.                                               *)
(***************************************************************************)
Live == owner # "dropped" /\ ~cbroken /\ cmachine.state \notin C!CM!Terminal
Answered == IF cfinals = 0 THEN 0 ELSE cfinals - 1

Serial == INSTANCE SerialCalls WITH
             issued <- begun, executed <- dispatched, answered <- Answered, live <- Live

ImplementsSerialCalls == Serial!Spec

(***************************************************************************)
(* Progress needs no timer: while both ends keep the connection, every     *)
(* command that was written is answered.                                   *)
(***************************************************************************)
CommandsAreAnswered ==
    transaction /\ completion = "Pending" ~> completion # "Pending" \/ ~copen \/ ~sopen
=============================================================================
