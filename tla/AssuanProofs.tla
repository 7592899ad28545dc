---------------------------- MODULE AssuanProofs ----------------------------
(***************************************************************************)
(* Proofs about Assuan: client and server joined by their streams implement*)
(* SerialCalls and fit each other line by line, for every stream capacity, *)
(* number of commands and limit.                                           *)
(* Each end's own invariant and the effects of its steps are taken from    *)
(* ClientProofs and ServerProofs; to each of them the other end is one of  *)
(* the peers it was proved against.  SerialProofs has the argument.        *)
(***************************************************************************)
EXTENDS SerialProofs

CP == INSTANCE ClientProofs WITH
        MaxInquiryBytes <- ClientInquiryBytes, PeerKinds <- {},
        machine <- cmachine, ahead <- cahead, partial <- cpartial, expired <- cexpired,
        inquiry <- cinquiry, inquiry_expired <- cinquiry_expired, rest <- crest,
        name <- cname, io <- cio, finals <- cfinals, broken <- cbroken

SP == INSTANCE ServerProofs WITH
        MaxInquiryBytes <- ServerInquiryBytes, PeerKinds <- {}, PeerSizes <- {},
        machine <- smachine, ahead <- sahead, partial <- spartial, expired <- sexpired,
        inquiry <- sinquiry, inquiry_expired <- sinquiry_expired, rest <- srest,
        name <- sname, io <- sio, finals <- sfinals, broken <- sbroken
-----------------------------------------------------------------------------
(* The two ends *)

\* The assumptions the proofs about each end rest on.
LEMMA ClientAssumptions == CP!ClientAssumption /\ CP!WireAssumption /\ CP!PeerAssumption
BY AssuanAssumption, WireAssumption, Zenon
DEF CP!ClientAssumption, CP!WireAssumption, CP!PeerAssumption

\* And for the server.
LEMMA ServerAssumptions == SP!ServerAssumption /\ SP!WireAssumption /\ SP!PeerAssumption
BY AssuanAssumption, WireAssumption, Zenon
DEF SP!ServerAssumption, SP!WireAssumption, SP!PeerAssumption

\* C and CP, S and SP are instances of the same modules: they receive alike.
LEMMA SameReceives ==
    \A a, p, w : /\ C!Receives(a, p, w) = CP!Receives(a, p, w)
                 /\ S!Receives(a, p, w) = SP!Receives(a, p, w)
                 /\ Receives(a, p, w) = CP!Receives(a, p, w)
                 /\ Receives(a, p, w) = SP!Receives(a, p, w)
BY DEF Receives, C!Receives, CP!Receives, S!Receives, SP!Receives, Complete, C!Complete,
    CP!Complete, S!Complete, SP!Complete

\* Their machines accept alike.
LEMMA SameReceive == \A m, e : C!CM!Receive(m, e) = CP!CM!Receive(m, e)
BY Zenon DEF
    C!CM!Receive, CP!CM!Receive, C!CM!Terminal, CP!CM!Terminal, C!CM!Keeps, CP!CM!Keeps,
    C!CM!Ignored, CP!CM!Ignored, C!CM!StartsInquiry, CP!CM!StartsInquiry, C!CM!Goes,
    CP!CM!Goes, C!CM!Rejects, CP!CM!Rejects, C!CM!FinalAfterCancel, CP!CM!FinalAfterCancel,
    C!CM!Invalidate, CP!CM!Invalidate

\* A step of the client here is one of the steps ClientProofs is about.
LEMMA ClientSteps ==
    ASSUME Client
    PROVE  CP!Calls \/ CP!Resumes
<1>1.
      /\ C!HandshakeNext => CP!HandshakeNext
      /\ C!HandshakeFinish => CP!HandshakeFinish
      /\ C!TransactionNext => CP!TransactionNext
  BY Zenon DEF
    C!HandshakeNext, CP!HandshakeNext, C!HandshakeFinish, CP!HandshakeFinish,
    C!TransactionNext, CP!TransactionNext, C!Invalidates, CP!Invalidates, C!NextEvent,
    CP!NextEvent, C!inquiryVars, CP!inquiryVars, C!Unusable, CP!Unusable, C!coreVars,
    CP!coreVars, C!histVars, CP!histVars, C!guardVars, CP!guardVars, C!CM!Invalidate,
    CP!CM!Invalidate, C!StartsIo, CP!StartsIo, C!CM!Terminal, CP!CM!Terminal, C!channelVars,
    CP!channelVars, C!FailsIo, CP!FailsIo
<1>2.
      /\ \A n : C!Command(n) => CP!Command(n)
  BY Zenon DEF
    C!Command, CP!Command, C!AcceptsCommand, CP!AcceptsCommand, C!Invalidates,
    CP!Invalidates, C!HasBufferedInput, CP!HasBufferedInput, C!StartsIo, CP!StartsIo,
    C!WritesCommand, CP!WritesCommand, C!guardVars, CP!guardVars, C!inquiryVars,
    CP!inquiryVars, C!Unusable, CP!Unusable, C!CM!Invalidate, CP!CM!Invalidate, C!FailsIo,
    CP!FailsIo, C!channelVars, CP!channelVars, C!CM!BeginCommand, CP!CM!BeginCommand,
    C!CM!Terminal, CP!CM!Terminal, C!CM!Goes, CP!CM!Goes, C!CM!Keeps, CP!CM!Keeps
<1>3.
      /\ \A n : C!Send(n) => CP!Send(n)
      /\ \A n : C!CompleteInquiry(n) => CP!CompleteInquiry(n)
  BY Zenon DEF
    C!Send, CP!Send, C!CompleteInquiry, CP!CompleteInquiry, C!InquiryCheckFails,
    CP!InquiryCheckFails, C!Fits, CP!Fits, C!Invalidates, CP!Invalidates, C!StartsIo,
    CP!StartsIo, C!InquiryLate, CP!InquiryLate, C!guardVars, CP!guardVars, C!GuardGone,
    CP!GuardGone, C!inquiryVars, CP!inquiryVars, C!Unusable, CP!Unusable, C!CM!Invalidate,
    CP!CM!Invalidate, C!FailsIo, CP!FailsIo, C!channelVars, CP!channelVars, C!CM!Terminal,
    CP!CM!Terminal
<1>4.
      /\ C!ReleaseTransaction => CP!ReleaseTransaction
      /\ C!ForgetTransaction => CP!ForgetTransaction
      /\ C!DropOwner => CP!DropOwner
      /\ C!DropInquiry => CP!DropInquiry
      /\ C!ForgetInquiry => CP!ForgetInquiry
      /\ C!ExpireCore => CP!ExpireCore
      /\ C!ExpireInquiry => CP!ExpireInquiry
  BY Zenon DEF
    C!ReleaseTransaction, CP!ReleaseTransaction, C!ForgetTransaction, CP!ForgetTransaction,
    C!DropOwner, CP!DropOwner, C!DropInquiry, CP!DropInquiry, C!ForgetInquiry,
    CP!ForgetInquiry, C!ExpireCore, CP!ExpireCore, C!ExpireInquiry, CP!ExpireInquiry,
    C!IsUsable, CP!IsUsable, C!channelVars, CP!channelVars, C!Invalidates, CP!Invalidates,
    C!inquiryVars, CP!inquiryVars, C!histVars, CP!histVars, C!coreVars, CP!coreVars,
    C!GuardGone, CP!GuardGone, C!guardVars, CP!guardVars, C!CM!Invalidate, CP!CM!Invalidate
<1>5.
      /\ C!RejectLine => CP!RejectLine
      /\ C!SkipEmptyLine => CP!SkipEmptyLine
  BY SameReceives, SameReceive, Zenon DEF
    C!RejectLine, CP!RejectLine, C!SkipEmptyLine, CP!SkipEmptyLine, C!Reading, CP!Reading,
    C!Refused, CP!Refused, C!FailsIo, CP!FailsIo, C!guardVars, CP!guardVars, C!inquiryVars,
    CP!inquiryVars, C!ReadsOn, CP!ReadsOn, C!Invalidates, CP!Invalidates, C!CM!Invalidate,
    CP!CM!Invalidate
<1>6.
      /\ C!DeliverEvent => CP!DeliverEvent
  BY SameReceives, SameReceive, Zenon DEF
    C!DeliverEvent, CP!DeliverEvent, C!Refused, CP!Refused, C!TakesEvent, CP!TakesEvent,
    C!inquiryVars, CP!inquiryVars, C!CM!Invalidate, CP!CM!Invalidate
<1>7.
      /\ C!InquiryNewFails => CP!InquiryNewFails
  BY SameReceives, SameReceive, Zenon DEF
    C!InquiryNewFails, CP!InquiryNewFails, C!Refused, CP!Refused, C!CM!Invalidate,
    CP!CM!Invalidate, C!guardVars, CP!guardVars, C!inquiryVars, CP!inquiryVars, C!histVars,
    CP!histVars
<1>8.
      /\ C!ReadTimeout => CP!ReadTimeout
      /\ C!ReadEof => CP!ReadEof
      /\ C!ReadError => CP!ReadError
      /\ C!CancelRead => CP!CancelRead
  BY Zenon DEF
    C!ReadTimeout, CP!ReadTimeout, C!ReadEof, CP!ReadEof, C!ReadError, CP!ReadError,
    C!CancelRead, CP!CancelRead, C!ReadFails, CP!ReadFails, C!Arrived, CP!Arrived,
    C!Reading, CP!Reading, C!guardVars, CP!guardVars, C!inquiryVars, CP!inquiryVars,
    C!FailsIo, CP!FailsIo, C!Complete, CP!Complete, C!Invalidates, CP!Invalidates,
    C!CM!Invalidate, CP!CM!Invalidate
<1>9.
      /\ C!CommandWritten => CP!CommandWritten
      /\ C!DataWritten => CP!DataWritten
      /\ C!CompletionWritten => CP!CompletionWritten
  BY Zenon DEF
    C!CommandWritten, CP!CommandWritten, C!DataWritten, CP!DataWritten, C!CompletionWritten,
    CP!CompletionWritten, C!Delivers, CP!Delivers, C!channelVars, CP!channelVars,
    C!inquiryVars, CP!inquiryVars, C!histVars, CP!histVars, C!Remaining, CP!Remaining,
    C!StartsIo, CP!StartsIo, C!InquiryLate, CP!InquiryLate, C!guardVars, CP!guardVars,
    C!CM!FinishInquiry, CP!CM!FinishInquiry, C!GuardGone, CP!GuardGone, C!Output, CP!Output,
    C!Chunk, CP!Chunk, C!FailsIo, CP!FailsIo, C!CM!Terminal, CP!CM!Terminal, C!CM!Keeps,
    CP!CM!Keeps, C!CM!Goes, CP!CM!Goes, C!Command, CP!Command, C!Invalidates,
    CP!Invalidates, C!AcceptsCommand, CP!AcceptsCommand, C!HasBufferedInput,
    CP!HasBufferedInput, C!WritesCommand, CP!WritesCommand, C!CM!Invalidate,
    CP!CM!Invalidate, C!Unusable, CP!Unusable, C!CM!BeginCommand, CP!CM!BeginCommand
<1>10.
      /\ C!WriteTimeout => CP!WriteTimeout
      /\ C!WriteError => CP!WriteError
      /\ C!CancelWrite => CP!CancelWrite
  BY Zenon DEF
    C!WriteTimeout, CP!WriteTimeout, C!WriteError, CP!WriteError, C!CancelWrite,
    CP!CancelWrite, C!Late, CP!Late, C!WriteFails, CP!WriteFails, C!Writing, CP!Writing,
    C!Interrupted, CP!Interrupted, C!Output, CP!Output, C!Invalidates, CP!Invalidates,
    C!GuardGone, CP!GuardGone, C!inquiryVars, CP!inquiryVars, C!InquiryLate, CP!InquiryLate,
    C!FailsIo, CP!FailsIo, C!Command, CP!Command, C!Chunk, CP!Chunk, C!CM!Invalidate,
    CP!CM!Invalidate, C!AcceptsCommand, CP!AcceptsCommand, C!HasBufferedInput,
    CP!HasBufferedInput, C!StartsIo, CP!StartsIo, C!WritesCommand, CP!WritesCommand,
    C!guardVars, CP!guardVars, C!Unusable, CP!Unusable, C!channelVars, CP!channelVars,
    C!CM!BeginCommand, CP!CM!BeginCommand, C!CM!Terminal, CP!CM!Terminal, C!CM!Goes,
    CP!CM!Goes, C!CM!Keeps, CP!CM!Keeps
<1>11. C!DrainLine => CP!DrainLine
  <2>1. \A r : C!ReadsOn(r) <=> CP!ReadsOn(r)
    BY Zenon DEF C!ReadsOn, CP!ReadsOn, C!FailsIo, CP!FailsIo, C!Invalidates, CP!Invalidates,
        C!CM!Invalidate, CP!CM!Invalidate, C!channelVars, CP!channelVars
  <2>2. \A late, a, p : C!WritesCommand(late, a, p) <=> CP!WritesCommand(late, a, p)
    BY Zenon DEF C!WritesCommand, CP!WritesCommand, C!FailsIo, CP!FailsIo, C!Invalidates,
        CP!Invalidates, C!CM!Invalidate, CP!CM!Invalidate, C!CM!BeginCommand,
        CP!CM!BeginCommand, C!CM!Goes, CP!CM!Goes, C!CM!Keeps, CP!CM!Keeps, C!CM!Terminal,
        CP!CM!Terminal
  <2> QED BY <2>1, <2>2, SameReceives, SameReceive, Zenon
    DEF C!DrainLine, CP!DrainLine, C!Refused, CP!Refused, C!guardVars, CP!guardVars,
        C!inquiryVars, CP!inquiryVars
<1> QED
  BY <1>1, <1>2, <1>3, <1>4, <1>5, <1>6, <1>7, <1>8, <1>9, <1>10, <1>11, Zenon
  DEF Client, ClientCalls, ClientAbandons, ClientResumes, ClientFaults, CP!Calls, CP!Resumes,
      CP!ReadLine

\* A step of the server here is one of the steps ServerProofs is about.
LEMMA ServerSteps ==
    ASSUME Server
    PROVE  SP!ApplicationStep \/ SP!SessionStep
<1>1.
      /\ S!Run => SP!Run
      /\ S!HookEnds => SP!HookEnds
      /\ S!HookTimeout => SP!HookTimeout
      /\ S!Abort => SP!Abort
      /\ S!Expire => SP!Expire
      /\ S!ExpireInquiry => SP!ExpireInquiry
  BY Zenon DEF
    S!Run, SP!Run, S!HookEnds, SP!HookEnds, S!HookTimeout, SP!HookTimeout, S!Abort,
    SP!Abort, S!Expire, SP!Expire, S!ExpireInquiry, SP!ExpireInquiry, S!channelVars,
    SP!channelVars, S!Closes, SP!Closes, S!localVars, SP!localVars, S!histVars, SP!histVars,
    S!Ended, SP!Ended, S!Cut, SP!Cut, S!OutputKind, SP!OutputKind, S!LocalsGone,
    SP!LocalsGone, S!Running, SP!Running, S!Inquire, SP!Inquire, S!inquiryVars,
    SP!inquiryVars, S!Interrupted, SP!Interrupted, S!Response, SP!Response, S!Writing,
    SP!Writing, S!GuardGone, SP!GuardGone, S!Application, SP!Application, S!HasContext,
    SP!HasContext, S!StartsWrite, SP!StartsWrite, S!SM!SendResponse, SP!SM!SendResponse,
    S!FailsIo, SP!FailsIo, S!SM!Terminal, SP!SM!Terminal, S!SM!Keeps, SP!SM!Keeps,
    S!SM!Ignored, SP!SM!Ignored, S!SM!Goes, SP!SM!Goes, S!SM!Rejects, SP!SM!Rejects,
    S!Invalidates, SP!Invalidates, S!SM!Invalidate, SP!SM!Invalidate
<1>2.
      /\ S!SkipRequest => SP!SkipRequest
      /\ S!RefuseRequest => SP!RefuseRequest
  BY SameReceives, Zenon DEF
    S!SkipRequest, SP!SkipRequest, S!RefuseRequest, SP!RefuseRequest, S!IdleContinues,
    SP!IdleContinues, S!histVars, SP!histVars, S!SM!ReceiveRequest, SP!SM!ReceiveRequest,
    S!Ends, SP!Ends, S!localVars, SP!localVars, S!SM!Terminal, SP!SM!Terminal, S!SM!Keeps,
    SP!SM!Keeps, S!SM!Goes, SP!SM!Goes, S!SM!Rejects, SP!SM!Rejects, S!SM!Close,
    SP!SM!Close, S!Closes, SP!Closes, S!LocalsGone, SP!LocalsGone, S!inquiryVars,
    SP!inquiryVars, S!SM!Invalidate, SP!SM!Invalidate, S!GuardGone, SP!GuardGone
<1>3.
      /\ S!Dispatch => SP!Dispatch
  BY SameReceives, Zenon DEF
    S!Dispatch, SP!Dispatch, S!SM!ReceiveRequest, SP!SM!ReceiveRequest, S!inquiryVars,
    SP!inquiryVars, S!SM!Terminal, SP!SM!Terminal, S!SM!Keeps, SP!SM!Keeps, S!SM!Goes,
    SP!SM!Goes, S!SM!Rejects, SP!SM!Rejects, S!SM!Invalidate, SP!SM!Invalidate
<1>4.
      /\ S!IdleEof => SP!IdleEof
      /\ S!IdleTimeout => SP!IdleTimeout
      /\ S!IdleError => SP!IdleError
  BY Zenon DEF
    S!IdleEof, SP!IdleEof, S!IdleTimeout, SP!IdleTimeout, S!IdleError, SP!IdleError,
    S!Arrived, SP!Arrived, S!IdleStops, SP!IdleStops, S!Complete, SP!Complete, S!Ends,
    SP!Ends, S!histVars, SP!histVars, S!SM!Close, SP!SM!Close, S!Closes, SP!Closes,
    S!LocalsGone, SP!LocalsGone, S!GuardGone, SP!GuardGone
<1>5.
      /\ S!Return => SP!Return
      /\ S!ReturnFails => SP!ReturnFails
      /\ S!HandlerTimeout => SP!HandlerTimeout
  BY Zenon DEF
    S!Return, SP!Return, S!ReturnFails, SP!ReturnFails, S!HandlerTimeout, SP!HandlerTimeout,
    S!Application, SP!Application, S!Returns, SP!Returns, S!Ends, SP!Ends,
    S!SM!SendResponse, SP!SM!SendResponse, S!channelVars, SP!channelVars, S!inquiryVars,
    SP!inquiryVars, S!histVars, SP!histVars, S!SessionEnd, SP!SessionEnd, S!FinalizeFails,
    SP!FinalizeFails, S!Cut, SP!Cut, S!OutputKind, SP!OutputKind, S!SM!Close, SP!SM!Close,
    S!Closes, SP!Closes, S!LocalsGone, SP!LocalsGone, S!SM!Terminal, SP!SM!Terminal,
    S!SM!Keeps, SP!SM!Keeps, S!SM!Ignored, SP!SM!Ignored, S!SM!Goes, SP!SM!Goes,
    S!SM!Rejects, SP!SM!Rejects, S!Interrupted, SP!Interrupted, S!Response, SP!Response,
    S!Writing, SP!Writing, S!GuardGone, SP!GuardGone, S!SM!Invalidate, SP!SM!Invalidate,
    S!Inquire, SP!Inquire, S!HasContext, SP!HasContext, S!StartsWrite, SP!StartsWrite,
    S!FailsIo, SP!FailsIo, S!Invalidates, SP!Invalidates
<1>6.
      /\ S!FinalWritten => SP!FinalWritten
      /\ S!FinalTimeout => SP!FinalTimeout
      /\ S!FinalError => SP!FinalError
  BY Zenon DEF
    S!FinalWritten, SP!FinalWritten, S!FinalTimeout, SP!FinalTimeout, S!FinalError,
    SP!FinalError, S!Response, SP!Response, S!Ends, SP!Ends, S!LocalsGone, SP!LocalsGone,
    S!channelVars, SP!channelVars, S!FinalFails, SP!FinalFails, S!SM!Close, SP!SM!Close,
    S!Closes, SP!Closes, S!GuardGone, SP!GuardGone, S!Cut, SP!Cut, S!histVars, SP!histVars,
    S!Interrupted, SP!Interrupted
<1>7.
      /\ S!SendStatus => SP!SendStatus
      /\ \A n : S!SendData(n) => SP!SendData(n)
      /\ S!Inquire => SP!Inquire
      /\ S!HelpComment => SP!HelpComment
  BY Zenon DEF
    S!SendStatus, SP!SendStatus, S!SendData, SP!SendData, S!Inquire, SP!Inquire,
    S!HelpComment, SP!HelpComment, S!HasContext, SP!HasContext, S!StartsWrite,
    SP!StartsWrite, S!inquiryVars, SP!inquiryVars, S!Application, SP!Application,
    S!SM!SendResponse, SP!SM!SendResponse, S!FailsIo, SP!FailsIo, S!channelVars,
    SP!channelVars, S!SM!Terminal, SP!SM!Terminal, S!SM!Keeps, SP!SM!Keeps, S!SM!Ignored,
    SP!SM!Ignored, S!SM!Goes, SP!SM!Goes, S!SM!Rejects, SP!SM!Rejects, S!Invalidates,
    SP!Invalidates, S!SM!Invalidate, SP!SM!Invalidate, S!Closes, SP!Closes
<1>8.
      /\ S!ContextWritten => SP!ContextWritten
      /\ S!ContextWriteFails => SP!ContextWriteFails
  BY Zenon DEF
    S!ContextWritten, SP!ContextWritten, S!ContextWriteFails, SP!ContextWriteFails,
    S!Writing, SP!Writing, S!Response, SP!Response, S!Inquire, SP!Inquire, S!FailsIo,
    SP!FailsIo, S!channelVars, SP!channelVars, S!Interrupted, SP!Interrupted, S!inquiryVars,
    SP!inquiryVars, S!HasContext, SP!HasContext, S!StartsWrite, SP!StartsWrite,
    S!Invalidates, SP!Invalidates, S!Application, SP!Application, S!SM!SendResponse,
    SP!SM!SendResponse, S!SM!Invalidate, SP!SM!Invalidate, S!Closes, SP!Closes,
    S!SM!Terminal, SP!SM!Terminal, S!SM!Keeps, SP!SM!Keeps, S!SM!Ignored, SP!SM!Ignored,
    S!SM!Goes, SP!SM!Goes, S!SM!Rejects, SP!SM!Rejects
<1>9.
      /\ S!InquiryNext => SP!InquiryNext
      /\ S!FinishInquiry => SP!FinishInquiry
      /\ S!ForgetInquiry => SP!ForgetInquiry
      /\ S!DropInquiry => SP!DropInquiry
  BY Zenon DEF
    S!InquiryNext, SP!InquiryNext, S!FinishInquiry, SP!FinishInquiry, S!ForgetInquiry,
    SP!ForgetInquiry, S!DropInquiry, SP!DropInquiry, S!HasContext, SP!HasContext,
    S!InquiryLate, SP!InquiryLate, S!FailsIo, SP!FailsIo, S!channelVars, SP!channelVars,
    S!inquiryVars, SP!inquiryVars, S!GuardGone, SP!GuardGone, S!SM!ReceiveRequest,
    SP!SM!ReceiveRequest, S!Invalidates, SP!Invalidates, S!histVars, SP!histVars,
    S!Application, SP!Application, S!SM!Terminal, SP!SM!Terminal, S!SM!Keeps, SP!SM!Keeps,
    S!SM!Goes, SP!SM!Goes, S!SM!Rejects, SP!SM!Rejects, S!SM!Invalidate, SP!SM!Invalidate,
    S!Closes, SP!Closes
<1>10.
      /\ S!InquiryLine => SP!InquiryLine
  BY SameReceives, Zenon DEF
    S!InquiryLine, SP!InquiryLine, S!InquiryAnswered, SP!InquiryAnswered, S!InquiryData,
    SP!InquiryData, S!InquirySkips, SP!InquirySkips, S!InquiryRefuses, SP!InquiryRefuses,
    S!Fits, SP!Fits, S!FailsIo, SP!FailsIo, S!Skippable, SP!Skippable, S!InquiryLate,
    SP!InquiryLate, S!Invalidates, SP!Invalidates, S!SM!Invalidate, SP!SM!Invalidate,
    S!Closes, SP!Closes
<1>11.
      /\ S!InquiryReadFails => SP!InquiryReadFails
      /\ S!InquiryReadTimeout => SP!InquiryReadTimeout
  BY Zenon DEF
    S!InquiryReadFails, SP!InquiryReadFails, S!InquiryReadTimeout, SP!InquiryReadTimeout,
    S!FailsIo, SP!FailsIo, S!inquiryVars, SP!inquiryVars, S!InquiryLate, SP!InquiryLate,
    S!Invalidates, SP!Invalidates, S!SM!Invalidate, SP!SM!Invalidate, S!Closes, SP!Closes
<1> QED
  BY <1>1, <1>2, <1>3, <1>4, <1>5, <1>6, <1>7, <1>8, <1>9, <1>10, <1>11, Zenon
  DEF Server, ServerCalls, ServerAbandons, ServerResumes, ServerFaults, SP!ApplicationStep,
      SP!SessionStep, SP!IdleRead
-----------------------------------------------------------------------------
(* The invariant *)

IInv == CP!IInv /\ SP!IInv /\ SP!SpeakInv /\ JointInv /\ FitInv

\* The two ends' invariants give what SerialProofs asks of them.
LEMMA EndsHold ==
    ASSUME CP!IInv, SP!IInv, SP!SpeakInv
    PROVE  Ends
<1>1. CP!ServerLine = ServerLine /\ SP!ClientLine = ClientLine /\ CP!ClientLine = ClientLine
  BY Zenon DEF CP!ServerLine, ServerLine, CP!ClientLine, SP!ClientLine, ClientLine, CP!Outgoing,
      SP!Outgoing, Outgoing, CP!Incoming, Incoming, CP!RequestKind, SP!RequestKind,
      RequestKind, CP!LineKind, LineKind
<1>2. /\ cahead \in Seq(ServerLine) /\ s2c \in Seq(ServerLine)
      /\ begun \in Nat /\ cfinals \in Nat
  BY <1>1, Zenon DEF CP!IInv, CP!TypeOK, CP!WireTypeOK
<1>3. sahead \in Seq(ClientLine) /\ c2s \in Seq(ClientLine) /\ dispatched \in Nat
  BY <1>1, Zenon DEF SP!IInv, SP!TypeOK, SP!WireTypeOK
<1>4. Live => cfinals = IF cmachine.state = "Ready" THEN begun + 1 ELSE begun
  BY Zenon
  DEF Live, C!CM!Terminal, CP!IInv, CP!CountInv, CP!TypeOK, CP!CM!Machine, CP!CM!ClientState
<1>5. cio \in C!Writing => C!Output \in ClientLine
  <2>1. C!Writing = CP!Writing /\ C!Output = CP!Output
    BY Zenon DEF C!Writing, CP!Writing, C!Output, CP!Output, C!Chunk, CP!Chunk
  <2>2. cio \in CP!Writing => CP!Output \in CP!ClientLine
    BY CP!OutputType, ClientAssumptions, Zenon DEF CP!IInv
  <2> QED BY <1>1, <2>1, <2>2, Zenon
<1>6. ClientParked
  <2>1. cio # "none" => Live
    BY Zenon DEF CP!IInv, CP!TypeOK, CP!ParkedInv, CP!OwnerInv, Live, C!CM!Terminal, CP!Reading,
        CP!Writing
  <2> QED BY <2>1, Zenon DEF ClientParked, CP!IInv, CP!ParkedInv
<1>7. ServerParked
  <2>1. SP!Application = S!Application /\ SP!Sending = Sending
    BY Zenon DEF SP!Sending, Sending, SP!Application, S!Application
  <2>2. /\ at = "idle" \/ sio = "next" => sopen
        /\ sopen => at \in Sending \cup {"idle"}
        /\ outcome # "none" => ~unanswered
        /\ sio = "Inquire" => ~unanswered
        /\ smachine.state = "Handler" => dispatched > 0
    BY <2>1, Zenon DEF SP!SpeakInv
  <2>3. sio # "none" => at \in Sending
    BY <2>1, Zenon DEF SP!IInv, SP!WhereInv, Sending, S!Application
  <2>4. /\ at \in {"idle", "final"} => ~unanswered
        /\ unanswered => smachine.state \notin {"Greeting", "Handler"}
    BY Zenon DEF SP!IInv, SP!FinalNeedsWholeContext, SP!PhaseInv, SP!SM!Terminal
  <2>5. sio = "next" => unanswered /\ sinquiry
    BY Zenon DEF SP!IInv, SP!GuardInv, SP!SpeakInv
  <2> QED BY <2>2, <2>3, <2>4, <2>5, Zenon DEF ServerParked
<1>8. Delivered \in Nat /\ received \in Nat
  <2>1. sent \in Nat /\ total \in Nat /\ crest \in Nat /\ crest <= total
    BY DEF CP!IInv, CP!TypeOK, CP!BudgetInv
  <2>2. received \in Nat
    BY Zenon DEF SP!IInv, SP!TypeOK
  <2> QED BY <2>1, <2>2 DEF Delivered
<1> QED BY <1>2, <1>3, <1>4, <1>5, <1>6, <1>7, <1>8, Zenon DEF Ends

\* The effects ClientProofs names are those SerialProofs is about.
LEMMA ClientEffects ==
    ASSUME CP!Effect
    PROVE  ClientEffect
<1>1. (CP!Live <=> Live) /\ (CP!Live' <=> Live')
  BY Zenon DEF CP!Live, Live, C!CM!Terminal, CP!CM!Terminal
<1>2. C!Writing = CP!Writing /\ C!Output = CP!Output
  BY Zenon DEF C!Writing, CP!Writing, C!Output, CP!Output, C!Chunk, CP!Chunk
<1>3. Interrupted(c2s, C2SCap, CP!Output) = CP!Interrupted(c2s, C2SCap, CP!Output)
  BY Zenon DEF Interrupted, CP!Interrupted
<1>own. /\ CP!Delivered = Delivered /\ CP!Delivered' = Delivered'
        /\ CP!HasBufferedInput <=> C!HasBufferedInput
        /\ CP!Reading = C!Reading
  BY Zenon
  DEF CP!Delivered, Delivered, CP!HasBufferedInput, C!HasBufferedInput, CP!Reading, C!Reading
<1>4. CASE CP!Idles \/ CP!Answers
  BY <1>1, <1>2, <1>own, <1>4, Zenon DEF CP!Idles, CP!Answers, Idles, Answers, ClientEffect
<1>5. CASE CP!Dies
  BY <1>1, <1>2, <1>3, <1>5, Zenon DEF CP!Dies, Dies, ClientEffect
<1>6. CASE CP!Issues
  BY <1>1, <1>6, SameReceives, Zenon DEF CP!Issues, Issues, ClientEffect
<1>7. CASE CP!Writes
  BY <1>1, <1>2, <1>7, Zenon DEF CP!Writes, Writes, ClientEffect
<1>8. CASE CP!Takes
  BY <1>1, <1>own, <1>8, SameReceives, Zenon DEF CP!Takes, Takes, IsFinal, ClientEffect
<1> QED BY <1>4, <1>5, <1>6, <1>7, <1>8, Zenon DEF CP!Effect

\* And those ServerProofs names.
LEMMA ServerEffects ==
    ASSUME SP!Effect
    PROVE  ServerEffect
<1>1. SP!Sending = Sending
  BY Zenon DEF SP!Sending, Sending, SP!Application, S!Application
<1>2. SP!ServerLine = ServerLine
  BY Zenon DEF SP!ServerLine, ServerLine, SP!Incoming, Incoming, SP!LineKind, LineKind
<1>3. SP!Consumes => Consumes
  BY SameReceives, Zenon DEF SP!Consumes, Consumes
<1>4. \A line : SP!Sends(line) => Sends(line)
  BY <1>1, Zenon DEF SP!Sends, Sends, IsFinal
<1>5. (SP!Asks => Asks) /\ (Asks' => SP!Asks') /\ (SP!GuardKept => GuardKept)
  BY Zenon DEF SP!Asks, Asks, SP!GuardKept, GuardKept
<1>6. SP!Waits => Waits
  BY <1>1, <1>5, Zenon DEF SP!Waits, Waits
<1>7. SP!Stops => Stops
  BY <1>1, <1>2, <1>3, <1>4, Zenon DEF SP!Stops, Stops
<1>8. SP!Speaks => Speaks
  BY <1>2, <1>4, <1>5, Zenon DEF SP!Speaks, Speaks, IsFinal
<1>9. SP!Hears => Hears
  BY <1>5, SameReceives, Zenon DEF SP!Hears, Hears
<1>10. SP!Dispatches => Dispatches
  BY <1>1, SameReceives, Zenon DEF SP!Dispatches, Dispatches
<1> QED BY <1>6, <1>7, <1>8, <1>9, <1>10, Zenon DEF SP!Effect, ServerEffect

\* A step of the client leaves the server's invariant alone: only the streams
\* the two share change.
LEMMA ClientKeepsServer ==
    ASSUME SP!IInv, SP!SpeakInv, CP!TypeOK', sopen' = sopen, UNCHANGED serverOnly
    PROVE  SP!IInv' /\ SP!SpeakInv'
<1> USE DEF serverOnly
<1>1. SP!BoolOK'
  <2>1. SP!BoolOK
    BY SP!TypeSplit, ServerAssumptions, Zenon DEF SP!IInv
  <2>2. copen' \in BOOLEAN
    BY Zenon DEF CP!TypeOK, CP!WireTypeOK
  <2> QED BY <2>1, <2>2, Zenon DEF SP!BoolOK
<1>2. SP!DataOK'
  <2>1. SP!DataOK
    BY SP!TypeSplit, ServerAssumptions, Zenon DEF SP!IInv
  <2>2. c2s' \in Seq(SP!ClientLine) /\ s2c' \in Seq(SP!ServerLine)
    BY Zenon
    DEF CP!TypeOK, CP!WireTypeOK, CP!ClientLine, SP!ClientLine, CP!ServerLine, SP!ServerLine,
        CP!Outgoing, SP!Outgoing, CP!Incoming, SP!Incoming, CP!RequestKind, SP!RequestKind,
        CP!LineKind, SP!LineKind
  <2> QED BY <2>1, <2>2, Zenon DEF SP!DataOK
<1>3. SP!TypeOK'
  BY <1>1, <1>2, Zenon DEF SP!TypeOK, SP!WireTypeOK, SP!BoolOK, SP!DataOK
<1>4. SP!WhereInv' /\ SP!PhaseInv' /\ SP!GuardInv'
  BY Zenon DEF SP!IInv, SP!WhereInv, SP!PhaseInv, SP!GuardInv
<1>5. SP!OneFinalPerCommand' /\ SP!FinalNeedsWholeContext' /\ SP!CleanMeansAnswered'
  BY Zenon DEF SP!IInv, SP!OneFinalPerCommand, SP!FinalNeedsWholeContext, SP!CleanMeansAnswered
<1>6. SP!SpeakInv'
  BY Zenon DEF SP!SpeakInv
<1> QED BY <1>3, <1>4, <1>5, <1>6, Zenon DEF SP!IInv

\* And a step of the server leaves the client's invariant alone.
LEMMA ServerKeepsClient ==
    ASSUME CP!IInv, SP!TypeOK', copen' = copen, UNCHANGED clientOnly
    PROVE  CP!IInv'
<1> USE DEF clientOnly
<1>1. CP!BoolOK'
  <2>1. CP!BoolOK
    BY CP!TypeSplit, ClientAssumptions, Zenon DEF CP!IInv
  <2>2. sopen' \in BOOLEAN
    BY Zenon DEF SP!TypeOK, SP!WireTypeOK
  <2> QED BY <2>1, <2>2, Zenon DEF CP!BoolOK
<1>2. CP!DataOK'
  <2>1. CP!DataOK
    BY CP!TypeSplit, ClientAssumptions, Zenon DEF CP!IInv
  <2>2. c2s' \in Seq(CP!ClientLine) /\ s2c' \in Seq(CP!ServerLine)
    BY Zenon
    DEF SP!TypeOK, SP!WireTypeOK, CP!ClientLine, SP!ClientLine, CP!ServerLine, SP!ServerLine,
        CP!Outgoing, SP!Outgoing, CP!Incoming, SP!Incoming, CP!RequestKind, SP!RequestKind,
        CP!LineKind, SP!LineKind
  <2> QED BY <2>1, <2>2, Zenon DEF CP!DataOK
<1>3. CP!TypeOK'
  BY <1>1, <1>2, Zenon DEF CP!TypeOK, CP!WireTypeOK, CP!BoolOK, CP!DataOK
<1>4. CP!ParkedInv' /\ CP!CountInv' /\ CP!OwnerInv' /\ CP!BudgetInv'
  BY Zenon
  DEF CP!IInv, CP!ParkedInv, CP!CountInv, CP!OwnerInv, CP!BudgetInv, CP!HasBufferedInput
<1> QED BY <1>3, <1>4, Zenon DEF CP!IInv

-----------------------------------------------------------------------------
(* Steps *)

\* Every step keeps the invariant and is a step of SerialCalls or a stutter.
LEMMA Step ==
    ASSUME IInv, [Next]_vars
    PROVE  IInv' /\ Serially
<1>1. CASE ByClient(Client)
  <2>1. (CP!Calls \/ CP!Resumes) /\ UNCHANGED serverOnly
    BY <1>1, ClientSteps, Zenon DEF ByClient
  <2>2. CP!TypeOK'
    BY <2>1, CP!TypeStep, ClientAssumptions, Zenon DEF IInv, CP!IInv, CP!Next
  <2>3. CP!IInv'
    BY <2>1, <2>2, CP!InvStep, ClientAssumptions, Zenon DEF IInv, CP!Next
  <2>4. sopen' = sopen
    BY <2>1, CP!ServerEndKept, ClientAssumptions, Zenon
  <2>5. SP!IInv' /\ SP!SpeakInv'
    BY <2>1, <2>2, <2>4, ClientKeepsServer, Zenon DEF IInv
  <2>6. CP!Effect
    BY <2>1, CP!Effects, ClientAssumptions, Zenon DEF IInv
  <2>7. Ends /\ Ends'
    <3>1. Ends
      BY EndsHold, Zenon DEF IInv
    <3>2. (CP!IInv /\ SP!IInv /\ SP!SpeakInv => Ends)'
      BY EndsHold, PTL
    <3> QED BY <2>3, <2>5, <3>1, <3>2, Zenon
  <2>8. ClientEffect
    BY <2>6, ClientEffects, Zenon
  <2>9. JointInv' /\ Serially
    BY <2>1, <2>7, <2>8, ClientStep, Zenon DEF IInv
  <2>10. FitInv'
    BY <2>1, <2>4, <2>7, <2>8, ClientFits, Zenon DEF IInv
  <2> QED BY <2>3, <2>5, <2>9, <2>10, Zenon DEF IInv
<1>2. CASE ByServer(Server)
  <2>1. (SP!ApplicationStep \/ SP!SessionStep) /\ UNCHANGED clientOnly
    BY <1>2, ServerSteps, Zenon DEF ByServer
  <2>2. SP!TypeOK'
    BY <2>1, SP!TypeStep, ServerAssumptions, Zenon DEF IInv, SP!IInv, SP!Next
  <2>3. SP!IInv'
    BY <2>1, <2>2, SP!InvStep, ServerAssumptions, Zenon DEF IInv, SP!Next
  <2>4. SP!Effect
    BY <2>1, SP!Effects, ServerAssumptions, Zenon DEF IInv
  <2>5. CP!IInv'
    BY <2>1, <2>2, <2>4, ServerKeepsClient, Zenon DEF IInv, SP!Effect
  <2>6. SP!SpeakInv'
    BY <2>1, SP!SpeakStep, ServerAssumptions, Zenon DEF IInv
  <2>7. Ends /\ ServerEffect
    BY <2>4, EndsHold, ServerEffects, Zenon DEF IInv
  <2>8. JointInv' /\ Serially
    BY <2>1, <2>7, ServerStep, Zenon DEF IInv
  <2>9. FitInv'
    BY <2>1, <2>7, ServerFits, Zenon DEF IInv
  <2> QED BY <2>3, <2>5, <2>6, <2>8, <2>9, Zenon DEF IInv
<1>3. CASE UNCHANGED vars
  <2> USE <1>3 DEF vars, wireVars
  <2>1. UNCHANGED <<wireVars, clientOnly, serverOnly>>
    BY Zenon DEF vars
  <2>2. CP!IInv' /\ SP!IInv' /\ SP!SpeakInv'
    <3>1. CP!TypeOK'
      BY <2>1, CP!TypeStep, ClientAssumptions, Zenon
      DEF IInv, CP!IInv, clientOnly, CP!vars, CP!clientVars, CP!coreVars, CP!channelVars,
          CP!guardVars, CP!inquiryVars, CP!histVars
    <3>2. SP!IInv' /\ SP!SpeakInv'
      BY <2>1, <3>1, ClientKeepsServer, Zenon DEF IInv
    <3>3. CP!IInv'
      BY <2>1, <3>2, ServerKeepsClient, Zenon DEF IInv, SP!IInv
    <3> QED BY <3>2, <3>3, Zenon
  <2>3. ToClient' = ToClient /\ ToServer' = ToServer /\ (Live' <=> Live)
    BY <2>1 DEF ToClient, ToServer, Live, clientOnly, serverOnly
  <2>4. CommandsInv' /\ ResponsesInv' /\ StreamInv'
    BY <2>1, <2>3, SMTT(30)
    DEF IInv, JointInv, CommandsInv, ResponsesInv, StreamInv, clientOnly, serverOnly
  <2>5. Serially
    BY <2>1, <2>3, Unseen, Zenon DEF Serially, clientOnly, serverOnly
  <2>6. FitInv'
    <3>1. /\ UNCHANGED <<Delivered, begun, cio, cmachine, cinquiry, cahead>>
          /\ UNCHANGED <<at, dispatched, sahead, sinquiry, outcome, received, unanswered, sopen>>
          /\ (Counting' <=> Counting) /\ (Asks' <=> Asks)
      BY <2>1, <2>3, SMTT(30) DEF clientOnly, serverOnly, Delivered, Counting, Asks
    <3>2. ToServerInv' /\ ToClientInv' /\ TurnInv' /\ WholeInv'
      BY <2>3, <3>1, SMTT(30) DEF IInv, FitInv, ToServerInv, ToClientInv, TurnInv, WholeInv
    <3>3. BytesInv'
      BY <2>3, <3>1, CountedWeaker DEF IInv, FitInv, BytesInv
    <3> QED BY <3>2, <3>3, Zenon DEF FitInv
  <2> QED BY <2>2, <2>4, <2>5, <2>6, Zenon DEF IInv, JointInv
<1> QED BY <1>1, <1>2, <1>3, Zenon DEF Next

\* The invariant holds initially, and the initial state is one of SerialCalls.
LEMMA First == Init => IInv /\ Serial!Init
<1> SUFFICES ASSUME Init PROVE IInv /\ Serial!Init
  BY Zenon
<1> USE DEF Init, WireInit, C!ClientInit, S!ServerInit, C!CM!New, S!SM!New
<1>1. CP!IInv
  <2>1. CP!Init
    BY Zenon DEF CP!Init, CP!WireInit, CP!ClientInit, CP!CM!New
  <2> QED BY <2>1, CP!InvInit, ClientAssumptions, Zenon
<1>2. SP!IInv /\ SP!SpeakInv
  <2>1. SP!Init /\ SP!WireInit /\ SP!ServerInit
    BY Zenon DEF SP!Init, SP!WireInit, SP!ServerInit, SP!SM!New
  <2> QED BY <2>1, SP!InvInit, SP!SpeakInit, ServerAssumptions, Zenon
<1>3. ToClient = <<>> /\ ToServer = <<>>
  BY DEF ToClient, ToServer
<1>4. Live
  BY Zenon DEF Live, C!CM!Terminal
<1>5. CommandsInv
  BY <1>3, EmptyStream DEF CommandsInv, OneCommand
<1>6. ResponsesInv /\ StreamInv
  BY <1>3, EmptyStream DEF ResponsesInv, StreamInv, C!CM!Terminal
<1>7. Serial!Init
  <2>1. Live = TRUE /\ Answered = 0
    BY <1>4, Zenon DEF Answered, Live
  <2> QED BY <2>1, Zenon DEF Serial!Init
<1>8. FitInv
  <2>1. /\ begun = 0 /\ dispatched = 0 /\ ~unanswered /\ sopen
        /\ at \in Sending /\ cio = "none" /\ cmachine.state = "Greeting"
        /\ cahead = <<>> /\ sahead = <<>>
    BY Zenon DEF Sending
  <2>2. ToServerInv /\ ToClientInv
    BY <1>3, <2>1, EmptyKinds DEF ToServerInv, ToClientInv
  <2>3. TurnInv
    BY <1>3, <2>1, EmptyKinds, NamedKinds DEF TurnInv
  <2>4. BytesInv /\ WholeInv
    BY <2>1, EmptyKinds, Zenon DEF BytesInv, WholeInv
  <2> QED BY <2>2, <2>3, <2>4, Zenon DEF FitInv
<1> QED BY <1>1, <1>2, <1>5, <1>6, <1>7, <1>8, Zenon DEF IInv, JointInv

\* IInv is an invariant.
THEOREM Invariance == Spec => []IInv
<1>1. IInv /\ [Next]_vars => IInv'
  BY Step, Zenon
<1> QED BY <1>1, First, PTL DEF Spec

(***************************************************************************)
(* A client and a server session joined by their streams implement         *)
(* SerialCalls: with any capacities, limits and number of commands, and    *)
(* whatever is dropped, forgotten, cancelled, cut short or times out,      *)
(* commands are issued one at a time, executed at most once and answered at*)
(* most once, after their execution.                                       *)
(***************************************************************************)
THEOREM Refinement == Spec => ImplementsSerialCalls
<1>1. IInv /\ [Next]_vars => [Serial!Next]_(Serial!vars)
  BY Step, Zenon DEF Serially
<1> QED BY <1>1, First, Invariance, PTL DEF Spec, ImplementsSerialCalls, Serial!Spec

(***************************************************************************)
(* No response ever reaches an operation it was not sent for, and nothing  *)
(* is left on its way to a client that would accept a new command.         *)
(***************************************************************************)
THEOREM Currency == Spec => []ResponsesAreCurrent
<1>1. IInv => ResponsesAreCurrent
  <2> SUFFICES ASSUME IInv, ~cbroken, copen
               PROVE  /\ \A i \in DOMAIN ToClient : ToClient[i].op = begun
                      /\ C!IsUsable => ToClient = <<>> /\ ~cpartial
    BY Zenon DEF ResponsesAreCurrent
  <2>1. Live
    BY Zenon DEF IInv, JointInv, StreamInv, Live
  <2>2. /\ ToClient \in Seq(ServerLine) /\ s2c \in Seq(ServerLine)
        /\ cahead \in Seq(ServerLine)
    BY EndsHold, Types, Zenon DEF IInv
  <2>3. \A i \in DOMAIN ToClient : ToClient[i].op = begun
    BY <2>1, <2>2, LenProperties, Zenon DEF IInv, JointInv, ResponsesInv, Current
  <2>4. ASSUME C!IsUsable
        PROVE  ToClient = <<>> /\ ~cpartial
    <3>1. ToClient = <<>>
      BY <2>1, <2>4, Zenon DEF C!IsUsable, IInv, JointInv, ResponsesInv
    <3>2. s2c = <<>>
      BY <2>2, <3>1, ConcatEqualIffEmpty DEF ToClient
    <3> QED BY <2>1, <3>1, <3>2, Zenon DEF IInv, JointInv, StreamInv
  <2> QED BY <2>3, <2>4, Zenon
<1> QED BY <1>1, Invariance, PTL

(***************************************************************************)
(* The two pure machines fit: a line that arrives is one its receiver's    *)
(* phase accepts (or the refusal of the greeting), whatever the other's    *)
(* application has dropped, forgotten or cancelled.                        *)
(***************************************************************************)
THEOREM MachinesFit == Spec => []NoUnexpectedLine
<1>1. IInv => NoUnexpectedLine
  BY EndsHold, UnexpectedNever, Zenon DEF IInv
<1> QED BY <1>1, Invariance, PTL

(***************************************************************************)
(* While both streams are open, client and server are never both parked in *)
(* a read with nothing in flight, and both in a write only while an inquiry*)
(* is unanswered.                                                          *)
(***************************************************************************)
THEOREM NoDeadlock == Spec => []NoMutualWait
<1>1. IInv => NoMutualWait
  BY EndsHold, MutualNever, Zenon DEF IInv
<1> QED BY <1>1, Invariance, PTL

(***************************************************************************)
(* When the END of an answer is the next line the server's guard reads, the*)
(* guard has counted exactly the bytes the client's guard had sent.        *)
(***************************************************************************)
THEOREM EveryByte == Spec => []InquiryBytesArrive
<1>1. IInv => InquiryBytesArrive
  BY EndsHold, BytesDelivered, Zenon DEF IInv
<1> QED BY <1>1, Invariance, PTL
=============================================================================
