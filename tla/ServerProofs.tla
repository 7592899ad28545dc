---------------------------- MODULE ServerProofs ----------------------------
(***************************************************************************)
(* Proofs about OpenServer: one server session against an arbitrary peer   *)
(* and arbitrary hooks and handlers, for every stream capacity, number of  *)
(* pipelined commands, inquiry limit and number of data lines.             *)
(***************************************************************************)
EXTENDS OpenServer, TLAPS

-----------------------------------------------------------------------------
(* The pure machine *)

\* Whatever is sent, the machine stays a machine.
LEMMA SendType ==
    ASSUME NEW m \in SM!Machine, NEW e
    PROVE  SM!SendResponse(m, e).machine \in SM!Machine
BY Zenon
DEF SM!SendResponse, SM!Ignored, SM!Machine, SM!ServerState, SM!Terminal, SM!Goes, SM!Keeps,
    SM!Rejects, SM!Invalidate

\* Whatever is received, the machine stays a machine.
LEMMA RequestType ==
    ASSUME NEW m \in SM!Machine, NEW e
    PROVE  SM!ReceiveRequest(m, e).machine \in SM!Machine
BY Zenon
DEF SM!ReceiveRequest, SM!Machine, SM!ServerState, SM!Terminal, SM!Goes, SM!Keeps,
    SM!Rejects, SM!Invalidate

\* invalidate and close end in a terminal phase.
LEMMA EndFacts ==
    ASSUME NEW m \in SM!Machine
    PROVE  /\ SM!Invalidate(m) \in SM!Machine /\ SM!Invalidate(m).state \in SM!Terminal
           /\ SM!Close(m) \in SM!Machine /\ SM!Close(m).state \in SM!Terminal
BY Zenon DEF SM!Machine, SM!ServerState, SM!Terminal, SM!Invalidate, SM!Close

\* An INQUIRE opens an inquiry; a context call that writes anything else leaves
\* the machine alone; neither is accepted in a terminal phase, and in an
\* inquiry no second INQUIRE is.
LEMMA SendFacts ==
    ASSUME NEW m \in SM!Machine, NEW e \in Writing, SM!SendResponse(m, e).err = "none"
    PROVE  /\ m.state \notin SM!Terminal
           /\ e # "Inquire" => SM!SendResponse(m, e).machine = m
           /\ e = "Inquire" => /\ m.state # "Inquiry"
                               /\ SM!SendResponse(m, e).machine.state = "Inquiry"
BY Zenon
DEF SM!SendResponse, SM!Ignored, SM!Machine, SM!ServerState, SM!Terminal, SM!Goes, SM!Keeps,
    SM!Rejects, SM!Invalidate, Writing

-----------------------------------------------------------------------------
(* The inductive invariant *)

(***************************************************************************)
(* Where run stands decides what may be live: context calls and guards     *)
(* only while application code that has a context runs, HELP's comments    *)
(* only in HELP, a reason only once run has ended.                         *)
(***************************************************************************)
WhereInv ==
    /\ at = "new" => dispatched = 0 /\ finals = 0 /\ ~unanswered /\ ~broken
    /\ at = "idle" => authenticated
    /\ at = "final" => final \in {"Ok", "Err"}
    /\ inquiry \/ io \notin {"none", "Comment"} =>
          at = "auth" \/ (at = "handler" /\ name = "CALL")
    /\ io = "Comment" => at = "handler" /\ name = "HELP"
    /\ at \in Running => reason = "none"
    /\ at = "hook" => ~sopen /\ reason # "none"

(***************************************************************************)
(* The machine remembers what application code may have swallowed: a       *)
(* failed call left it in a terminal phase, an unanswered INQUIRE in       *)
(* Inquiry or a terminal phase.  FinalNeedsWholeContext alone is not       *)
(* inductive: finalize looks at the phase, not at the history.             *)
(***************************************************************************)
PhaseInv ==
    /\ broken => ~sopen /\ machine.state \in SM!Terminal
    /\ unanswered => machine.state \in {"Inquiry"} \cup SM!Terminal

\* A guard and its parked read agree with the machine's phase.
GuardInv ==
    /\ inquiry => io \in {"none", "next"}
    /\ io = "Inquire" => machine.state = "Inquiry" /\ rest = 1
    /\ io = "next" => inquiry /\ outcome = "none"
    /\ inquiry /\ ~broken => /\ machine.state = "Inquiry"
                             /\ received <= MaxInquiryBytes
                             /\ outcome = "none" <=> unanswered

IInv ==
    /\ TypeOK /\ WhereInv /\ PhaseInv /\ GuardInv
    /\ OneFinalPerCommand /\ FinalNeedsWholeContext /\ CleanMeansAnswered
-----------------------------------------------------------------------------
(* Type correctness *)

\* What a receive hands on is made of lines of the stream.
LEMMA ReceivesType ==
    ASSUME ahead \in Seq(ClientLine), partial \in BOOLEAN, c2s \in Seq(ClientLine),
           NEW r \in Receives(ahead, partial, c2s)
    PROVE  /\ r.line \in ClientLine
           /\ r.ahead \in Seq(ClientLine)
           /\ r.partial \in BOOLEAN
           /\ r.wire \in Seq(ClientLine)
<1> DEFINE L == ClientLine
<1>1. CASE ahead # <<>>
  <2>1. Head(ahead) \in L /\ Tail(ahead) \in Seq(L)
    BY <1>1
  <2>2. r = [line |-> Head(ahead), ahead |-> Tail(ahead), partial |-> partial, wire |-> c2s]
    BY <1>1 DEF Receives
  <2> HIDE DEF L
  <2>3. r.partial = partial /\ r.line = Head(ahead) /\ r.ahead = Tail(ahead) /\ r.wire = c2s
    BY <2>2, Zenon
  <2> QED BY <2>1, <2>3, Zenon DEF L
<1>2. CASE ahead = <<>>
  <2>1. PICK k \in 1..Len(c2s), p \in BOOLEAN :
           r = [line |-> c2s[1], ahead |-> SubSeq(c2s, 2, k),
                partial |-> p /\ k < Len(c2s), wire |-> SubSeq(c2s, k + 1, Len(c2s))]
    BY <1>2 DEF Receives
  <2> HIDE DEF L
  <2>2. c2s[1] \in L /\ SubSeq(c2s, 2, k) \in Seq(L) /\ SubSeq(c2s, k + 1, Len(c2s)) \in Seq(L)
    BY DEF L
  <2>3. (p /\ k < Len(c2s)) \in BOOLEAN
    BY Zenon
  <2> QED BY <2>1, <2>2, <2>3, Zenon DEF L
<1> QED BY <1>1, <1>2, Zenon

\* A write that ends, early or not, leaves a stream of lines.
LEMMA StreamType ==
    ASSUME TypeOK, NEW kind \in Writing \cup {"Ok", "Err"}
    PROVE  /\ Append(s2c, Response(kind)) \in Seq(ServerLine)
           /\ Interrupted(s2c, S2CCap, Response(kind)) \subseteq Seq(ServerLine)
<1>1. Response(kind) \in ServerLine /\ [Response(kind) EXCEPT !.kind = "Fragment"] \in ServerLine
  BY Zenon DEF Response, ServerLine, Incoming, LineKind, Writing, TypeOK
<1>2. s2c \in Seq(ServerLine)
  BY Zenon DEF TypeOK, WireTypeOK
<1> QED BY <1>1, <1>2, SMTT(30) DEF Interrupted

\* So does a session that is cut short wherever it stands.
LEMMA CutType ==
    ASSUME TypeOK, WhereInv
    PROVE  Cut(OutputKind) \subseteq Seq(ServerLine)
<1>1. OutputKind \in Writing \cup {"Ok", "Err", "none"}
  BY Zenon DEF OutputKind, WhereInv
<1>2. s2c \in Seq(ServerLine)
  BY Zenon DEF TypeOK, WireTypeOK
<1>3. CASE OutputKind = "none"
  BY <1>2, <1>3, Zenon DEF Cut
<1>4. CASE OutputKind # "none"
  BY <1>1, <1>4, StreamType, Zenon DEF Cut
<1> QED BY <1>3, <1>4, Zenon

\* Flags stay Boolean.
BoolOK ==
    /\ copen \in BOOLEAN /\ sopen \in BOOLEAN
    /\ partial \in BOOLEAN /\ expired \in BOOLEAN
    /\ authenticated \in BOOLEAN
    /\ inquiry \in BOOLEAN /\ inquiry_expired \in BOOLEAN
    /\ unanswered \in BOOLEAN /\ broken \in BOOLEAN

\* The rest of TypeOK.
DataOK ==
    /\ c2s \in Seq(ClientLine) /\ s2c \in Seq(ServerLine)
    /\ machine \in SM!Machine
    /\ ahead \in Seq(ClientLine)
    /\ at \in Running \cup {"hook"} \cup Ended
    /\ name \in Names \cup {"-"}
    /\ final \in {"none", "Ok", "Err"}
    /\ io \in {"none", "next"} \cup Writing
    /\ rest \in Nat
    /\ outcome \in {"none", "End", "Can"}
    /\ received \in Nat
    /\ reason \in SessionEnd \cup {"none"}
    /\ dispatched \in Nat /\ finals \in Nat

\* TypeOK in two parts: Boolean variables, and variables that hold data.
LEMMA TypeSplit == TypeOK <=> BoolOK /\ DataOK
BY Zenon DEF TypeOK, WireTypeOK, BoolOK, DataOK

\* Every step keeps the flags Boolean.
LEMMA BoolStep ==
    ASSUME TypeOK, Next
    PROVE  BoolOK'
<1> USE DEF BoolOK, vars, serverVars, channelVars, localVars, inquiryVars, histVars
<1>0. BoolOK /\ DataOK
  BY TypeSplit, Zenon
<1>1. CASE SendStatus
  BY <1>0, <1>1, Zenon DEF SendStatus, StartsWrite, FailsIo, Invalidates, Closes
<1>2. CASE \E n \in 1..MaxDataLines : SendData(n)
  BY <1>0, <1>2, Zenon DEF SendData, StartsWrite, FailsIo, Invalidates, Closes
<1>3. CASE Inquire
  BY <1>0, <1>3, Zenon DEF Inquire, StartsWrite, FailsIo, Invalidates, Closes
<1>4. CASE HelpComment
  BY <1>0, <1>4, Zenon DEF HelpComment, StartsWrite, FailsIo, Invalidates, Closes
<1>5. CASE InquiryNext
  BY <1>0, <1>5, Zenon DEF InquiryNext, FailsIo, Invalidates, Closes
<1>6. CASE FinishInquiry
  BY <1>0, <1>6, Zenon DEF FinishInquiry, GuardGone, Invalidates, Closes
<1>7. CASE ForgetInquiry
  BY <1>0, <1>7, Zenon DEF ForgetInquiry, GuardGone
<1>8. CASE DropInquiry
  BY <1>0, <1>8, Zenon DEF DropInquiry, GuardGone, Invalidates, Closes
<1>9. CASE ContextWriteFails
  BY <1>0, <1>9, Zenon DEF ContextWriteFails, FailsIo, Invalidates, Closes
<1>10. CASE InquiryReadFails
  BY <1>0, <1>10, Zenon DEF InquiryReadFails, FailsIo, Invalidates, Closes
<1>11. CASE Return
  BY <1>0, <1>11, Zenon DEF Return, Ends, LocalsGone, GuardGone, Closes
<1>12. CASE ReturnFails
  BY <1>0, <1>12, Zenon DEF ReturnFails, Ends, LocalsGone, GuardGone, Closes
<1>13. CASE Run
  BY <1>0, <1>13, Zenon DEF Run, Closes
<1>14. CASE HookEnds
  BY <1>0, <1>14, Zenon DEF HookEnds
<1>15. CASE Abort
  BY <1>0, <1>15, Zenon DEF Abort, LocalsGone, GuardGone, Closes
<1>16. CASE Expire
  BY <1>0, <1>16, Zenon DEF Expire
<1>17. CASE ExpireInquiry
  BY <1>0, <1>17, Zenon DEF ExpireInquiry
<1>18. CASE SkipRequest
  BY <1>0, <1>18, ReceivesType, Zenon
  DEF SkipRequest, IdleContinues, Ends, LocalsGone, GuardGone, Closes, DataOK
<1>19. CASE RefuseRequest
  BY <1>0, <1>19, ReceivesType, Zenon
  DEF RefuseRequest, Ends, LocalsGone, GuardGone, Closes, DataOK
<1>20. CASE Dispatch
  BY <1>0, <1>20, ReceivesType, Zenon DEF Dispatch, DataOK
<1>21. CASE \E why \in SessionEnd : IdleStops(why)
  BY <1>0, <1>21, Zenon DEF IdleStops, Ends, LocalsGone, GuardGone, Closes
<1>22. CASE HandlerTimeout
  BY <1>0, <1>22, Zenon DEF HandlerTimeout, Ends, LocalsGone, GuardGone, Closes
<1>23. CASE FinalWritten
  BY <1>0, <1>23, Zenon DEF FinalWritten, Ends, LocalsGone, GuardGone, Closes
<1>24. CASE \E why \in SessionEnd : FinalFails(why)
  BY <1>0, <1>24, Zenon DEF FinalFails, Ends, LocalsGone, GuardGone, Closes
<1>25. CASE ContextWritten
  BY <1>0, <1>25, Zenon DEF ContextWritten, FailsIo, Invalidates, Closes
<1>26. CASE InquiryLine
  BY <1>0, <1>26, ReceivesType, Zenon
  DEF InquiryLine, InquiryAnswered, InquiryData, InquirySkips, InquiryRefuses, FailsIo,
      Invalidates, Closes, DataOK
<1>27. CASE Peer
  BY <1>0, <1>27, Zenon DEF Peer, PeerReads, PeerCloses, PeerSends
<1> QED
  BY <1>1, <1>2, <1>3, <1>4, <1>5, <1>6, <1>7, <1>8, <1>9, <1>10, <1>11, <1>12, <1>13,
     <1>14, <1>15, <1>16, <1>17, <1>18, <1>19, <1>20, <1>21, <1>22, <1>23, <1>24, <1>25,
     <1>26, <1>27, Zenon
  DEF Next, ApplicationStep, SessionStep, IdleRead, HookTimeout, IdleEof, IdleTimeout, IdleError,
      FinalTimeout, FinalError, InquiryReadTimeout, SessionEnd

\* A wiped read-ahead is well typed.
LEMMA EmptyAhead == <<>> \in Seq(ClientLine)
OBVIOUS

\* A context call that fails.
LEMMA FailsIoType ==
    ASSUME DataOK, FailsIo
    PROVE  /\ machine' \in SM!Machine
           /\ ahead' \in Seq(ClientLine)
           /\ io' = "none" /\ rest' \in Nat
BY EndFacts, EmptyAhead, Zenon DEF DataOK, FailsIo, Invalidates, Closes

\* A context call that starts to write, or is refused.
LEMMA StartsWriteType ==
    ASSUME DataOK, NEW kind \in Writing, NEW lines \in Nat, StartsWrite(kind, lines)
    PROVE  /\ machine' \in SM!Machine
           /\ ahead' \in Seq(ClientLine)
           /\ io' \in {"none", kind} /\ rest' \in Nat
<1>1. CASE FailsIo
  BY <1>1, FailsIoType, Zenon
<1>2. CASE ~FailsIo
  BY <1>2, SendType, Zenon DEF DataOK, StartsWrite, channelVars
<1> QED BY <1>1, <1>2, Zenon

\* drive ends.
LEMMA EndsType ==
    ASSUME DataOK, NEW why \in SessionEnd, Ends(why)
    PROVE  /\ machine' \in SM!Machine
           /\ ahead' \in Seq(ClientLine)
           /\ at' = "hook" /\ reason' = why
           /\ name' = "-" /\ final' = "none" /\ io' = "none" /\ rest' \in Nat
           /\ outcome' = "none" /\ received' \in Nat
BY EndFacts, EmptyAhead, Zenon DEF DataOK, Ends, LocalsGone, GuardGone, Closes

\* Every step keeps the rest of the type.
LEMMA DataStep ==
    ASSUME TypeOK, WhereInv, Next
    PROVE  DataOK'
<1> USE DEF DataOK, Application, Running, Ended, Writing, SessionEnd, vars, serverVars,
            channelVars, localVars, inquiryVars, histVars
<1>0. BoolOK /\ DataOK
  BY TypeSplit, Zenon
<1>1. CASE SendStatus
  <2>1. StartsWrite("Status", 1)
    BY <1>1, Zenon DEF SendStatus
  <2> QED BY <1>0, <1>1, <2>1, StartsWriteType DEF SendStatus
<1>2. CASE \E n \in 1..MaxDataLines : SendData(n)
  <2> PICK n \in 1..MaxDataLines : SendData(n)
    BY <1>2, Zenon
  <2>1. StartsWrite("Data", n) /\ n \in Nat
    BY ServerAssumption DEF SendData
  <2> QED BY <1>0, <2>1, StartsWriteType DEF SendData
<1>3. CASE Inquire
  <2>1. StartsWrite("Inquire", 1)
    BY <1>3, Zenon DEF Inquire
  <2> QED BY <1>0, <1>3, <2>1, StartsWriteType DEF Inquire
<1>4. CASE HelpComment
  <2>1. StartsWrite("Comment", 1)
    BY <1>4, Zenon DEF HelpComment
  <2> QED BY <1>0, <1>4, <2>1, StartsWriteType, Zenon DEF HelpComment
<1>5. CASE InquiryNext
  BY <1>0, <1>5, FailsIoType, Zenon DEF InquiryNext
<1>6. CASE FinishInquiry
  BY <1>0, <1>6, EndFacts, EmptyAhead, RequestType, ZenonT(60)
  DEF FinishInquiry, GuardGone, Invalidates, Closes
<1>7. CASE ForgetInquiry
  BY <1>0, <1>7
  DEF ForgetInquiry, GuardGone
<1>8. CASE DropInquiry
  BY <1>0, <1>8, EndFacts, EmptyAhead
  DEF DropInquiry, GuardGone, Invalidates, Closes
<1>9. CASE ContextWriteFails
  BY <1>0, <1>9, EndFacts, EmptyAhead, StreamType, Zenon
  DEF ContextWriteFails, FailsIo, Invalidates, Closes
<1>10. CASE InquiryReadFails
  BY <1>0, <1>10, EndFacts, EmptyAhead, Zenon
  DEF InquiryReadFails, FailsIo, Invalidates, Closes
<1>11. CASE Return
  BY <1>0, <1>11, EndsType, SendType DEF Return
<1>12. CASE ReturnFails
  BY <1>0, <1>12, EndFacts, EmptyAhead
  DEF ReturnFails, Ends, LocalsGone, GuardGone, Closes
<1>13. CASE Run
  BY <1>0, <1>13, EmptyAhead, ZenonT(60)
  DEF Run, Closes
<1>14. CASE HookEnds
  BY <1>0, <1>14, EndFacts, Zenon
  DEF HookEnds
<1>15. CASE Abort
  BY <1>0, <1>15, EmptyAhead, CutType, Zenon
  DEF Abort, LocalsGone, GuardGone, Closes
<1>16. CASE Expire
  BY <1>0, <1>16
  DEF Expire
<1>17. CASE ExpireInquiry
  BY <1>0, <1>17
  DEF ExpireInquiry
<1>18. CASE SkipRequest
  <2> PICK r \in Receives(ahead, partial, c2s) : c2s' = r.wire /\ IdleContinues(r)
    BY <1>18, Zenon DEF SkipRequest
  <2>1. r.ahead \in Seq(ClientLine) /\ c2s' \in Seq(ClientLine)
    BY <1>0, ReceivesType, Zenon DEF BoolOK
  <2>2. CASE Ends("Timeout")
    BY <1>0, <1>18, <2>1, <2>2, EndsType, Zenon DEF SkipRequest
  <2>3. CASE ~Ends("Timeout")
    BY <1>0, <1>18, <2>1, <2>3, Zenon DEF SkipRequest, IdleContinues
  <2> QED BY <2>2, <2>3, Zenon
<1>19. CASE RefuseRequest
  BY <1>0, <1>19, EndFacts, EmptyAhead, ReceivesType, Zenon
  DEF RefuseRequest, Ends, LocalsGone, GuardGone, Closes, BoolOK, ClientLine
<1>20. CASE Dispatch
  <2> PICK r \in Receives(ahead, partial, c2s) :
          c2s' = r.wire /\ ahead' = r.ahead /\ name' = r.line.name
    BY <1>20, Zenon DEF Dispatch
  <2>1. ahead' \in Seq(ClientLine) /\ c2s' \in Seq(ClientLine) /\ name' \in Names \cup {"-"}
    BY <1>0, ReceivesType, Zenon DEF BoolOK, ClientLine
  <2> QED BY <1>0, <1>20, <2>1, RequestType DEF Dispatch
<1>21. CASE \E why \in SessionEnd : IdleStops(why)
  BY <1>0, <1>21, EndFacts, EmptyAhead
  DEF IdleStops, Ends, LocalsGone, GuardGone, Closes
<1>22. CASE HandlerTimeout
  BY <1>0, <1>22, EndFacts, EmptyAhead, CutType, Zenon
  DEF HandlerTimeout, Ends, LocalsGone, GuardGone, Closes
<1>23. CASE FinalWritten
  <2>1. s2c' \in Seq(ServerLine) /\ finals' \in Nat
    BY <1>0, <1>23, StreamType DEF FinalWritten, WhereInv
  <2>2. CASE \E why \in SessionEnd : Ends(why)
    BY <1>0, <1>23, <2>1, <2>2, EndsType, Zenon DEF FinalWritten
  <2>3. CASE ~\E why \in SessionEnd : Ends(why)
    BY <1>0, <1>23, <2>1, <2>3 DEF FinalWritten, LocalsGone, GuardGone
  <2> QED BY <2>2, <2>3, Zenon
<1>24. CASE \E why \in SessionEnd : FinalFails(why)
  BY <1>0, <1>24, EndFacts, EmptyAhead, StreamType
  DEF FinalFails, Ends, LocalsGone, GuardGone, Closes, Cut, WhereInv
<1>25. CASE ContextWritten
  <2>1. s2c' \in Seq(ServerLine)
    BY <1>0, <1>25, StreamType, Zenon DEF ContextWritten
  <2>2. CASE FailsIo
    BY <1>0, <1>25, <2>1, <2>2, FailsIoType DEF ContextWritten
  <2>3. CASE ~FailsIo
    BY <1>0, <1>25, <2>1, <2>3 DEF ContextWritten
  <2> QED BY <2>2, <2>3, Zenon
<1>26. CASE InquiryLine
  <2> PICK r \in Receives(ahead, partial, c2s) :
          /\ c2s' = r.wire
          /\ InquiryAnswered(r) \/ InquiryData(r) \/ InquirySkips(r) \/ InquiryRefuses(r)
    BY <1>26, Zenon DEF InquiryLine
  <2>1. r.line \in ClientLine /\ r.ahead \in Seq(ClientLine) /\ c2s' \in Seq(ClientLine)
    BY <1>0, ReceivesType, Zenon DEF BoolOK
  <2>2. /\ machine' \in SM!Machine /\ ahead' \in Seq(ClientLine)
        /\ io' \in {"none", io} /\ rest' \in Nat
    <3>1. CASE FailsIo
      BY <1>0, <3>1, FailsIoType, Zenon
    <3>2. CASE ~FailsIo
      BY <1>0, <2>1, <3>2, Zenon DEF InquiryAnswered, InquiryData, InquirySkips, InquiryRefuses
    <3> QED BY <3>1, <3>2, Zenon
  <2>3. outcome' \in {"none", "End", "Can"} /\ received' \in Nat
    BY <1>0, <2>1 DEF InquiryAnswered, InquiryData, InquirySkips, InquiryRefuses, ClientLine
  <2> QED BY <1>0, <1>26, <2>1, <2>2, <2>3, Zenon DEF InquiryLine
<1>27. CASE Peer
  <2>1. ASSUME NEW line \in PeerLine PROVE line \in ClientLine
    <3>1. 0 \in Nat /\ PeerSizes \subseteq Nat /\ PeerKinds \subseteq Outgoing
      BY PeerAssumption, Zenon
    <3> HIDE DEF DataOK
    <3> QED BY <2>1, <3>1, Zenon DEF PeerLine, ClientLine
  <2>2. [kind |-> "Fragment", name |-> "-", len |-> 0, op |-> 0] \in ClientLine
    BY Zenon DEF ClientLine
  <2>3. CASE PeerReads
    <3>1. s2c' \in Seq(ServerLine)
      BY <1>0, <2>3 DEF PeerReads
    <3> QED BY <1>0, <2>3, <3>1 DEF PeerReads
  <2>4. CASE PeerCloses
    <3>1. c2s' \in Seq(ClientLine)
      BY <1>0, <2>2, <2>4, SMTT(30) DEF PeerCloses
    <3> QED BY <1>0, <2>4, <3>1 DEF PeerCloses
  <2>5. CASE \E line \in PeerLine : PeerSends(line)
    <3> PICK line \in PeerLine : PeerSends(line)
      BY <2>5, Zenon
    <3>1. c2s' \in Seq(ClientLine)
      BY <1>0, <2>1 DEF PeerSends
    <3> QED BY <1>0, <3>1 DEF PeerSends
  <2> QED BY <1>27, <2>3, <2>4, <2>5, Zenon DEF Peer
<1> HIDE DEF DataOK
<1> QED
  BY <1>1, <1>2, <1>3, <1>4, <1>5, <1>6, <1>7, <1>8, <1>9, <1>10, <1>11, <1>12, <1>13,
     <1>14, <1>15, <1>16, <1>17, <1>18, <1>19, <1>20, <1>21, <1>22, <1>23, <1>24, <1>25,
     <1>26, <1>27, Zenon
  DEF Next, ApplicationStep, SessionStep, IdleRead, HookTimeout, IdleEof, IdleTimeout, IdleError,
      FinalTimeout, FinalError, InquiryReadTimeout, SessionEnd

\* Every step keeps TypeOK, and so does a step that changes nothing.
LEMMA TypeStep ==
    ASSUME TypeOK, WhereInv, [Next]_vars
    PROVE  TypeOK'
<1>1. BoolOK' /\ DataOK'
  <2>1. CASE Next
    BY <2>1, BoolStep, DataStep, Zenon
  <2>2. CASE UNCHANGED vars
    <3> USE DEF vars, serverVars, channelVars, localVars, inquiryVars, histVars
    <3>1. BoolOK'
      BY <2>2, TypeSplit, Zenon DEF BoolOK
    <3>2. DataOK'
      BY <2>2, TypeSplit, Zenon DEF DataOK
    <3> QED BY <3>1, <3>2, Zenon
  <2> QED BY <2>1, <2>2, Zenon
<1> QED BY <1>1, Zenon DEF TypeOK, WireTypeOK, BoolOK, DataOK

-----------------------------------------------------------------------------
(* The invariant is inductive *)

\* A call that fails closes the channel and leaves a terminal phase.
LEMMA FailsIoFacts ==
    ASSUME TypeOK, FailsIo
    PROVE  /\ machine'.state \in SM!Terminal
           /\ sopen' = FALSE /\ io' = "none" /\ broken' = TRUE
BY EndFacts, Zenon DEF TypeOK, FailsIo, Invalidates, Closes

\* A call that starts to write was allowed to.
LEMMA StartsWriteFacts ==
    ASSUME TypeOK, NEW kind \in Writing, NEW lines, StartsWrite(kind, lines)
    PROVE  \/ FailsIo
           \/ /\ machine.state \notin SM!Terminal
              /\ kind # "Inquire" => machine' = machine
              /\ kind = "Inquire" => machine.state # "Inquiry" /\ machine'.state = "Inquiry"
              /\ io' = kind /\ rest' = lines /\ sopen' = sopen /\ broken' = broken
BY SendFacts DEF TypeOK, StartsWrite, channelVars

\* Once drive has ended, only its reason has to be justified.
LEMMA EndsInv ==
    ASSUME TypeOK, TypeOK', NEW why \in SessionEnd, Ends(why),
           UNCHANGED <<unanswered, broken>>,
           dispatched' > 0 => authenticated',
           why = "Clean" => authenticated' /\ finals' = dispatched' + 1 /\ ~unanswered /\ ~broken
    PROVE  IInv'
<1>1. /\ at' = "hook" /\ reason' = why /\ reason' # "none"
      /\ machine'.state \in SM!Terminal
      /\ sopen' = FALSE /\ io' = "none" /\ inquiry' = FALSE
  BY EndFacts, Zenon DEF Ends, LocalsGone, GuardGone, Closes, TypeOK, SessionEnd
<1>2. WhereInv'
  BY <1>1, Zenon DEF WhereInv, Running, Application
<1>3. PhaseInv' /\ GuardInv'
  BY <1>1, Zenon DEF PhaseInv, GuardInv
<1>4. OneFinalPerCommand' /\ FinalNeedsWholeContext' /\ CleanMeansAnswered'
  BY <1>1, Zenon DEF OneFinalPerCommand, FinalNeedsWholeContext, CleanMeansAnswered, Application
<1> QED BY <1>2, <1>3, <1>4, Zenon DEF IInv

\* Every step keeps the invariant.
LEMMA InvStep ==
    ASSUME IInv, TypeOK', Next
    PROVE  IInv'
<1> USE DEF IInv, TypeOK, WhereInv, PhaseInv, GuardInv, OneFinalPerCommand,
            FinalNeedsWholeContext, CleanMeansAnswered, SM!Terminal,
            Application, Running, Ended, Writing, SessionEnd, vars, serverVars,
            channelVars, localVars, inquiryVars, histVars
<1>1. CASE SendStatus
  BY <1>1, FailsIoFacts, StartsWriteFacts, Zenon DEF SendStatus, HasContext
<1>2. CASE \E n \in 1..MaxDataLines : SendData(n)
  <2> PICK n \in 1..MaxDataLines : SendData(n)
    BY <1>2, Zenon
  <2>1. StartsWrite("Data", n)
    BY Zenon DEF SendData
  <2> QED BY <2>1, FailsIoFacts, StartsWriteFacts, Zenon DEF SendData, HasContext
<1>3. CASE Inquire
  BY <1>3, FailsIoFacts, StartsWriteFacts, Zenon DEF Inquire, HasContext
<1>4. CASE HelpComment
  BY <1>4, FailsIoFacts, StartsWriteFacts, Zenon DEF HelpComment
<1>5. CASE InquiryNext
  <2>1. CASE FailsIo
    BY <1>5, <2>1, FailsIoFacts, Zenon DEF InquiryNext, HasContext
  <2>2. CASE ~FailsIo
    BY <1>5, <2>2 DEF InquiryNext, HasContext
  <2> QED BY <2>1, <2>2, Zenon
<1>6. CASE FinishInquiry
  <2>1. CASE Invalidates
    BY <1>6, <2>1, EndFacts, Zenon DEF FinishInquiry, GuardGone, Invalidates, Closes, HasContext
  <2>2. CASE ~Invalidates
    <3>1. broken => SM!ReceiveRequest(machine, outcome).err # "none"
      BY Zenon DEF SM!ReceiveRequest, SM!Keeps
    <3>2. ~broken /\ outcome # "none" /\ UNCHANGED channelVars
      BY <1>6, <2>2, <3>1, Zenon DEF FinishInquiry
    <3> QED BY <1>6, <3>2, Zenon DEF FinishInquiry, GuardGone, HasContext
  <2> QED BY <2>1, <2>2, Zenon
<1>7. CASE ForgetInquiry
  BY <1>7, Zenon DEF ForgetInquiry, GuardGone, HasContext
<1>8. CASE DropInquiry
  BY <1>8, EndFacts, Zenon DEF DropInquiry, GuardGone, Invalidates, Closes, HasContext
<1>9. CASE ContextWriteFails
  BY <1>9, FailsIoFacts, Zenon DEF ContextWriteFails
<1>10. CASE InquiryReadFails
  BY <1>10, FailsIoFacts, Zenon DEF InquiryReadFails
<1>11. CASE Return
  BY <1>11, EndsInv, SMTT(30) DEF Return
<1>12. CASE ReturnFails
  BY <1>12, EndsInv, Zenon DEF ReturnFails, FinalizeFails
<1>13. CASE Run
  BY <1>13, Zenon DEF Run, Closes
<1>14. CASE HookEnds
  BY <1>14, Zenon DEF HookEnds
<1>15. CASE Abort
  BY <1>15, Zenon DEF Abort, LocalsGone, GuardGone, Closes
<1>16. CASE Expire
  BY <1>16, Zenon DEF Expire
<1>17. CASE ExpireInquiry
  BY <1>17, Zenon DEF ExpireInquiry
<1>18. CASE SkipRequest
  BY <1>18, EndsInv, SMTT(30) DEF SkipRequest, IdleContinues
<1>19. CASE RefuseRequest
  <2>1. Ends("Protocol") /\ UNCHANGED <<authenticated, dispatched, unanswered, broken>>
    BY <1>19, Zenon DEF RefuseRequest, histVars
  <2> QED BY <2>1, EndsInv, Zenon
<1>20. CASE Dispatch
  BY <1>20, Zenon DEF Dispatch
<1>21. CASE \E why \in SessionEnd : IdleStops(why)
  BY <1>21, EndsInv, SMTT(30) DEF IdleStops
<1>22. CASE HandlerTimeout
  BY <1>22, EndsInv, Zenon DEF HandlerTimeout
<1>23. CASE FinalWritten
  <2>1. CASE ~authenticated /\ final = "Err"
    <3>1. Ends("Handler")
      BY <1>23, <2>1, Zenon DEF FinalWritten
    <3> QED BY <1>23, <2>1, <3>1, EndsInv, Zenon DEF FinalWritten
  <2>2. CASE authenticated /\ name = "BYE"
    <3>1. Ends("Clean") /\ authenticated' = authenticated
      BY <1>23, <2>2, Zenon DEF FinalWritten
    <3>2. finals' = dispatched' + 1 /\ ~unanswered /\ ~broken /\ UNCHANGED <<unanswered, broken>>
      BY <1>23, Zenon DEF FinalWritten
    <3> QED BY <2>2, <3>1, <3>2, EndsInv, Zenon
  <2>3. CASE ~(~authenticated /\ final = "Err") /\ ~(authenticated /\ name = "BYE")
    BY <1>23, <2>3, Zenon DEF FinalWritten, LocalsGone, GuardGone
  <2> QED BY <2>1, <2>2, <2>3, Zenon
<1>24. CASE FinalTimeout \/ FinalError
  BY <1>24, EndsInv, Zenon DEF FinalTimeout, FinalError, FinalFails
<1>25. CASE ContextWritten
  <2>1. CASE FailsIo
    BY <1>25, <2>1, FailsIoFacts, Zenon DEF ContextWritten
  <2>2. CASE ~FailsIo
    <3>1. CASE io = "Inquire"
      BY <1>25, <2>2, <3>1, ServerAssumption, SMTT(30) DEF ContextWritten
    <3>2. CASE io # "Inquire"
      BY <1>25, <2>2, <3>2, SMTT(30) DEF ContextWritten
    <3> QED BY <3>1, <3>2, Zenon
  <2> QED BY <2>1, <2>2, Zenon
<1>26. CASE InquiryLine
  <2> PICK r \in Receives(ahead, partial, c2s) :
          InquiryAnswered(r) \/ InquiryData(r) \/ InquirySkips(r) \/ InquiryRefuses(r)
    BY <1>26, Zenon DEF InquiryLine
  <2>0. /\ io = "next"
        /\ UNCHANGED <<at, name, final, authenticated, inquiry, reason, dispatched, finals>>
    BY <1>26, Zenon DEF InquiryLine
  <2>1. CASE FailsIo
    <3>1. unanswered' => unanswered
      BY Zenon DEF InquiryAnswered, InquiryData, InquirySkips, InquiryRefuses
    <3> QED BY <2>0, <2>1, <3>1, FailsIoFacts, Zenon
  <2>2. CASE InquiryAnswered(r) /\ ~FailsIo
    BY <2>0, <2>2, Zenon DEF InquiryAnswered
  <2>3. CASE InquiryData(r) /\ ~FailsIo
    BY <2>0, <2>3, SMTT(30) DEF InquiryData, Fits
  <2>4. CASE InquirySkips(r) /\ ~FailsIo
    BY <2>0, <2>4, SMTT(30) DEF InquirySkips
  <2> QED BY <2>1, <2>2, <2>3, <2>4, Zenon DEF InquiryRefuses
<1>27. CASE Peer
  <2>1. UNCHANGED serverVars
    BY <1>27, Zenon DEF Peer, PeerReads, PeerCloses, PeerSends
  <2> QED BY <2>1, SMTT(30)
<1> HIDE DEF IInv
<1> QED
  BY <1>1, <1>2, <1>3, <1>4, <1>5, <1>6, <1>7, <1>8, <1>9, <1>10, <1>11, <1>12, <1>13,
     <1>14, <1>15, <1>16, <1>17, <1>18, <1>19, <1>20, <1>21, <1>22, <1>23, <1>24, <1>25,
     <1>26, <1>27, Zenon
  DEF Next, ApplicationStep, SessionStep, IdleRead, HookTimeout, IdleEof, IdleTimeout, IdleError,
      FinalTimeout, FinalError, InquiryReadTimeout, SessionEnd

\* IInv holds initially.
LEMMA InvInit == Init => IInv
<1> SUFFICES ASSUME Init PROVE IInv
  BY Zenon
<1> USE DEF Init, ServerInit, WireInit, SM!New
<1>1. BoolOK
  BY Zenon DEF BoolOK
<1>2. DataOK
  BY EmptyAhead DEF DataOK, SM!Machine, SM!ServerState, Running
<1>3. WhereInv /\ PhaseInv /\ GuardInv
  BY Zenon DEF WhereInv, PhaseInv, GuardInv
<1>4. OneFinalPerCommand /\ FinalNeedsWholeContext /\ CleanMeansAnswered
  BY DEF OneFinalPerCommand, FinalNeedsWholeContext, CleanMeansAnswered, Application
<1> QED BY <1>1, <1>2, <1>3, <1>4, TypeSplit, Zenon DEF IInv

\* IInv is an invariant.
THEOREM Invariance == Spec => []IInv
<1>1. IInv /\ [Next]_vars => IInv'
  <2> SUFFICES ASSUME IInv, [Next]_vars PROVE IInv'
    BY Zenon
  <2>0. TypeOK'
    BY TypeStep, Zenon DEF IInv
  <2>1. CASE Next
    BY <2>0, <2>1, InvStep, Zenon
  <2>2. CASE UNCHANGED vars
    <3> USE <2>2 DEF vars, serverVars, channelVars, localVars, inquiryVars, histVars
    <3>1. WhereInv' /\ PhaseInv' /\ GuardInv'
      BY Zenon DEF IInv, WhereInv, PhaseInv, GuardInv
    <3>2. OneFinalPerCommand' /\ FinalNeedsWholeContext' /\ CleanMeansAnswered'
      BY Zenon DEF IInv, OneFinalPerCommand, FinalNeedsWholeContext, CleanMeansAnswered
    <3> QED BY <2>0, <3>1, <3>2, Zenon DEF IInv
  <2> QED BY <2>1, <2>2, Zenon
<1> QED BY <1>1, InvInit, PTL DEF Spec

(***************************************************************************)
(* Every state of every session is well typed.                             *)
(***************************************************************************)
THEOREM TypeCorrect == Spec => []TypeOK
<1>1. IInv => TypeOK
  BY Zenon DEF IInv
<1> QED BY <1>1, Invariance, PTL

(***************************************************************************)
(* drive: however many commands are pipelined and however they end, each   *)
(* accepted one gets exactly one final response before the next is read.   *)
(***************************************************************************)
THEOREM OneFinal == Spec => []OneFinalPerCommand
<1>1. IInv => OneFinalPerCommand
  BY Zenon DEF IInv
<1> QED BY <1>1, Invariance, PTL

(***************************************************************************)
(* finalize and IoOperation: no final response leaves the session after a  *)
(* failed or cancelled context call or over an unanswered INQUIRE, whatever*)
(* the handler swallowed, dropped or forgot.                               *)
(***************************************************************************)
THEOREM WholeContext == Spec => []FinalNeedsWholeContext
<1>1. IInv => FinalNeedsWholeContext
  BY Zenon DEF IInv
<1> QED BY <1>1, Invariance, PTL

(***************************************************************************)
(* run: the close hook sees a closed stream, and is told Clean only of a   *)
(* session whose every command was answered.                               *)
(***************************************************************************)
THEOREM CleanEnd == Spec => []CleanMeansAnswered
<1>1. IInv => CleanMeansAnswered
  BY Zenon DEF IInv
<1> QED BY <1>1, Invariance, PTL

(***************************************************************************)
(* ServerInquiry: for any limit and any D lines the handler gets no more   *)
(* than max_inquiry_bytes, and a guard has its outcome exactly when END or *)
(* CAN was consumed.                                                       *)
(***************************************************************************)
THEOREM InquiryBound == Spec => []InquiryBounded
<1>1. IInv => InquiryBounded
  BY Zenon DEF IInv, TypeOK, GuardInv, InquiryBounded
<1> QED BY <1>1, Invariance, PTL

-----------------------------------------------------------------------------
(* What the session may be saying *)

\* Where the session may still send something for its current operation.
Sending == {"new", "final"} \cup Application

(***************************************************************************)
(* A session that waits, reads or writes has its stream; what it writes    *)
(* fits its phase.  INQUIRE is written while no other is unanswered, D     *)
(* lines and comments only in a command's own phase.                       *)
(***************************************************************************)
SpeakInv ==
    /\ at \in {"new", "idle", "final"} \/ io # "none" => sopen
    /\ at \in Application /\ ~sopen => machine.state \in SM!Terminal
    /\ sopen => at \in Sending \cup {"idle"}
    /\ outcome # "none" => ~unanswered
    /\ machine.state = "Handler" \/ machine.origin = "Handler" => dispatched > 0
    /\ at = "handler" /\ name # "CALL" => machine.state \in {"Handler"} \cup SM!Terminal
    /\ io = "Inquire" => ~unanswered
    /\ io \in {"Data", "Comment"} => machine.state = "Handler"
    /\ io = "next" => unanswered

\* What the machine has to say about a line of a context call.
LEMMA SayFacts ==
    ASSUME NEW m \in SM!Machine, NEW e \in Writing, SM!SendResponse(m, e).err = "none"
    PROVE  /\ m.state \notin SM!Terminal
           /\ e # "Inquire" => SM!SendResponse(m, e).machine = m
           /\ e = "Inquire" =>
                /\ m.state \in {"Greeting", "Handler"}
                /\ SM!SendResponse(m, e).machine = [state |-> "Inquiry", origin |-> m.state]
           /\ e = "Data" => m.state = "Handler"
BY Zenon
DEF SM!SendResponse, SM!Ignored, SM!Machine, SM!ServerState, SM!Terminal, SM!Goes, SM!Keeps,
    SM!Rejects, SM!Invalidate, Writing

\* The other transitions, where they are applied.
LEMMA TurnFacts ==
    ASSUME NEW m \in SM!Machine
    PROVE  /\ m.state = "Ready" =>
                SM!ReceiveRequest(m, "Command").machine = [m EXCEPT !.state = "Handler"]
           /\ m.state = "Inquiry" =>
                /\ SM!ReceiveRequest(m, "End").machine = [m EXCEPT !.state = m.origin]
                /\ SM!ReceiveRequest(m, "Can").machine = [m EXCEPT !.state = "AwaitFinal"]
           /\ SM!ReceiveRequest(m, "Command").err = "none" => m.state = "Ready"
           /\ SM!ReceiveRequest(m, "End").err = "none" => m.state = "Inquiry"
           /\ SM!ReceiveRequest(m, "Can").err = "none" => m.state = "Inquiry"
           /\ SM!Invalidate(m).state \in SM!Terminal /\ SM!Invalidate(m).origin = m.origin
           /\ SM!Close(m).state \in SM!Terminal /\ SM!Close(m).origin = m.origin
BY Zenon
DEF SM!SendResponse, SM!ReceiveRequest, SM!Ignored, SM!Machine, SM!ServerState, SM!Terminal,
    SM!Goes, SM!Keeps, SM!Rejects, SM!Invalidate, SM!Close

\* A final response ends the operation.
LEMMA AnswerFacts ==
    ASSUME NEW m \in SM!Machine, NEW e \in {"Ok", "Err"},
           m.state \in {"Greeting", "Handler", "AwaitFinal"}
    PROVE  /\ SM!SendResponse(m, e).machine.state \in {"Ready", "Invalid"}
           /\ SM!SendResponse(m, e).machine.origin = m.origin
BY Zenon
DEF SM!SendResponse, SM!Ignored, SM!Machine, SM!ServerState, SM!Terminal, SM!Goes, SM!Keeps,
    SM!Rejects, SM!Invalidate

\* A session whose stream is closed and that is parked nowhere.
LEMMA ShutSpeaks ==
    ASSUME SpeakInv, ~sopen', io' = "none", at' \notin {"new", "idle", "final"},
           at' \in Application => machine'.state \in SM!Terminal,
           machine'.state # "Handler" \/ UNCHANGED machine, machine'.origin = machine.origin,
           UNCHANGED dispatched,
           outcome' # "none" => ~unanswered'
    PROVE  SpeakInv'
BY Zenon DEF SpeakInv, SM!Terminal, Application

\* Every step of the session keeps SpeakInv.
LEMMA SpeakStep ==
    ASSUME IInv, SpeakInv, ApplicationStep \/ SessionStep
    PROVE  SpeakInv'
<1>type. machine \in SM!Machine /\ outcome \in {"none", "End", "Can"} /\ dispatched \in Nat
         /\ at \in Running \cup {"hook"} \cup Ended
  BY Zenon DEF IInv, TypeOK
<1>fails. ASSUME FailsIo, UNCHANGED <<at, dispatched, unanswered, outcome>>, at \in Application
          PROVE  SpeakInv'
  <2>1. /\ ~sopen' /\ io' = "none"
        /\ machine'.state \in SM!Terminal /\ machine'.origin = machine.origin
    BY <1>fails, <1>type, TurnFacts, Zenon DEF FailsIo, Invalidates, Closes
  <2> QED BY <1>fails, <2>1, ShutSpeaks, Zenon DEF SpeakInv, Application, SM!Terminal
<1>ends. ASSUME NEW why, Ends(why), UNCHANGED <<dispatched, unanswered>>
         PROVE  SpeakInv'
  <2>1. /\ ~sopen' /\ io' = "none" /\ machine'.state \in SM!Terminal
        /\ machine'.origin = machine.origin /\ at' = "hook" /\ outcome' = "none"
    BY <1>ends, <1>type, TurnFacts, Zenon DEF Ends, Closes, LocalsGone, GuardGone
  <2> QED BY <1>ends, <2>1, ShutSpeaks, Zenon DEF Application, SM!Terminal
<1>says. ASSUME NEW kind \in Writing, NEW lines, StartsWrite(kind, lines), at \in Application,
                UNCHANGED <<at, name, dispatched, unanswered, outcome>>,
                kind = "Comment" => at = "handler" /\ name = "HELP",
                kind # "Comment" => at = "auth" \/ name = "CALL"
         PROVE  SpeakInv'
  <2>1. CASE FailsIo
    BY <1>says, <2>1, <1>fails, Zenon
  <2>2. CASE ~FailsIo
    <3>1. /\ machine.state \notin SM!Terminal /\ sopen' = sopen /\ io' = kind
          /\ kind # "Inquire" => machine' = machine
          /\ kind = "Inquire" => /\ machine.state \in {"Greeting", "Handler"}
                                 /\ machine' = [state |-> "Inquiry", origin |-> machine.state]
          /\ kind = "Data" => machine.state = "Handler"
      <4>1. /\ SM!SendResponse(machine, kind).err = "none" /\ sopen' = sopen /\ io' = kind
            /\ machine' = SM!SendResponse(machine, kind).machine
        BY <1>says, <2>2, Zenon DEF StartsWrite, channelVars
      <4>2. machine \in SM!Machine
        BY <1>type, Zenon
      <4> QED BY <4>1, <4>2, SayFacts, Zenon
    <3>2. sopen
      BY <1>says, <3>1, Zenon DEF SpeakInv
    <3>3. machine.state \in {"Greeting", "Handler"} => ~unanswered
      BY Zenon DEF IInv, PhaseInv, SM!Terminal
    <3>4. CASE kind = "Inquire"
      BY <1>says, <3>1, <3>2, <3>3, <3>4 DEF SpeakInv, Application, Sending, SM!Terminal
    <3>5. CASE kind # "Inquire"
      BY <1>says, <3>1, <3>2, <3>5, Zenon DEF SpeakInv, Application, Sending, SM!Terminal, Writing
    <3> QED BY <3>4, <3>5, Zenon
  <2> QED BY <2>1, <2>2, Zenon
<1>1. CASE SendStatus \/ Inquire \/ HelpComment \/ \E n \in 1..MaxDataLines : SendData(n)
  BY <1>1, <1>says, Zenon
  DEF SendStatus, Inquire, HelpComment, SendData, HasContext, inquiryVars, Writing, Application
<1>2. CASE InquiryNext
  <2>1. CASE FailsIo
    BY <1>2, <2>1, <1>fails, Zenon DEF InquiryNext, HasContext, inquiryVars
  <2>2. CASE ~FailsIo
    <3>1. inquiry /\ outcome = "none" /\ sopen /\ at \in Application
      BY <1>2, <2>2, Zenon DEF InquiryNext, HasContext
    <3>2. unanswered
      BY <3>1, Zenon DEF IInv, GuardInv, PhaseInv
    <3> QED BY <1>2, <2>2, <3>1, <3>2, Zenon
      DEF InquiryNext, HasContext, SpeakInv, inquiryVars, channelVars
  <2> QED BY <2>1, <2>2, Zenon
<1>3. CASE FinishInquiry
  <2>0. /\ at \in Application /\ io' = "none" /\ outcome' = "none"
        /\ UNCHANGED <<at, name, dispatched, unanswered>>
        /\ at = "auth" \/ name = "CALL"
    BY <1>3, Zenon DEF FinishInquiry, HasContext, GuardGone, histVars
  <2>1. CASE Invalidates
    <3>1. ~sopen' /\ machine'.state \in SM!Terminal /\ machine'.origin = machine.origin
      BY <2>1, <1>type, TurnFacts, Zenon DEF Invalidates, Closes
    <3> QED BY <2>0, <3>1, ShutSpeaks, Zenon DEF Application, SM!Terminal
  <2>2. CASE ~Invalidates
    <3>1. /\ outcome \in {"End", "Can"} /\ SM!ReceiveRequest(machine, outcome).err = "none"
          /\ machine' = SM!ReceiveRequest(machine, outcome).machine /\ sopen' = sopen
      BY <1>3, <2>2, <1>type, Zenon DEF FinishInquiry, channelVars
    <3>2. /\ machine.state = "Inquiry"
          /\ machine' = [machine EXCEPT !.state = machine.origin]
             \/ machine' = [machine EXCEPT !.state = "AwaitFinal"]
      BY <3>1, <1>type, TurnFacts, Zenon
    <3>3. machine.state = "Inquiry" /\ machine'.origin = machine.origin
          /\ machine'.state \in {machine.origin, "AwaitFinal"}
      BY <3>2, <1>type, Zenon DEF SM!Machine
    <3>4. sopen
      BY <2>0, <3>3, Zenon DEF SpeakInv, SM!Terminal
    <3> QED BY <2>0, <3>1, <3>3, <3>4, Zenon DEF SpeakInv, Sending, Application, SM!Terminal
  <2> QED BY <2>1, <2>2, Zenon
<1>4. CASE ForgetInquiry
  BY <1>4, Zenon DEF ForgetInquiry, GuardGone, SpeakInv, channelVars, histVars
<1>5. CASE DropInquiry
  <2>1. ~sopen' /\ machine'.state \in SM!Terminal /\ machine'.origin = machine.origin
    BY <1>5, <1>type, TurnFacts, Zenon DEF DropInquiry, Invalidates, Closes
  <2> QED BY <1>5, <2>1, ShutSpeaks, Zenon
    DEF DropInquiry, HasContext, GuardGone, histVars, Application, SM!Terminal
<1>6. CASE ContextWriteFails \/ InquiryReadFails
  <2>1. at \in Application
    BY <1>6, Zenon DEF ContextWriteFails, InquiryReadFails, IInv, WhereInv, Writing, Application
  <2> QED BY <1>6, <2>1, <1>fails, Zenon DEF ContextWriteFails, InquiryReadFails, inquiryVars
<1>7. CASE Return
  <2>1. CASE at' = "final"
    <3>1. /\ machine.state \in {"Greeting", "Handler", "AwaitFinal"} /\ at \in Application
          /\ io = "none" /\ UNCHANGED <<sopen, io, outcome, dispatched, unanswered>>
          /\ final' \in {"Ok", "Err"} /\ machine' = SM!SendResponse(machine, final').machine
      BY <1>7, <2>1, Zenon DEF Return, Ends, channelVars, inquiryVars, histVars
    <3>2. machine'.state \in {"Ready", "Invalid"} /\ machine'.origin = machine.origin
      <4>1. machine \in SM!Machine
        BY <1>type, Zenon
      <4> QED BY <3>1, <4>1, AnswerFacts, Zenon
    <3>3. sopen
      BY <3>1, Zenon DEF SpeakInv, SM!Terminal
    <3> QED BY <2>1, <3>1, <3>2, <3>3, Zenon DEF SpeakInv, Sending, Application, SM!Terminal
  <2>2. CASE at' # "final"
    BY <1>7, <2>2, <1>ends, Zenon DEF Return, histVars
  <2> QED BY <2>1, <2>2, Zenon
<1>8. CASE ReturnFails \/ HandlerTimeout \/ RefuseRequest
  BY <1>8, <1>ends, Zenon DEF ReturnFails, HandlerTimeout, RefuseRequest, histVars
<1>9. ASSUME NEW why, IdleStops(why) \/ FinalFails(why)
      PROVE  SpeakInv'
  BY <1>9, <1>ends, Zenon DEF IdleStops, FinalFails, histVars
<1>10. CASE Run \/ HookEnds \/ Expire \/ ExpireInquiry
  BY <1>10, SMTT(30)
  DEF Run, HookEnds, Expire, ExpireInquiry, Closes, channelVars, localVars, inquiryVars, histVars,
      SpeakInv, IInv, WhereInv, PhaseInv, Sending, Application, SM!Terminal
<1>11. CASE Abort
  BY <1>11, ShutSpeaks, Zenon
  DEF Abort, Closes, LocalsGone, GuardGone, histVars, Application
<1>12. CASE SkipRequest
  <2>1. CASE Ends("Timeout")
    BY <1>12, <2>1, <1>ends, Zenon DEF SkipRequest, histVars
  <2>2. CASE ~Ends("Timeout")
    <3>1. /\ UNCHANGED <<machine, sopen, at, name, io, outcome, dispatched, unanswered>>
      BY <1>12, <2>2, Zenon DEF SkipRequest, IdleContinues, localVars, inquiryVars, histVars
    <3> QED BY <3>1, Zenon DEF SpeakInv
  <2> QED BY <2>1, <2>2, Zenon
<1>13. CASE Dispatch
  <2>1. machine.state = "Ready" /\ machine' = [machine EXCEPT !.state = "Handler"]
    BY <1>13, <1>type, TurnFacts, Zenon DEF Dispatch
  <2>2. machine'.state = "Handler"
    BY <2>1, <1>type, Zenon DEF SM!Machine
  <2>3. /\ at = "idle" /\ at' = "handler" /\ dispatched' = dispatched + 1
        /\ UNCHANGED <<sopen, io, outcome, unanswered>>
    BY <1>13, Zenon DEF Dispatch, inquiryVars
  <2>4. io = "none" /\ sopen /\ dispatched' > 0
    BY <2>3, <1>type DEF IInv, WhereInv, SpeakInv, TypeOK, Application
  <2> QED BY <2>2, <2>3, <2>4, Zenon DEF SpeakInv, Application, Sending
<1>14. CASE FinalWritten
  <2>1. CASE at' = "idle"
    <3>1. /\ UNCHANGED <<machine, sopen, dispatched, unanswered>>
          /\ io' = "none" /\ outcome' = "none" /\ sopen
      BY <1>14, <2>1, Zenon DEF FinalWritten, Ends, LocalsGone, GuardGone, channelVars, SpeakInv
    <3> QED BY <2>1, <3>1, Zenon DEF SpeakInv, Application, Sending
  <2>2. CASE at' # "idle"
    BY <1>14, <2>2, <1>ends, Zenon DEF FinalWritten
  <2> QED BY <2>1, <2>2, Zenon
<1>15. CASE ContextWritten
  <2>0. at \in Application /\ UNCHANGED <<at, name, dispatched>> /\ rest # 0 /\ sopen
    BY <1>15, SMTT(30) DEF ContextWritten, IInv, WhereInv, Writing, Application, SpeakInv
  <2>1. CASE io = "Inquire"
    BY <1>15, <2>0, <2>1, SMTT(30) DEF ContextWritten, SpeakInv, channelVars, IInv, GuardInv
  <2>2. CASE io # "Inquire" /\ FailsIo
    BY <1>15, <2>0, <2>2, <1>fails, Zenon DEF ContextWritten
  <2>3. CASE io # "Inquire" /\ ~FailsIo
    BY <1>15, <2>0, <2>3, Zenon DEF ContextWritten, SpeakInv, channelVars
  <2> QED BY <2>1, <2>2, <2>3, Zenon
<1>16. CASE InquiryLine
  <2>0. /\ io = "next" /\ at \in Application /\ sopen /\ unanswered /\ outcome = "none"
        /\ UNCHANGED <<at, name, dispatched>>
    BY <1>16, Zenon DEF InquiryLine, IInv, WhereInv, GuardInv, Application, SpeakInv
  <2> PICK r \in Receives(ahead, partial, c2s) :
          InquiryAnswered(r) \/ InquiryData(r) \/ InquirySkips(r) \/ InquiryRefuses(r)
    BY <1>16, Zenon DEF InquiryLine
  <2>1. CASE FailsIo /\ UNCHANGED <<unanswered, outcome>>
    BY <2>0, <2>1, <1>fails, Zenon
  <2>2. CASE InquiryAnswered(r)
    BY <2>0, <2>2, Zenon DEF InquiryAnswered, SpeakInv
  <2>3. CASE InquiryData(r) /\ ~FailsIo
    BY <2>0, <2>3, Zenon DEF InquiryData, SpeakInv
  <2>4. CASE InquirySkips(r) /\ ~FailsIo
    BY <2>0, <2>4, Zenon DEF InquirySkips, SpeakInv
  <2> QED BY <2>1, <2>2, <2>3, <2>4, Zenon DEF InquiryData, InquirySkips, InquiryRefuses
<1> QED
  BY <1>1, <1>2, <1>3, <1>4, <1>5, <1>6, <1>7, <1>8, <1>9, <1>10, <1>11, <1>12, <1>13, <1>14,
     <1>15, <1>16, Zenon
  DEF ApplicationStep, SessionStep, IdleRead, HookTimeout, IdleEof, IdleTimeout, IdleError,
      FinalTimeout, FinalError, InquiryReadTimeout

\* It holds initially.
LEMMA SpeakInit == WireInit /\ ServerInit => SpeakInv
BY DEF WireInit, ServerInit, SpeakInv, SM!New, Application, Sending

-----------------------------------------------------------------------------
(* What a step of the server does to the streams, the counts and the inquiry *)

\* Lines leave the stream from its front, and a closed channel loses those it
\* had read ahead.
Consumes ==
    \/ c2s' = c2s /\ ahead' \in {ahead, <<>>}
    \/ \E r \in Receives(ahead, partial, c2s) : c2s' = r.wire /\ ahead' \in {r.ahead, <<>>}

\* The session has not asked, or has had its answer, and may ask (again).
Asks == machine.state \in {"Greeting", "Handler"} \/ io = "Inquire"

\* A line of the current operation goes out, one that fits the phase; a final
\* response is its last.
Sends(line) ==
    /\ s2c' = Append(s2c, line)
    /\ line.op = dispatched
    /\ at \in Sending /\ sopen
    /\ line.kind \in {"Ok", "Err"} => at = "final" /\ at' \notin Sending
    /\ line.kind = "Inquire" => io = "Inquire"
    /\ line.kind \in {"Data", "Comment"} => machine.state = "Handler"
    /\ line.kind \in {"Ok", "Err", "Inquire", "Data", "Comment", "Status", "Fragment"}

\* A guard is left alone, or gone.
GuardKept ==
    /\ outcome' \in {outcome, "none"}
    /\ inquiry' => inquiry /\ received' = received

\* Nothing is sent or received.
Waits ==
    /\ sopen /\ sopen'
    /\ UNCHANGED <<c2s, s2c, ahead, dispatched, unanswered>>
    /\ at' \in Sending <=> at \in Sending
    /\ Asks' => Asks \/ outcome = "End"
    /\ GuardKept

\* The stream is closed from now on, whatever is left of a line being written.
Stops ==
    /\ ~sopen'
    /\ UNCHANGED dispatched
    /\ at' \in Sending => at \in Sending
    /\ Consumes
    /\ s2c' = s2c \/ \E line \in ServerLine : Sends(line)

\* A whole line goes out.
Speaks ==
    /\ sopen'
    /\ UNCHANGED <<c2s, ahead, dispatched>>
    /\ Asks' => Asks
    /\ \E line \in ServerLine :
          /\ Sends(line)
          /\ line.kind \in {"Ok", "Err"} \/ at' = at
          /\ IF line.kind = "Inquire"
             THEN unanswered' /\ outcome' = "none" /\ received' = 0
             ELSE UNCHANGED unanswered /\ GuardKept

\* A line of an inquiry, or one to be passed over, is read.
Hears ==
    /\ sopen /\ sopen'
    /\ UNCHANGED <<s2c, dispatched, at, inquiry>>
    /\ Asks' => Asks
    /\ \E r \in Receives(ahead, partial, c2s) :
          /\ c2s' = r.wire /\ ahead' = r.ahead
          /\ \/ /\ r.line.kind \in {"Comment", "Empty"}
                /\ UNCHANGED <<unanswered, outcome, received>>
             \/ /\ r.line.kind = "Data"
                /\ received' = received + r.line.len
                /\ UNCHANGED <<unanswered, outcome>>
             \/ /\ r.line.kind \in {"End", "Can"}
                /\ ~unanswered' /\ outcome' = r.line.kind

\* A command becomes the current operation.
Dispatches ==
    /\ sopen /\ sopen'
    /\ at \notin Sending /\ at' \in Sending
    /\ dispatched' = dispatched + 1
    /\ UNCHANGED <<s2c, unanswered, outcome, inquiry, received>>
    /\ \E r \in Receives(ahead, partial, c2s) :
          r.line.kind = "Command" /\ c2s' = r.wire /\ ahead' = r.ahead

Effect == UNCHANGED copen /\ (Waits \/ Stops \/ Speaks \/ Hears \/ Dispatches)

\* A line the session may be writing, whole or cut short, is one it may send.
LEMMA OutputSends ==
    ASSUME IInv, SpeakInv, at \in Sending, sopen, NEW kind \in Writing \cup {"Ok", "Err"},
           kind \in Writing => io = kind,
           kind \in {"Ok", "Err"} => at = "final" /\ at' \notin Sending,
           NEW line \in {Response(kind), [Response(kind) EXCEPT !.kind = "Fragment"]},
           s2c' = Append(s2c, line)
    PROVE  line \in ServerLine /\ Sends(line)
<1>1. Response(kind) \in ServerLine /\ [Response(kind) EXCEPT !.kind = "Fragment"] \in ServerLine
  BY Zenon DEF Response, ServerLine, Incoming, LineKind, Writing, IInv, TypeOK
<1>2. line.op = dispatched /\ line.kind \in {kind, "Fragment"}
  BY DEF Response
<1> HIDE DEF Response
<1>3. kind \in {"Data", "Comment"} => machine.state = "Handler"
  BY Zenon DEF SpeakInv, Writing
<1> QED BY <1>1, <1>2, <1>3, Zenon DEF Sends, Writing

\* A write that ends, early or not, sends at most the line being written.
LEMMA InterruptedSends ==
    ASSUME IInv, SpeakInv, at \in Sending, sopen, NEW kind \in Writing \cup {"Ok", "Err"},
           kind \in Writing => io = kind,
           kind \in {"Ok", "Err"} => at = "final" /\ at' \notin Sending,
           s2c' \in Interrupted(s2c, S2CCap, Response(kind))
    PROVE  s2c' = s2c \/ \E line \in ServerLine : Sends(line)
<1>1. \/ s2c' = s2c
      \/ \E line \in {Response(kind), [Response(kind) EXCEPT !.kind = "Fragment"]} :
            s2c' = Append(s2c, line)
  BY Zenon DEF Interrupted
<1> QED BY <1>1, OutputSends, Zenon

\* So does a session cut short wherever it stands.
LEMMA CutSends ==
    ASSUME IInv, SpeakInv, s2c' \in Cut(OutputKind), at' \notin Sending
    PROVE  s2c' = s2c \/ \E line \in ServerLine : Sends(line)
<1>1. OutputKind \in Writing \cup {"Ok", "Err", "none"}
  BY Zenon DEF OutputKind, IInv, WhereInv
<1>2. CASE OutputKind = "none"
  BY <1>2, Zenon DEF Cut
<1>3. CASE OutputKind # "none"
  <2>1. at \in Sending /\ sopen
    BY <1>3, Zenon DEF OutputKind, IInv, WhereInv, SpeakInv, Sending, Application, Writing
  <2>2. /\ OutputKind \in Writing => io = OutputKind
        /\ OutputKind \in {"Ok", "Err"} => at = "final"
    BY <1>3, Zenon DEF OutputKind, Writing, IInv, WhereInv
  <2> QED BY <1>1, <1>3, <2>1, <2>2, InterruptedSends, Zenon DEF Cut
<1> QED BY <1>2, <1>3, Zenon

\* Every step of the server has one of these effects.
LEMMA Effects ==
    ASSUME IInv, SpeakInv, ApplicationStep \/ SessionStep
    PROVE  Effect
<1>type. machine \in SM!Machine /\ outcome \in {"none", "End", "Can"}
  BY Zenon DEF IInv, TypeOK
<1>fails. ASSUME FailsIo, UNCHANGED <<at, dispatched, copen>>, Consumes,
                 s2c' = s2c \/ \E line \in ServerLine : Sends(line)
          PROVE  Effect
  BY <1>fails, Zenon DEF FailsIo, Invalidates, Closes, Stops, Effect
<1>ends. ASSUME NEW why, Ends(why), UNCHANGED <<dispatched, copen>>,
                c2s' = c2s \/ \E r \in Receives(ahead, partial, c2s) : c2s' = r.wire,
                s2c' = s2c \/ \E line \in ServerLine : Sends(line)
         PROVE  Effect
  BY <1>ends, Zenon DEF Ends, Closes, Consumes, Stops, Effect, Sending, Application
<1>says. ASSUME NEW kind \in Writing, NEW lines, StartsWrite(kind, lines), at \in Application,
                UNCHANGED <<at, dispatched, copen, unanswered, outcome, inquiry, received>>,
                UNCHANGED <<c2s, s2c>>
         PROVE  Effect
  <2>1. CASE FailsIo
    BY <1>says, <2>1, <1>fails, Zenon DEF FailsIo, Invalidates, Closes, Consumes
  <2>2. CASE ~FailsIo
    <3>1. /\ SM!SendResponse(machine, kind).err = "none" /\ UNCHANGED channelVars /\ io' = kind
          /\ machine' = SM!SendResponse(machine, kind).machine
      BY <1>says, <2>2, Zenon DEF StartsWrite
    <3>2. /\ machine.state \notin SM!Terminal
          /\ kind # "Inquire" => machine' = machine
          /\ kind = "Inquire" => machine.state \in {"Greeting", "Handler"}
      BY <1>type, <3>1, SayFacts, Zenon
    <3>3. sopen
      BY <1>says, <3>2, Zenon DEF SpeakInv
    <3>4. Asks' => Asks
      BY <3>1, <3>2, Zenon DEF Asks
    <3> QED BY <1>says, <3>1, <3>3, <3>4, Zenon DEF channelVars, Waits, GuardKept, Effect
  <2> QED BY <2>1, <2>2, Zenon
<1>1. CASE SendStatus \/ Inquire \/ HelpComment \/ \E n \in 1..MaxDataLines : SendData(n)
  BY <1>1, <1>says, Zenon
  DEF SendStatus, Inquire, HelpComment, SendData, HasContext, inquiryVars, Writing, Application
<1>2. CASE InquiryNext
  <2>1. CASE FailsIo
    BY <1>2, <2>1, <1>fails, Zenon DEF InquiryNext, FailsIo, Invalidates, Closes, Consumes
  <2>2. CASE ~FailsIo
    <3>1. /\ sopen /\ UNCHANGED <<c2s, s2c, copen, sopen, ahead, dispatched, unanswered, at>>
          /\ UNCHANGED inquiryVars /\ machine' = machine /\ io' = "next"
      BY <1>2, <2>2, Zenon DEF InquiryNext, channelVars
    <3> QED BY <3>1, Zenon DEF inquiryVars, Waits, Asks, GuardKept, Effect
  <2> QED BY <2>1, <2>2, Zenon
<1>3. CASE FinishInquiry \/ ForgetInquiry \/ DropInquiry
  <2>0. /\ io' = io /\ io = "none" /\ at \in Application /\ GuardGone
        /\ UNCHANGED <<c2s, s2c, copen, dispatched, unanswered, at>>
    BY <1>3, Zenon DEF FinishInquiry, ForgetInquiry, DropInquiry, HasContext, histVars
  <2>1. CASE ~sopen'
    <3>1. ahead' \in {ahead, <<>>}
      BY <1>3, Zenon DEF FinishInquiry, ForgetInquiry, DropInquiry, Invalidates, Closes, channelVars
    <3> QED BY <2>0, <2>1, <3>1, Zenon DEF Stops, Consumes, Effect
  <2>2. CASE sopen'
    <3>1. /\ sopen /\ ahead' = ahead
          /\ \/ machine' = machine
             \/ outcome \in {"End", "Can"} /\ SM!ReceiveRequest(machine, outcome).err = "none"
                /\ machine' = SM!ReceiveRequest(machine, outcome).machine
      BY <1>3, <2>2, <1>type, Zenon
      DEF FinishInquiry, ForgetInquiry, DropInquiry, Invalidates, Closes, channelVars
    <3>2. Asks' => Asks \/ outcome = "End"
      <4>1. CASE machine' = machine
        BY <2>0, <4>1, Zenon DEF Asks
      <4>2. CASE machine' # machine /\ outcome = "Can"
        <5>1. machine' = [machine EXCEPT !.state = "AwaitFinal"]
          BY <3>1, <4>2, <1>type, TurnFacts, Zenon
        <5> QED BY <2>0, <5>1, <1>type, Zenon DEF Asks, SM!Machine
      <4> QED BY <3>1, <4>1, <4>2, Zenon
    <3> QED BY <2>0, <2>2, <3>1, <3>2, Zenon DEF Waits, GuardGone, GuardKept, Effect
  <2> QED BY <2>1, <2>2, Zenon
<1>4. CASE ContextWriteFails
  <2>1. at \in Sending /\ io \in Writing /\ sopen
    BY <1>4, Zenon DEF ContextWriteFails, IInv, WhereInv, SpeakInv, Writing, Sending, Application
  <2>2. s2c' = s2c \/ \E line \in ServerLine : Sends(line)
    BY <1>4, <2>1, InterruptedSends, Zenon DEF ContextWriteFails, Writing
  <2> QED BY <1>4, <2>2, <1>fails, Zenon
    DEF ContextWriteFails, FailsIo, Invalidates, Closes, Consumes
<1>5. CASE InquiryReadFails
  BY <1>5, <1>fails, Zenon DEF InquiryReadFails, FailsIo, Invalidates, Closes, Consumes
<1>6. CASE Return
  <2>1. CASE at' = "final"
    <3>1. /\ machine.state \in {"Greeting", "Handler", "AwaitFinal"} /\ at \in Application
          /\ UNCHANGED <<channelVars, io, inquiryVars, dispatched, unanswered, c2s, s2c, copen>>
          /\ final' \in {"Ok", "Err"} /\ machine' = SM!SendResponse(machine, final').machine
          /\ io = "none"
      BY <1>6, <2>1, Zenon DEF Return, Ends, histVars
    <3>2. machine'.state \in {"Ready", "Invalid"}
      BY <3>1, <1>type, AnswerFacts, Zenon
    <3>3. sopen
      BY <3>1, Zenon DEF SpeakInv, SM!Terminal
    <3> QED BY <2>1, <3>1, <3>2, <3>3, Zenon
      DEF channelVars, inquiryVars, Waits, Asks, GuardKept, Effect, Sending
  <2>2. CASE at' # "final"
    BY <1>6, <2>2, <1>ends, Zenon DEF Return, histVars
  <2> QED BY <2>1, <2>2, Zenon
<1>7. CASE ReturnFails
  BY <1>7, <1>ends, Zenon DEF ReturnFails, histVars
<1>8. CASE Run
  BY <1>8, Zenon
  DEF Run, Closes, channelVars, localVars, inquiryVars, histVars, Effect, Waits, Stops, Asks,
      GuardKept, Consumes, Sending, Application, SpeakInv
<1>9. CASE HookEnds
  BY <1>9, Zenon
  DEF HookEnds, channelVars, histVars, Effect, Stops, Consumes, Sending, Application, IInv, WhereInv
<1>10. CASE Expire \/ ExpireInquiry
  <2>1. /\ UNCHANGED <<c2s, s2c, copen, sopen, ahead, machine, at, io, dispatched, unanswered>>
        /\ UNCHANGED <<inquiry, outcome, received>>
    BY <1>10, Zenon DEF Expire, ExpireInquiry, channelVars, localVars, inquiryVars, histVars
  <2> QED BY <2>1, Zenon DEF Effect, Waits, Stops, Consumes, Asks, GuardKept
<1>11. CASE Abort
  <2>1. at' \notin Sending
    BY <1>11, Zenon DEF Abort, Sending, Application
  <2>2. s2c' = s2c \/ \E line \in ServerLine : Sends(line)
    BY <1>11, <2>1, CutSends, Zenon DEF Abort
  <2> QED BY <1>11, <2>1, <2>2, Zenon DEF Abort, Closes, histVars, Effect, Stops, Consumes
<1>12. CASE SkipRequest
  <2> PICK r \in Receives(ahead, partial, c2s) :
          r.line.kind \in {"Comment", "Empty"} /\ c2s' = r.wire /\ IdleContinues(r)
    BY <1>12, Zenon DEF SkipRequest
  <2>1. CASE Ends("Timeout")
    BY <1>12, <2>1, <1>ends, Zenon DEF SkipRequest, histVars
  <2>2. CASE ~Ends("Timeout")
    <3>1. /\ UNCHANGED <<machine, sopen, at, io, inquiryVars, dispatched, unanswered, s2c, copen>>
          /\ ahead' = r.ahead
      BY <1>12, <2>2, Zenon DEF SkipRequest, IdleContinues, localVars, histVars
    <3>2. sopen
      BY <1>12, Zenon DEF SkipRequest, SpeakInv
    <3> QED BY <3>1, <3>2, Zenon DEF inquiryVars, Hears, Asks, Effect
  <2> QED BY <2>1, <2>2, Zenon
<1>13. CASE RefuseRequest
  BY <1>13, <1>ends, Zenon DEF RefuseRequest, histVars
<1>14. CASE Dispatch
  <2>1. sopen
    BY <1>14, Zenon DEF Dispatch, SpeakInv
  <2> QED BY <1>14, <2>1, Zenon
    DEF Dispatch, inquiryVars, Effect, Dispatches, Sending, Application
<1>15. ASSUME NEW why, IdleStops(why)
       PROVE  Effect
  BY <1>15, <1>ends, Zenon DEF IdleStops, histVars
<1>16. CASE HandlerTimeout
  <2>1. at' \notin Sending
    BY <1>16, Zenon DEF HandlerTimeout, Ends, Sending, Application
  <2>2. s2c' = s2c \/ \E line \in ServerLine : Sends(line)
    BY <1>16, <2>1, CutSends, Zenon DEF HandlerTimeout
  <2> QED BY <1>16, <2>2, <1>ends, Zenon DEF HandlerTimeout, histVars
<1>17. ASSUME NEW why, FinalFails(why)
       PROVE  Effect
  <2>1. at' \notin Sending /\ at = "final" /\ final \in {"Ok", "Err"} /\ at \in Sending /\ sopen
    BY <1>17, Zenon DEF FinalFails, Ends, Sending, Application, IInv, WhereInv, SpeakInv
  <2>2. s2c' = s2c \/ \E line \in ServerLine : Sends(line)
    BY <1>17, <2>1, InterruptedSends, Zenon DEF FinalFails, Cut, Writing
  <2> QED BY <1>17, <2>2, <1>ends, Zenon DEF FinalFails, histVars
<1>18. CASE FinalWritten
  <2>1. /\ at' \notin Sending /\ at = "final" /\ final \in {"Ok", "Err"} /\ at \in Sending
        /\ sopen /\ s2c' = Append(s2c, Response(final))
        /\ UNCHANGED <<dispatched, unanswered, c2s, copen>>
    BY <1>18, Zenon DEF FinalWritten, Ends, Sending, Application, IInv, WhereInv, SpeakInv
  <2>2. Response(final) \in ServerLine /\ Sends(Response(final))
    BY <2>1, OutputSends, Zenon DEF Writing
  <2>3. CASE at' = "idle"
    <3>1. UNCHANGED <<machine, channelVars>> /\ LocalsGone
      BY <1>18, <2>3, Zenon DEF FinalWritten, Ends
    <3>2. Response(final).kind = final
      BY Zenon DEF Response
    <3> HIDE DEF Response
    <3> QED BY <2>1, <2>2, <3>1, <3>2, Zenon
      DEF channelVars, LocalsGone, GuardGone, GuardKept, Asks, Speaks, Effect
  <2>4. CASE at' # "idle"
    <3>1. \E why : Ends(why)
      BY <1>18, <2>4, Zenon DEF FinalWritten
    <3> QED BY <2>1, <2>2, <3>1, <1>ends, Zenon
  <2> QED BY <2>3, <2>4, Zenon
<1>19. CASE ContextWritten
  <2>1. /\ at \in Sending /\ at \in Application /\ io \in Writing /\ sopen
        /\ s2c' = Append(s2c, Response(io))
        /\ UNCHANGED <<at, dispatched, c2s, copen>> /\ Response(io).kind = io
    BY <1>19, Zenon
    DEF ContextWritten, IInv, WhereInv, SpeakInv, Writing, Sending, Application, Response
  <2>2. Response(io) \in ServerLine /\ Sends(Response(io))
    BY <2>1, OutputSends, Zenon DEF Writing, Application
  <2>3. CASE FailsIo
    <3>1. Consumes
      BY <2>1, <2>3, Zenon DEF FailsIo, Invalidates, Closes, Consumes
    <3> QED BY <2>1, <2>2, <2>3, <3>1, <1>fails, Zenon
  <2>4. CASE ~FailsIo
    <3>1. /\ UNCHANGED <<machine, channelVars>> /\ io' \in {io, "none"}
          /\ IF io = "Inquire"
             THEN outcome' = "none" /\ received' = 0 /\ unanswered' = TRUE
             ELSE UNCHANGED <<inquiry, outcome, received, unanswered>>
      BY <1>19, <2>4, Zenon DEF ContextWritten
    <3> HIDE DEF Response
    <3> QED BY <2>1, <2>2, <3>1, Zenon DEF channelVars, GuardKept, Asks, Speaks, Effect, Writing
  <2> QED BY <2>3, <2>4, Zenon
<1>20. CASE InquiryLine
  <2>0. io = "next" /\ sopen /\ UNCHANGED <<at, dispatched, inquiry, s2c, copen>>
    BY <1>20, Zenon DEF InquiryLine, SpeakInv
  <2> PICK r \in Receives(ahead, partial, c2s) :
          /\ c2s' = r.wire
          /\ InquiryAnswered(r) \/ InquiryData(r) \/ InquirySkips(r) \/ InquiryRefuses(r)
    BY <1>20, Zenon DEF InquiryLine
  <2>1. CASE FailsIo
    <3>1. Consumes
      BY <2>1, Zenon DEF FailsIo, Invalidates, Closes, Consumes
    <3> QED BY <2>0, <2>1, <3>1, <1>fails, Zenon
  <2>2. CASE ~FailsIo
    <3>1. /\ UNCHANGED <<machine, sopen>> /\ ahead' = r.ahead /\ io' \in {io, "none"}
      BY <2>2, Zenon DEF InquiryAnswered, InquiryData, InquirySkips, InquiryRefuses
    <3>2. \/ /\ r.line.kind \in {"Comment", "Empty"}
             /\ UNCHANGED <<unanswered, outcome, received>>
          \/ /\ r.line.kind = "Data"
             /\ received' = received + r.line.len
             /\ UNCHANGED <<unanswered, outcome>>
          \/ /\ r.line.kind \in {"End", "Can"}
             /\ ~unanswered' /\ outcome' = r.line.kind
      BY <2>2, Zenon DEF InquiryAnswered, InquiryData, InquirySkips, InquiryRefuses, Skippable
    <3>3. Asks' => Asks
      BY <2>0, <3>1, Zenon DEF Asks
    <3> QED BY <2>0, <3>1, <3>2, <3>3, Zenon DEF Hears, Effect
  <2> QED BY <2>1, <2>2, Zenon
<1> QED
  BY <1>1, <1>2, <1>3, <1>4, <1>5, <1>6, <1>7, <1>8, <1>9, <1>10, <1>11, <1>12, <1>13, <1>14,
     <1>15, <1>16, <1>17, <1>18, <1>19, <1>20, Zenon
  DEF ApplicationStep, SessionStep, IdleRead, HookTimeout, IdleEof, IdleTimeout, IdleError,
      FinalTimeout, FinalError, InquiryReadTimeout
=============================================================================
