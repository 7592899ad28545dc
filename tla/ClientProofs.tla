---------------------------- MODULE ClientProofs ----------------------------
(***************************************************************************)
(* Proofs about OpenClient: a client connection against an arbitrary peer, *)
(* for every stream capacity, number of commands, inquiry budget and chunk *)
(* size.                                                                   *)
(***************************************************************************)
EXTENDS OpenClient, TLAPS

-----------------------------------------------------------------------------
(* The pure machine *)

\* Whatever it is given, the machine stays a machine.
LEMMA ReceiveType ==
    ASSUME NEW m \in CM!Machine, NEW e \in Incoming \cup {"Fragment"}
    PROVE  CM!Receive(m, e).machine \in CM!Machine
BY Zenon
DEF CM!Receive, CM!StartsInquiry, CM!FinalAfterCancel, CM!Machine, CM!ClientState,
    CM!Terminal, CM!Ignored, CM!Goes, CM!Keeps, CM!Rejects, CM!Invalidate, Incoming, LineKind

\* A final response is accepted only in a phase that waits for one, a refusal
\* never for the greeting, and leads to Ready.
LEMMA ReceiveFinal ==
    ASSUME NEW m \in CM!Machine, NEW e \in {"Ok", "Err"},
           CM!Receive(m, e).err = "none"
    PROVE  /\ m.state \in {"Greeting", "Command", "AwaitFinal"}
           /\ CM!Receive(m, e).machine.state = "Ready"
           /\ e = "Err" => m.state # "Greeting"
           /\ e = "Err" /\ m.state = "AwaitFinal" => m.origin # "Greeting"
BY Zenon
DEF CM!Receive, CM!StartsInquiry, CM!FinalAfterCancel, CM!Machine, CM!ClientState,
    CM!Terminal, CM!Ignored, CM!Goes, CM!Keeps, CM!Rejects, CM!Invalidate

\* An inquiry starts in the greeting or in a command and remembers which.
LEMMA ReceiveInquire ==
    ASSUME NEW m \in CM!Machine, CM!Receive(m, "Inquire").err = "none"
    PROVE  /\ m.state \in {"Greeting", "Command"}
           /\ CM!Receive(m, "Inquire").machine = [state |-> "Inquiry", origin |-> m.state]
BY Zenon
DEF CM!Receive, CM!StartsInquiry, CM!FinalAfterCancel, CM!Machine, CM!ClientState,
    CM!Terminal, CM!Ignored, CM!Goes, CM!Keeps, CM!Rejects, CM!Invalidate

\* Every other accepted line leaves the machine alone.
LEMMA ReceiveOther ==
    ASSUME NEW m \in CM!Machine, NEW e \in (Incoming \cup {"Fragment"}) \ {"Ok", "Err", "Inquire"},
           CM!Receive(m, e).err = "none"
    PROVE  CM!Receive(m, e).machine = m
BY Zenon
DEF CM!Receive, CM!StartsInquiry, CM!FinalAfterCancel, CM!Machine, CM!ClientState,
    CM!Terminal, CM!Ignored, CM!Goes, CM!Keeps, CM!Rejects, CM!Invalidate, Incoming, LineKind

\* invalidate never revives and always ends in a terminal phase.
LEMMA InvalidateFacts ==
    ASSUME NEW m \in CM!Machine
    PROVE  CM!Invalidate(m) \in CM!Machine /\ CM!Invalidate(m).state \in CM!Terminal
BY Zenon DEF CM!Machine, CM!ClientState, CM!Terminal, CM!Invalidate

\* begin_command in Ready, and finish_inquiry in an inquiry.
LEMMA BeginCommandFacts ==
    ASSUME NEW m \in CM!Machine, m.state = "Ready"
    PROVE  CM!BeginCommand(m).machine.state = "Command"
BY Zenon DEF CM!BeginCommand, CM!Goes, CM!Keeps, CM!Machine, CM!ClientState, CM!Terminal

\* finish_inquiry leaves an open inquiry for its origin, or to await the final.
LEMMA FinishInquiryFacts ==
    ASSUME NEW m \in CM!Machine, NEW c \in BOOLEAN, m.state = "Inquiry"
    PROVE  /\ CM!FinishInquiry(m, c).machine.state = IF c THEN "AwaitFinal" ELSE m.origin
           /\ CM!FinishInquiry(m, c).machine.origin = m.origin
BY Zenon DEF CM!FinishInquiry, CM!Goes, CM!Keeps, CM!Machine, CM!ClientState, CM!Terminal

-----------------------------------------------------------------------------
(* The inductive invariant *)

(***************************************************************************)
(* Where a parked call can be: which phase, which guards, and that the     *)
(* marker is set while it is parked and stays set once it is lost.         *)
(***************************************************************************)
ParkedInv ==
    /\ io # "none" => io_uncertain /\ ~broken
    /\ broken => io_uncertain
    /\ io = "next" => /\ machine.state \in {"Greeting", "Command", "AwaitFinal"}
                      /\ completion = "Pending" /\ ~inquiry
                      /\ transaction \/ owner = "handshake"
    /\ io = "drain" => /\ machine.state = "Ready"
                       /\ owner = "client" /\ ~transaction /\ ~inquiry
    /\ io = "command" => /\ machine.state = "Command"
                         /\ owner = "client" /\ ~transaction /\ ~inquiry
                         /\ ~HasBufferedInput
    /\ io \in {"data", "End", "Can"} => machine.state = "Inquiry" /\ inquiry

\* The phase says how many final responses have been accepted.
CountInv ==
    /\ machine.state \in {"Greeting", "Command", "Inquiry", "AwaitFinal"} => finals = begun
    /\ machine.state = "Ready" => finals = begun + 1
    /\ (transaction \/ owner = "handshake") =>
          IF completion = "Pending" THEN machine.state # "Ready" ELSE finals = begun + 1

\* Who holds the core, and what the phase can be with that owner.
OwnerInv ==
    /\ owner = "handshake" =>
          completion # "Remote" /\ machine.state # "Command" /\ ~transaction
    /\ owner = "client" => machine.state # "Greeting" /\ finals > 0
    /\ transaction => owner = "client"
    /\ inquiry => transaction \/ owner = "handshake"
    /\ machine.state \in {"Inquiry", "AwaitFinal"} =>
          /\ owner = "handshake" => machine.origin = "Greeting"
          /\ owner = "client" => machine.origin = "Command"

BudgetInv == sent + rest <= total /\ total <= MaxInquiryBytes

IInv == TypeOK /\ ParkedInv /\ CountInv /\ OwnerInv /\ BudgetInv

-----------------------------------------------------------------------------
(* Type correctness *)

\* What a receive hands on is made of lines of the stream.
LEMMA ReceivesType ==
    ASSUME ahead \in Seq(ServerLine), partial \in BOOLEAN, s2c \in Seq(ServerLine),
           NEW r \in Receives(ahead, partial, s2c)
    PROVE  /\ r.line \in ServerLine
           /\ r.ahead \in Seq(ServerLine)
           /\ r.partial \in BOOLEAN
           /\ r.wire \in Seq(ServerLine)
<1> DEFINE L == ServerLine
<1>1. CASE ahead # <<>>
  <2>1. Head(ahead) \in L /\ Tail(ahead) \in Seq(L)
    BY <1>1
  <2>2. r = [line |-> Head(ahead), ahead |-> Tail(ahead), partial |-> partial, wire |-> s2c]
    BY <1>1 DEF Receives
  <2> HIDE DEF L
  <2>3. r.partial = partial /\ r.line = Head(ahead) /\ r.ahead = Tail(ahead) /\ r.wire = s2c
    BY <2>2, Zenon
  <2> QED BY <2>1, <2>3, Zenon DEF L
<1>2. CASE ahead = <<>>
  <2>1. PICK k \in 1..Len(s2c), p \in BOOLEAN :
           r = [line |-> s2c[1], ahead |-> SubSeq(s2c, 2, k),
                partial |-> p /\ k < Len(s2c), wire |-> SubSeq(s2c, k + 1, Len(s2c))]
    BY <1>2 DEF Receives
  <2> HIDE DEF L
  <2>2. s2c[1] \in L /\ SubSeq(s2c, 2, k) \in Seq(L) /\ SubSeq(s2c, k + 1, Len(s2c)) \in Seq(L)
    BY DEF L
  <2>3. (p /\ k < Len(s2c)) \in BOOLEAN
    BY Zenon
  <2> QED BY <2>1, <2>2, <2>3, Zenon DEF L
<1> QED BY <1>1, <1>2, Zenon

\* The line a write puts on the stream.
LEMMA OutputType ==
    ASSUME TypeOK, io \in Writing
    PROVE  Output \in ClientLine /\ [Output EXCEPT !.kind = "Fragment"] \in ClientLine
<1>1. CASE io = "command"
  BY <1>1, Zenon DEF Output, ClientLine, TypeOK, Outgoing, RequestKind
<1>2. CASE io = "data"
  BY <1>2, ClientAssumption, Zenon DEF Output, ClientLine, TypeOK, Outgoing, RequestKind, Chunk
<1>3. CASE io \in {"End", "Can"}
  BY <1>3, Zenon DEF Output, ClientLine, TypeOK, Outgoing, RequestKind
<1> QED BY <1>1, <1>2, <1>3, Zenon DEF Writing

\* A write that ends, early or not, leaves a stream of lines.
LEMMA StreamType ==
    ASSUME TypeOK, io \in Writing
    PROVE  /\ Append(c2s, Output) \in Seq(ClientLine)
           /\ Interrupted(c2s, C2SCap, Output) \subseteq Seq(ClientLine)
<1>1. c2s \in Seq(ClientLine)
  BY Zenon DEF TypeOK, WireTypeOK
<1> QED BY <1>1, OutputType DEF Interrupted

\* Flags stay Boolean.
BoolOK ==
    /\ copen \in BOOLEAN /\ sopen \in BOOLEAN
    /\ io_uncertain \in BOOLEAN /\ partial \in BOOLEAN /\ expired \in BOOLEAN
    /\ error \in BOOLEAN /\ transaction \in BOOLEAN
    /\ inquiry \in BOOLEAN /\ inquiry_expired \in BOOLEAN
    /\ broken \in BOOLEAN

\* The rest of TypeOK.
DataOK ==
    /\ c2s \in Seq(ClientLine) /\ s2c \in Seq(ServerLine)
    /\ machine \in CM!Machine
    /\ ahead \in Seq(ServerLine)
    /\ owner \in {"handshake", "client", "dropped"}
    /\ completion \in {"Pending", "Success", "Remote"}
    /\ sent \in Nat /\ total \in Nat /\ rest \in Nat
    /\ name \in Names \cup {"-"}
    /\ io \in {"none"} \cup Reading \cup Writing
    /\ begun \in Nat /\ finals \in Nat

\* TypeOK in two parts: Boolean variables, and variables that hold data.
LEMMA TypeSplit == TypeOK <=> BoolOK /\ DataOK
BY Zenon DEF TypeOK, WireTypeOK, BoolOK, DataOK

\* Every step keeps the flags Boolean.
LEMMA BoolStep ==
    ASSUME TypeOK, Next
    PROVE  BoolOK'
<1> USE DEF BoolOK, vars, clientVars, coreVars, channelVars, guardVars, inquiryVars, histVars
<1>0. BoolOK /\ DataOK
  BY TypeSplit, Zenon
<1>1. CASE HandshakeNext
  BY <1>0, <1>1, Zenon DEF HandshakeNext, NextEvent, StartsIo, FailsIo, Invalidates
<1>2. CASE HandshakeFinish
  BY <1>0, <1>2, Zenon DEF HandshakeFinish
<1>3. CASE TransactionNext
  BY <1>0, <1>3, Zenon DEF TransactionNext, NextEvent, StartsIo, FailsIo, Invalidates
<1>4. CASE \E n \in Names : Command(n)
  BY <1>0, <1>4, Zenon
  DEF Command, AcceptsCommand, WritesCommand, StartsIo, FailsIo, Invalidates
<1>5. CASE \E n \in SendSizes : Send(n)
  BY <1>0, <1>5, Zenon DEF Send, StartsIo, FailsIo, Invalidates
<1>6. CASE \E k \in {"End", "Can"} : CompleteInquiry(k)
  BY <1>0, <1>6, Zenon DEF CompleteInquiry, GuardGone, StartsIo, FailsIo, Invalidates
<1>7. CASE CancelRead
  BY <1>0, <1>7, Zenon DEF CancelRead
<1>8. CASE CancelWrite
  BY <1>0, <1>8, Zenon DEF CancelWrite, GuardGone, Invalidates
<1>9. CASE DropInquiry
  BY <1>0, <1>9, Zenon DEF DropInquiry, GuardGone, Invalidates
<1>10. CASE ForgetInquiry
  BY <1>0, <1>10, Zenon DEF ForgetInquiry, GuardGone
<1>11. CASE ReleaseTransaction
  BY <1>0, <1>11, Zenon DEF ReleaseTransaction, Invalidates
<1>12. CASE ForgetTransaction
  BY <1>0, <1>12, Zenon DEF ForgetTransaction
<1>13. CASE DropOwner
  BY <1>0, <1>13, Zenon DEF DropOwner
<1>14. CASE RejectLine
  BY <1>0, <1>14, ReceivesType, Zenon DEF RejectLine, FailsIo, Invalidates, DataOK
<1>15. CASE SkipEmptyLine
  BY <1>0, <1>15, ReceivesType, Zenon
  DEF SkipEmptyLine, ReadsOn, FailsIo, Invalidates, DataOK
<1>16. CASE DeliverEvent
  BY <1>0, <1>16, ReceivesType, Zenon DEF DeliverEvent, TakesEvent, DataOK
<1>17. CASE InquiryNewFails
  BY <1>0, <1>17, ReceivesType, Zenon DEF InquiryNewFails, DataOK
<1>18. CASE DrainLine
  BY <1>0, <1>18, ReceivesType, Zenon
  DEF DrainLine, ReadsOn, WritesCommand, FailsIo, Invalidates, DataOK
<1>19. CASE ReadFails
  BY <1>0, <1>19, Zenon DEF ReadFails, FailsIo, Invalidates
<1>20. CASE CommandWritten
  BY <1>0, <1>20, Zenon DEF CommandWritten, Delivers
<1>21. CASE DataWritten
  BY <1>0, <1>21, Zenon DEF DataWritten, Delivers, StartsIo, FailsIo, Invalidates
<1>22. CASE CompletionWritten
  BY <1>0, <1>22, Zenon DEF CompletionWritten, GuardGone, Delivers
<1>23. CASE WriteFails
  BY <1>0, <1>23, Zenon DEF WriteFails, GuardGone, FailsIo, Invalidates
<1>24. CASE ExpireCore
  BY <1>0, <1>24, Zenon DEF ExpireCore
<1>25. CASE ExpireInquiry
  BY <1>0, <1>25, Zenon DEF ExpireInquiry
<1>26. CASE PeerReads
  BY <1>0, <1>26, Zenon DEF PeerReads
<1>27. CASE PeerCloses
  BY <1>0, <1>27, Zenon DEF PeerCloses
<1>28. CASE \E k \in PeerKinds : PeerSends(k)
  BY <1>0, <1>28, Zenon DEF PeerSends
<1> QED
  BY <1>1, <1>2, <1>3, <1>4, <1>5, <1>6, <1>7, <1>8, <1>9, <1>10, <1>11, <1>12, <1>13,
     <1>14, <1>15, <1>16, <1>17, <1>18, <1>19, <1>20, <1>21, <1>22, <1>23, <1>24, <1>25,
     <1>26, <1>27, <1>28, Zenon
  DEF Next, Calls, Resumes, Peer, ReadLine, ReadTimeout, ReadEof, ReadError,
     WriteTimeout, WriteError

\* A wiped read-ahead is well typed.
LEMMA EmptyAhead == <<>> \in Seq(ServerLine)
OBVIOUS

\* The effect of starting an await on the core.
LEMMA StartsIoType ==
    ASSUME DataOK, NEW call \in Reading \cup Writing, NEW late, StartsIo(call, late)
    PROVE  /\ machine' \in CM!Machine
           /\ ahead' \in Seq(ServerLine)
           /\ io' \in {"none", call}
BY InvalidateFacts, EmptyAhead, Zenon DEF DataOK, StartsIo, FailsIo, Invalidates, channelVars

\* Writing a command keeps the data well typed.
LEMMA WritesCommandType ==
    ASSUME DataOK, NEW late, NEW a \in Seq(ServerLine), NEW p, WritesCommand(late, a, p)
    PROVE  /\ machine' \in CM!Machine
           /\ ahead' \in Seq(ServerLine)
           /\ io' \in {"none", "command"}
           /\ begun' \in Nat
<1>1. CM!BeginCommand(machine).machine \in CM!Machine
  BY Zenon DEF DataOK, CM!BeginCommand, CM!Goes, CM!Keeps, CM!Machine, CM!ClientState
<1>2. CASE FailsIo
  BY <1>2, InvalidateFacts, EmptyAhead DEF DataOK, WritesCommand, FailsIo, Invalidates
<1>3. CASE ~FailsIo
  BY <1>1, <1>3 DEF DataOK, WritesCommand
<1> QED BY <1>2, <1>3, Zenon

\* Every step keeps the rest of the type.
LEMMA DataStep ==
    ASSUME TypeOK, Next
    PROVE  DataOK'
<1> USE DEF DataOK, Reading, Writing, vars, clientVars, coreVars, channelVars, guardVars,
            inquiryVars, histVars
<1>0. BoolOK /\ DataOK
  BY TypeSplit, Zenon
<1>1. CASE HandshakeNext
  BY <1>0, <1>1, InvalidateFacts, EmptyAhead, Zenon
  DEF HandshakeNext, NextEvent, StartsIo, FailsIo, Invalidates
<1>2. CASE HandshakeFinish
  BY <1>0, <1>2, EmptyAhead, Zenon DEF HandshakeFinish
<1>3. CASE TransactionNext
  BY <1>0, <1>3, InvalidateFacts, EmptyAhead, Zenon
  DEF TransactionNext, NextEvent, StartsIo, FailsIo, Invalidates
<1>4. CASE \E n \in Names : Command(n)
  <2> PICK n \in Names : Command(n)
    BY <1>4, Zenon
  <2>1. machine' \in CM!Machine /\ ahead' \in Seq(ServerLine) /\ begun' \in Nat
        /\ io' \in {io, "none", "drain", "command"}
    <3>1. CASE Invalidates
      BY <1>0, <3>1, InvalidateFacts, EmptyAhead, StartsIoType, WritesCommandType, Zenon
      DEF Command, AcceptsCommand, Invalidates
    <3>2. CASE ~Invalidates
      BY <1>0, <3>2, StartsIoType, WritesCommandType, Zenon DEF Command, AcceptsCommand
    <3> QED BY <3>1, <3>2, Zenon
  <2>2. name' \in Names \cup {"-"}
    BY <1>0, Zenon DEF Command, AcceptsCommand
  <2> QED BY <1>0, <2>1, <2>2, Zenon DEF Command, AcceptsCommand
<1>5. CASE \E n \in SendSizes : Send(n)
  <2> PICK n \in SendSizes : Send(n)
    BY <1>5, Zenon
  <2>1. machine' \in CM!Machine /\ ahead' \in Seq(ServerLine) /\ io' \in {io, "none", "data"}
    BY <1>0, InvalidateFacts, EmptyAhead, StartsIoType, Zenon DEF Send, Fits, Invalidates
  <2>2. total' \in Nat /\ rest' \in Nat
    BY <1>0, ClientAssumption DEF Send, Fits
  <2> QED BY <1>0, <2>1, <2>2, Zenon DEF Send, Fits
<1>6. CASE \E k \in {"End", "Can"} : CompleteInquiry(k)
  <2> PICK k \in {"End", "Can"} : CompleteInquiry(k)
    BY <1>6, Zenon
  <2>1. machine' \in CM!Machine /\ ahead' \in Seq(ServerLine) /\ io' \in {io, "none", k}
    BY <1>0, InvalidateFacts, EmptyAhead, StartsIoType, Zenon DEF CompleteInquiry, Invalidates
  <2>2. sent' \in Nat /\ total' \in Nat /\ rest' \in Nat
    <3>1. GuardGone \/ UNCHANGED inquiryVars
      BY Zenon DEF CompleteInquiry
    <3> QED BY <1>0, <3>1 DEF GuardGone
  <2> QED BY <1>0, <2>1, <2>2, Zenon DEF CompleteInquiry
<1>7. CASE CancelRead
  BY <1>0, <1>7, Zenon DEF CancelRead
<1>8. CASE CancelWrite
  <2>1. c2s' \in Seq(ClientLine)
    BY <1>8, StreamType, Zenon DEF CancelWrite
  <2>2. machine' \in CM!Machine /\ ahead' \in Seq(ServerLine)
    BY <1>0, <1>8, InvalidateFacts, EmptyAhead, Zenon DEF CancelWrite, Invalidates
  <2>3. sent' \in Nat /\ total' \in Nat /\ rest' \in Nat
    BY <1>0, <1>8 DEF CancelWrite, GuardGone
  <2> QED BY <1>0, <1>8, <2>1, <2>2, <2>3, Zenon DEF CancelWrite
<1>9. CASE DropInquiry
  BY <1>0, <1>9, InvalidateFacts, EmptyAhead, Zenon DEF DropInquiry, GuardGone, Invalidates
<1>10. CASE ForgetInquiry
  BY <1>0, <1>10, Zenon DEF ForgetInquiry, GuardGone
<1>11. CASE ReleaseTransaction
  BY <1>0, <1>11, InvalidateFacts, EmptyAhead, Zenon DEF ReleaseTransaction, Invalidates
<1>12. CASE ForgetTransaction
  BY <1>0, <1>12, Zenon DEF ForgetTransaction
<1>13. CASE DropOwner
  BY <1>0, <1>13 DEF DropOwner
<1>14. CASE RejectLine
  BY <1>0, <1>14, InvalidateFacts, ReceivesType, EmptyAhead, Zenon
  DEF RejectLine, FailsIo, Invalidates, BoolOK
<1>15. CASE SkipEmptyLine
  BY <1>0, <1>15, InvalidateFacts, ReceivesType, EmptyAhead, Zenon
  DEF SkipEmptyLine, ReadsOn, FailsIo, Invalidates, BoolOK
<1>16. CASE DeliverEvent
  <2> PICK r \in Receives(ahead, partial, s2c) :
          /\ s2c' = r.wire
          /\ machine' = CM!Receive(machine, r.line.kind).machine
          /\ ahead' = r.ahead
          /\ TakesEvent(r.line)
    BY <1>16, Zenon DEF DeliverEvent
  <2>1. r.line \in ServerLine /\ ahead' \in Seq(ServerLine) /\ s2c' \in Seq(ServerLine)
    BY <1>0, ReceivesType, Zenon DEF BoolOK
  <2>2. machine' \in CM!Machine
    BY <1>0, <2>1, ReceiveType, Zenon DEF ServerLine
  <2>3. /\ completion' \in {"Pending", "Success", "Remote"} /\ finals' \in Nat
        /\ sent' \in Nat /\ total' \in Nat /\ rest' \in Nat
    BY <1>0 DEF TakesEvent
  <2> QED BY <1>0, <1>16, <2>1, <2>2, <2>3, Zenon DEF DeliverEvent
<1>17. CASE InquiryNewFails
  <2> PICK r \in Receives(ahead, partial, s2c) :
          /\ s2c' = r.wire
          /\ machine' = CM!Invalidate(CM!Receive(machine, r.line.kind).machine)
    BY <1>17, Zenon DEF InquiryNewFails
  <2>1. r.line \in ServerLine /\ s2c' \in Seq(ServerLine)
    BY <1>0, ReceivesType, Zenon DEF BoolOK
  <2>2. machine' \in CM!Machine
    BY <1>0, <2>1, ReceiveType, InvalidateFacts, Zenon DEF ServerLine
  <2> QED BY <1>0, <1>17, <2>1, <2>2, EmptyAhead, Zenon DEF InquiryNewFails
<1>18. CASE DrainLine
  <2> PICK r \in Receives(ahead, partial, s2c) :
          /\ s2c' = r.wire
          /\ \/ ReadsOn(r) /\ begun' = begun
             \/ WritesCommand(expired, r.ahead, r.partial)
    BY <1>18, Zenon DEF DrainLine
  <2>1. r.ahead \in Seq(ServerLine) /\ s2c' \in Seq(ServerLine)
    BY <1>0, ReceivesType, Zenon DEF BoolOK
  <2>2. machine' \in CM!Machine /\ ahead' \in Seq(ServerLine) /\ begun' \in Nat
        /\ io' \in {io, "none", "command"}
    BY <1>0, <2>1, InvalidateFacts, EmptyAhead, WritesCommandType, Zenon
    DEF ReadsOn, FailsIo, Invalidates
  <2> QED BY <1>0, <1>18, <2>1, <2>2, Zenon DEF DrainLine
<1>19. CASE ReadFails
  BY <1>0, <1>19, InvalidateFacts, EmptyAhead, Zenon DEF ReadFails, FailsIo, Invalidates
<1>20. CASE CommandWritten
  BY <1>0, <1>20, StreamType, Zenon DEF CommandWritten, Delivers
<1>21. CASE DataWritten
  <2>1. c2s' \in Seq(ClientLine)
    BY <1>21, StreamType, Zenon DEF DataWritten, Remaining, Delivers
  <2>2. machine' \in CM!Machine /\ ahead' \in Seq(ServerLine) /\ io' \in {"none", "data"}
    BY <1>0, <1>21, StartsIoType, Zenon DEF DataWritten, Remaining
  <2>3. rest' \in Nat /\ sent' \in Nat
    BY <1>0, <1>21, ClientAssumption DEF DataWritten, Remaining, Chunk
  <2> QED BY <1>0, <1>21, <2>1, <2>2, <2>3, Zenon DEF DataWritten, Remaining
<1>22. CASE CompletionWritten
  BY <1>0, <1>22, StreamType
  DEF CompletionWritten, GuardGone, Delivers, CM!FinishInquiry, CM!Goes, CM!Keeps,
      CM!Machine, CM!ClientState
<1>23. CASE WriteFails
  BY <1>0, <1>23, InvalidateFacts, StreamType, EmptyAhead
  DEF WriteFails, GuardGone, FailsIo, Invalidates
<1>24. CASE ExpireCore
  BY <1>0, <1>24, Zenon DEF ExpireCore
<1>25. CASE ExpireInquiry
  BY <1>0, <1>25, Zenon DEF ExpireInquiry
<1>26. CASE PeerReads
  BY <1>0, <1>26 DEF PeerReads
<1>27. CASE PeerCloses
  <2>1. Append(s2c, [kind |-> "Fragment", op |-> 0]) \in Seq(ServerLine)
    BY <1>0 DEF ServerLine
  <2>2. s2c' \in Seq(ServerLine)
    BY <1>0, <1>27, <2>1, Zenon DEF PeerCloses
  <2> QED BY <1>0, <1>27, <2>2, Zenon DEF PeerCloses
<1>28. CASE \E k \in PeerKinds : PeerSends(k)
  BY <1>0, <1>28, PeerAssumption DEF PeerSends, ServerLine
<1> HIDE DEF DataOK
<1> QED
  BY <1>1, <1>2, <1>3, <1>4, <1>5, <1>6, <1>7, <1>8, <1>9, <1>10, <1>11, <1>12, <1>13,
     <1>14, <1>15, <1>16, <1>17, <1>18, <1>19, <1>20, <1>21, <1>22, <1>23, <1>24, <1>25,
     <1>26, <1>27, <1>28, Zenon
  DEF Next, Calls, Resumes, Peer, ReadLine, ReadTimeout, ReadEof, ReadError,
     WriteTimeout, WriteError




\* Every step keeps TypeOK, and so does a step that changes nothing.
LEMMA TypeStep ==
    ASSUME TypeOK, [Next]_vars
    PROVE  TypeOK'
<1>1. BoolOK' /\ DataOK'
  <2>1. CASE Next
    BY <2>1, BoolStep, DataStep, Zenon
  <2>2. CASE UNCHANGED vars
    <3> USE DEF vars, clientVars, coreVars, channelVars, guardVars, inquiryVars, histVars
    <3>1. BoolOK'
      BY <2>2, TypeSplit, Zenon DEF BoolOK
    <3>2. DataOK'
      BY <2>2, TypeSplit, Zenon DEF DataOK
    <3> QED BY <3>1, <3>2, Zenon
  <2> QED BY <2>1, <2>2, Zenon
<1> QED BY <1>1, Zenon DEF TypeOK, WireTypeOK, BoolOK, DataOK

-----------------------------------------------------------------------------
(* The invariant is inductive *)

\* A guard that goes, or keeps its counters, stays within the budget.
LEMMA BudgetKept ==
    ASSUME BudgetInv, GuardGone \/ UNCHANGED inquiryVars
    PROVE  BudgetInv'
<1>1. CASE GuardGone
  BY <1>1, ClientAssumption DEF BudgetInv, GuardGone
<1>2. CASE UNCHANGED inquiryVars
  BY <1>2, Zenon DEF BudgetInv, inquiryVars
<1> QED BY <1>1, <1>2, Zenon


\* Every step keeps the invariant.
LEMMA InvStep ==
    ASSUME IInv, TypeOK', Next
    PROVE  IInv'
<1> USE DEF IInv, TypeOK, ParkedInv, CountInv, OwnerInv, BudgetInv, HasBufferedInput, CM!Terminal,
            Reading, Writing, vars, clientVars, coreVars, channelVars, guardVars, inquiryVars,
            histVars
<1>1. CASE HandshakeNext
  BY <1>1, InvalidateFacts, Zenon
  DEF HandshakeNext, NextEvent, Unusable, StartsIo, FailsIo, Invalidates, CM!Machine,
      CM!ClientState
<1>2. CASE HandshakeFinish
  BY <1>2 DEF HandshakeFinish, Unusable
<1>3. CASE TransactionNext
  BY <1>3, InvalidateFacts
  DEF TransactionNext, NextEvent, Unusable, StartsIo, FailsIo, Invalidates, CM!Machine,
      CM!ClientState
<1>4. CASE \E n \in Names : Command(n)
  <2>1. ParkedInv'
    BY <1>4, InvalidateFacts, BeginCommandFacts
    DEF Command, AcceptsCommand, WritesCommand, Unusable, IsUsable, HasBufferedInput,
        StartsIo, FailsIo, Invalidates
  <2>2. CountInv'
    <3> PICK n \in Names : Command(n)
      BY <1>4, Zenon
    <3>1. CASE begun' = begun
      BY <3>1, InvalidateFacts, BeginCommandFacts, Zenon
      DEF Command, AcceptsCommand, WritesCommand, StartsIo, FailsIo, Invalidates, IsUsable
    <3>2. CASE WritesCommand(FALSE, ahead, partial) /\ IsUsable
      BY <3>2, BeginCommandFacts, Zenon DEF Command, AcceptsCommand, WritesCommand, IsUsable
    <3> QED BY <3>1, <3>2, Zenon DEF Command, AcceptsCommand, IsUsable, Unusable
  <2>3. OwnerInv'
    BY <1>4, InvalidateFacts, BeginCommandFacts
    DEF Command, AcceptsCommand, WritesCommand, Unusable, IsUsable, HasBufferedInput,
        StartsIo, FailsIo, Invalidates
  <2>4. BudgetInv'
    BY <1>4, InvalidateFacts, BeginCommandFacts, Zenon
    DEF Command, AcceptsCommand, WritesCommand, Unusable, IsUsable, HasBufferedInput,
        StartsIo, FailsIo, Invalidates
  <2> QED BY <2>1, <2>2, <2>3, <2>4, Zenon
<1>5. CASE \E n \in SendSizes : Send(n)
  <2>1. ParkedInv'
    BY <1>5, InvalidateFacts, ClientAssumption
    DEF Send, Fits, InquiryCheckFails, Unusable, StartsIo, FailsIo, Invalidates
  <2>2. CountInv'
    BY <1>5, InvalidateFacts, ClientAssumption, Zenon
    DEF Send, Fits, InquiryCheckFails, Unusable, StartsIo, FailsIo, Invalidates
  <2>3. OwnerInv'
    BY <1>5, InvalidateFacts, ClientAssumption
    DEF Send, Fits, InquiryCheckFails, Unusable, StartsIo, FailsIo, Invalidates
  <2>4. BudgetInv'
    <3> PICK n \in SendSizes : Send(n)
      BY <1>5, Zenon
    <3>1. CASE UNCHANGED <<total, rest>>
      BY <3>1, Zenon DEF Send, Fits
    <3>2. CASE total' = sent + n /\ rest' = n /\ sent + n <= MaxInquiryBytes
      BY <3>2 DEF Send, Fits
    <3> QED BY <3>1, <3>2, Zenon DEF Send, Fits
  <2> QED BY <2>1, <2>2, <2>3, <2>4, Zenon
<1>6. CASE \E k \in {"End", "Can"} : CompleteInquiry(k)
  <2>1. ParkedInv'
    <3> PICK k \in {"End", "Can"} : CompleteInquiry(k)
      BY <1>6, Zenon
    <3>1. \/ io' = "none" /\ (broken' => io_uncertain')
          \/ /\ io' = k /\ io_uncertain' = TRUE /\ broken' = broken /\ ~io_uncertain
             /\ machine' = machine /\ machine.state = "Inquiry"
             /\ UNCHANGED inquiryVars /\ inquiry
      BY Zenon DEF CompleteInquiry, InquiryCheckFails, Unusable, StartsIo, FailsIo, Invalidates
    <3> QED BY <3>1, Zenon
  <2>2. CountInv'
    BY <1>6, InvalidateFacts, Zenon
    DEF CompleteInquiry, InquiryCheckFails, Unusable, GuardGone, StartsIo, FailsIo,
        Invalidates
  <2>3. OwnerInv'
    <3> PICK k \in {"End", "Can"} : CompleteInquiry(k)
      BY <1>6, Zenon
    <3>1. GuardGone \/ UNCHANGED inquiryVars
      BY Zenon DEF CompleteInquiry
    <3>2. machine' = machine \/ machine'.state = "Invalid" \/ machine'.state = "Closed"
      BY InvalidateFacts, Zenon DEF CompleteInquiry, StartsIo, FailsIo, Invalidates
    <3> QED BY <3>1, <3>2, Zenon DEF CompleteInquiry, GuardGone
  <2>4. BudgetInv'
    <3>1. GuardGone \/ UNCHANGED inquiryVars
      BY <1>6, Zenon DEF CompleteInquiry
    <3> QED BY <3>1, BudgetKept, Zenon
  <2> QED BY <2>1, <2>2, <2>3, <2>4, Zenon
<1>7. CASE CancelRead
  BY <1>7, Zenon DEF CancelRead
<1>8. CASE CancelWrite
  <2>1. ParkedInv'
    BY <1>8, InvalidateFacts, Zenon DEF CancelWrite, GuardGone, Invalidates
  <2>2. CountInv'
    BY <1>8, InvalidateFacts, Zenon DEF CancelWrite, GuardGone, Invalidates
  <2>3. OwnerInv'
    BY <1>8, InvalidateFacts DEF CancelWrite, GuardGone, Invalidates
  <2>4. BudgetInv'
    <3>1. GuardGone \/ UNCHANGED inquiryVars
      BY <1>8, Zenon DEF CancelWrite
    <3> QED BY <3>1, BudgetKept, Zenon
  <2> QED BY <2>1, <2>2, <2>3, <2>4, Zenon
<1>9. CASE DropInquiry
  BY <1>9, InvalidateFacts, ClientAssumption DEF DropInquiry, GuardGone, Invalidates
<1>10. CASE ForgetInquiry
  BY <1>10, ClientAssumption DEF ForgetInquiry, GuardGone
<1>11. CASE ReleaseTransaction
  BY <1>11, InvalidateFacts, Zenon DEF ReleaseTransaction, Invalidates, IsUsable
<1>12. CASE ForgetTransaction
  BY <1>12, Zenon DEF ForgetTransaction
<1>13. CASE DropOwner
  BY <1>13, Zenon DEF DropOwner
<1>14. CASE RejectLine
  BY <1>14, InvalidateFacts, Zenon DEF RejectLine, FailsIo, Invalidates
<1>15. CASE SkipEmptyLine
  <2>1. ParkedInv'
    <3>1. \/ io' = "none" /\ io_uncertain' = TRUE
          \/ UNCHANGED <<machine, io_uncertain, io, broken>>
      BY <1>15, Zenon DEF SkipEmptyLine, ReadsOn, FailsIo
    <3>2. io = "next" /\ UNCHANGED <<completion, transaction, owner, inquiry>>
      BY <1>15, Zenon DEF SkipEmptyLine
    <3> QED BY <3>1, <3>2, Zenon
  <2>2. CountInv'
    BY <1>15, InvalidateFacts, Zenon DEF SkipEmptyLine, ReadsOn, FailsIo, Invalidates
  <2>3. OwnerInv'
    BY <1>15, InvalidateFacts, Zenon DEF SkipEmptyLine, ReadsOn, FailsIo, Invalidates
  <2>4. BudgetInv'
    BY <1>15, InvalidateFacts, Zenon DEF SkipEmptyLine, ReadsOn, FailsIo, Invalidates
  <2> QED BY <2>1, <2>2, <2>3, <2>4, Zenon
<1>16. CASE DeliverEvent
  <2> PICK r \in Receives(ahead, partial, s2c) :
          /\ ~Refused(r.line)
          /\ machine' = CM!Receive(machine, r.line.kind).machine
          /\ TakesEvent(r.line)
    BY <1>16, Zenon DEF DeliverEvent
  <2>0. /\ r.line.kind \in Incoming \cup {"Fragment"}
        /\ CM!Receive(machine, r.line.kind).err = "none"
    BY ReceivesType, Zenon DEF WireTypeOK, Refused, ServerLine
  <2>1. ParkedInv'
    BY <1>16, Zenon DEF DeliverEvent
  <2>2. CountInv' /\ OwnerInv'
    <3>0. io = "next" /\ UNCHANGED <<owner, transaction, begun>>
      BY <1>16, Zenon DEF DeliverEvent
    <3>1. CASE r.line.kind \in {"Ok", "Err"}
      <4>1. /\ finals' = finals + 1 /\ inquiry' = inquiry
            /\ completion' = (IF r.line.kind = "Ok" THEN "Success" ELSE "Remote")
        BY <3>1, Zenon DEF TakesEvent
      <4>2. /\ machine'.state = "Ready"
            /\ machine.state \in {"Greeting", "Command", "AwaitFinal"}
            /\ r.line.kind = "Err" => machine.state # "Greeting"
            /\ r.line.kind = "Err" /\ machine.state = "AwaitFinal" => machine.origin # "Greeting"
        BY <2>0, <3>1, ReceiveFinal, Zenon
      <4> QED BY <3>0, <3>1, <4>1, <4>2, SMTT(30)
    <3>2. CASE r.line.kind = "Inquire"
      <4>1. finals' = finals /\ completion' = completion
        BY <3>2, Zenon DEF TakesEvent
      <4>2. /\ machine.state \in {"Greeting", "Command"}
            /\ machine'.state = "Inquiry" /\ machine'.origin = machine.state
        <5>1. /\ machine' = CM!Receive(machine, "Inquire").machine
              /\ CM!Receive(machine, "Inquire").err = "none"
          BY <2>0, <3>2, Zenon
        <5>2. /\ machine.state \in {"Greeting", "Command"}
              /\ machine' = [state |-> "Inquiry", origin |-> machine.state]
          BY <5>1, ReceiveInquire, Zenon
        <5> QED BY <5>2
      <4> QED BY <3>0, <4>1, <4>2, Zenon
    <3>3. CASE r.line.kind \notin {"Ok", "Err", "Inquire"}
      <4>1. finals' = finals /\ completion' = completion /\ inquiry' = inquiry
        BY <3>3, Zenon DEF TakesEvent
      <4>2. machine' = machine
        BY <2>0, <3>3, ReceiveOther, Zenon
      <4> QED BY <3>0, <4>1, <4>2, Zenon
    <3> QED BY <3>1, <3>2, <3>3, Zenon
  <2>3. BudgetInv'
    <3>1. \/ sent' = 0 /\ total' = 0 /\ rest' = 0
          \/ UNCHANGED <<sent, total, rest>>
      BY Zenon DEF TakesEvent
    <3>2. CASE sent' = 0 /\ total' = 0 /\ rest' = 0
      BY <3>2, ClientAssumption
    <3>3. CASE UNCHANGED <<sent, total, rest>>
      BY <3>3, Zenon
    <3> QED BY <3>1, <3>2, <3>3, Zenon
  <2> QED BY <2>1, <2>2, <2>3, Zenon
<1>17. CASE InquiryNewFails
  <2>1. ParkedInv'
    BY <1>17, InvalidateFacts, ReceivesType, ReceiveType, Zenon
    DEF InquiryNewFails, ServerLine
  <2>2. CountInv'
    <3>1. machine'.state \in CM!Terminal
      BY <1>17, ReceivesType, ReceiveType, InvalidateFacts, Zenon
      DEF InquiryNewFails, WireTypeOK, ServerLine
    <3> QED BY <1>17, <3>1, Zenon DEF InquiryNewFails
  <2>3. OwnerInv'
    <3>1. machine'.state \in CM!Terminal
      BY <1>17, ReceivesType, ReceiveType, InvalidateFacts, Zenon
      DEF InquiryNewFails, WireTypeOK, ServerLine
    <3> QED BY <1>17, <3>1, Zenon DEF InquiryNewFails
  <2>4. BudgetInv'
    BY <1>17, InvalidateFacts, ReceivesType, ReceiveType, Zenon
    DEF InquiryNewFails, ServerLine
  <2> QED BY <2>1, <2>2, <2>3, <2>4, Zenon
<1>18. CASE DrainLine
  <2>1. ParkedInv'
    <3> PICK r \in Receives(ahead, partial, s2c) :
            \/ ReadsOn(r)
            \/ r.ahead = <<>> /\ ~r.partial /\ WritesCommand(expired, r.ahead, r.partial)
      BY <1>18, Zenon DEF DrainLine
    <3>0. io = "drain" /\ UNCHANGED <<completion, transaction, owner, inquiry>>
      BY <1>18, Zenon DEF DrainLine
    <3>1. \/ io' = "none" /\ io_uncertain' = TRUE
          \/ UNCHANGED <<machine, io_uncertain, io, broken>>
          \/ /\ io' = "command" /\ io_uncertain' = TRUE /\ broken' = broken
             /\ machine' = CM!BeginCommand(machine).machine
             /\ ahead' = <<>> /\ ~partial'
      BY Zenon DEF ReadsOn, FailsIo, WritesCommand
    <3> QED BY <3>0, <3>1, BeginCommandFacts, Zenon
  <2>2. CountInv'
    BY <1>18, InvalidateFacts, BeginCommandFacts, Zenon
    DEF DrainLine, ReadsOn, WritesCommand, HasBufferedInput, FailsIo, Invalidates
  <2>3. OwnerInv'
    BY <1>18, InvalidateFacts, BeginCommandFacts, Zenon
    DEF DrainLine, ReadsOn, WritesCommand, HasBufferedInput, FailsIo, Invalidates
  <2>4. BudgetInv'
    BY <1>18, InvalidateFacts, BeginCommandFacts, Zenon
    DEF DrainLine, ReadsOn, WritesCommand, HasBufferedInput, FailsIo, Invalidates
  <2> QED BY <2>1, <2>2, <2>3, <2>4, Zenon
<1>19. CASE ReadFails
  BY <1>19, InvalidateFacts, Zenon DEF ReadFails, FailsIo, Invalidates
<1>20. CASE CommandWritten
  BY <1>20, Zenon DEF CommandWritten
<1>21. CASE DataWritten
  <2>1. ParkedInv'
    BY <1>21, InvalidateFacts, ClientAssumption
    DEF DataWritten, Chunk, StartsIo, FailsIo, Invalidates
  <2>2. CountInv'
    BY <1>21, InvalidateFacts, ClientAssumption, Zenon
    DEF DataWritten, Chunk, StartsIo, FailsIo, Invalidates
  <2>3. OwnerInv'
    BY <1>21, InvalidateFacts, ClientAssumption, Zenon
    DEF DataWritten, Chunk, StartsIo, FailsIo, Invalidates
  <2>4. BudgetInv'
    <3>1. CASE rest' = 0 /\ sent' = total
      BY <1>21, <3>1 DEF DataWritten
    <3>2. CASE sent' = sent
      BY <1>21, <3>2, ClientAssumption DEF DataWritten, Remaining, Chunk
    <3> QED BY <1>21, <3>1, <3>2, Zenon DEF DataWritten
  <2> QED BY <2>1, <2>2, <2>3, <2>4, Zenon
<1>22. CASE CompletionWritten
  BY <1>22, FinishInquiryFacts, ClientAssumption, SMTT(30) DEF CompletionWritten, GuardGone
<1>23. CASE WriteFails
  <2>1. ParkedInv'
    BY <1>23, InvalidateFacts, Zenon DEF WriteFails, GuardGone, FailsIo, Invalidates
  <2>2. CountInv'
    BY <1>23, InvalidateFacts, Zenon DEF WriteFails, GuardGone, FailsIo, Invalidates
  <2>3. OwnerInv'
    BY <1>23, InvalidateFacts, Zenon DEF WriteFails, GuardGone, FailsIo, Invalidates
  <2>4. BudgetInv'
    <3>1. GuardGone \/ UNCHANGED inquiryVars
      BY <1>23, Zenon DEF WriteFails
    <3> QED BY <3>1, BudgetKept, Zenon
  <2> QED BY <2>1, <2>2, <2>3, <2>4, Zenon
<1>24. CASE ExpireCore
  BY <1>24, Zenon DEF ExpireCore
<1>25. CASE ExpireInquiry
  BY <1>25, Zenon DEF ExpireInquiry
<1>26. CASE Peer
  <2>1. ParkedInv'
    BY <1>26, Zenon DEF Peer, PeerReads, PeerCloses, PeerSends
  <2>2. CountInv'
    BY <1>26, Zenon DEF Peer, PeerReads, PeerCloses, PeerSends
  <2>3. OwnerInv'
    BY <1>26, Zenon DEF Peer, PeerReads, PeerCloses, PeerSends
  <2>4. BudgetInv'
    BY <1>26, Zenon DEF Peer, PeerReads, PeerCloses, PeerSends
  <2> QED BY <2>1, <2>2, <2>3, <2>4, Zenon
<1> HIDE DEF IInv
<1> QED
  BY <1>1, <1>2, <1>3, <1>4, <1>5, <1>6, <1>7, <1>8, <1>9, <1>10, <1>11, <1>12, <1>13,
     <1>14, <1>15, <1>16, <1>17, <1>18, <1>19, <1>20, <1>21, <1>22, <1>23, <1>24, <1>25,
     <1>26, Zenon
  DEF Next, Calls, Resumes, ReadLine, ReadTimeout, ReadEof, ReadError, WriteTimeout,
     WriteError

\* IInv holds initially.
LEMMA InvInit == Init => IInv
<1> SUFFICES ASSUME Init PROVE IInv
  BY Zenon
<1> USE DEF Init, ClientInit, WireInit, CM!New
<1>1. BoolOK
  BY Zenon DEF BoolOK
<1>2. DataOK
  BY EmptyAhead DEF DataOK, CM!Machine, CM!ClientState
<1>3. ParkedInv /\ CountInv /\ OwnerInv /\ BudgetInv
  BY ClientAssumption DEF ParkedInv, CountInv, OwnerInv, BudgetInv
<1> QED BY <1>1, <1>2, <1>3, TypeSplit, Zenon DEF IInv

\* IInv is an invariant.
THEOREM Invariance == Spec => []IInv
<1>1. IInv /\ [Next]_vars => IInv'
  <2> SUFFICES ASSUME IInv, [Next]_vars PROVE IInv'
    BY Zenon
  <2>0. TypeOK'
    BY TypeStep, Zenon DEF IInv
  <2>1. CASE Next
    BY <2>0, <2>1, InvStep, Zenon
  <2>2. CASE UNCHANGED vars
    <3> USE <2>2 DEF vars, clientVars, coreVars, channelVars, guardVars, inquiryVars, histVars
    <3>1. ParkedInv' /\ CountInv'
      BY Zenon DEF IInv, ParkedInv, CountInv, HasBufferedInput
    <3>2. OwnerInv' /\ BudgetInv'
      BY Zenon DEF IInv, OwnerInv, BudgetInv
    <3> QED BY <2>0, <3>1, <3>2, Zenon DEF IInv
  <2> QED BY <2>1, <2>2, Zenon
<1> QED BY <1>1, InvInit, PTL DEF Spec

(***************************************************************************)
(* Every state of every client connection is well typed.                   *)
(***************************************************************************)
THEOREM TypeCorrect == Spec => []TypeOK
<1>1. IInv => TypeOK
  BY Zenon DEF IInv
<1> QED BY <1>1, Invariance, PTL

(***************************************************************************)
(* IoGuard and check: whatever the peer and the application do, a read or  *)
(* write that did not complete is the last one, and the client never       *)
(* reports itself usable again.                                            *)
(***************************************************************************)
THEOREM BrokenIo == Spec => []BrokenIoIsFinal
<1>1. IInv => BrokenIoIsFinal
  BY Zenon DEF IInv, ParkedInv, BrokenIoIsFinal, IsUsable
<1> QED BY <1>1, Invariance, PTL

(***************************************************************************)
(* Final responses and operations are matched one to one, for any number of*)
(* commands and with guards finished, dropped, cancelled or forgotten.     *)
(***************************************************************************)
THEOREM OneFinal == Spec => []OneFinalPerOperation
<1>1. IInv => OneFinalPerOperation
  BY Zenon DEF IInv, TypeOK, ParkedInv, CountInv, OneFinalPerOperation, IsUsable
<1> QED BY <1>1, Invariance, PTL

(***************************************************************************)
(* command_with writes a command only over an empty read-ahead.            *)
(***************************************************************************)
THEOREM Drained == Spec => []ReadAheadDrained
<1>1. IInv => ReadAheadDrained
  BY Zenon DEF IInv, ParkedInv, ReadAheadDrained
<1> QED BY <1>1, Invariance, PTL

(***************************************************************************)
(* inquiry_origin always belongs to the inquiry in progress, and a refused *)
(* greeting never becomes a client.                                        *)
(***************************************************************************)
THEOREM GreetingIsGuarded == Spec => [](OriginIsCurrent /\ RejectedGreetingIsFinal)
<1>1. IInv => OriginIsCurrent /\ RejectedGreetingIsFinal
  BY Zenon DEF IInv, OwnerInv, OriginIsCurrent, RejectedGreetingIsFinal
<1> QED BY <1>1, Invariance, PTL

(***************************************************************************)
(* What an inquiry puts on the wire stays within max_inquiry_bytes, for any*)
(* limit, chunk size and sequence of sends.                                *)
(***************************************************************************)
THEOREM Budget == Spec => []InquiryWithinBudget
<1>1. IInv => InquiryWithinBudget
  BY ClientAssumption DEF IInv, TypeOK, ParkedInv, BudgetInv, InquiryWithinBudget
<1> QED BY <1>1, Invariance, PTL

-----------------------------------------------------------------------------
(* What a step of the client does to the streams and the counts *)

\* The connection can still be used.
Live == owner # "dropped" /\ ~broken /\ machine.state \notin CM!Terminal

\* The bytes the live inquiry has put on the wire.
Delivered == IF io = "data" THEN total - rest ELSE sent

\* Nothing is received, issued or answered, and nothing goes out.
Idles ==
    /\ Live /\ Live'
    /\ UNCHANGED <<begun, finals, c2s, s2c, ahead, partial, machine>>
    /\ io' = "command" <=> io = "command"
    /\ io' = "drain" => io = "drain" \/ HasBufferedInput
    /\ inquiry' => inquiry /\ Delivered' = Delivered

\* A line of an inquiry goes out.
Answers ==
    /\ Live /\ Live'
    /\ UNCHANGED <<begun, finals, s2c, ahead, partial>>
    /\ machine.state = "Inquiry" /\ machine.origin \in {"Greeting", "Command"} /\ inquiry
    /\ io' \notin {"command", "drain"}
    /\ c2s' = Append(c2s, Output)
    /\ \/ io = "data" /\ machine' = machine /\ Delivered' = Delivered + Output.len
       \/ io = "End" /\ machine'.state = machine.origin /\ ~inquiry'
       \/ io = "Can" /\ machine'.state = "AwaitFinal" /\ ~inquiry'

\* The connection is dead from now on, whatever is left of a line being written.
Dies ==
    /\ ~Live'
    /\ UNCHANGED <<begun, finals>>
    /\ copen' => copen /\ UNCHANGED <<owner, machine>>
    /\ io' # "command"
    /\ \/ c2s' = c2s
       \/ io \in Writing /\ c2s' \in Interrupted(c2s, C2SCap, Output)

\* A command is begun, on a connection with nothing left to receive.
Issues ==
    /\ Live /\ machine.state = "Ready"
    /\ begun' = begun + 1
    /\ UNCHANGED <<finals, c2s>>
    /\ \/ ~Live' /\ ~copen' /\ io' # "command"
       \/ Live' /\ machine'.state = "Command" /\ io' = "command"
    /\ \/ UNCHANGED <<s2c, ahead, partial>>
       \/ Receives(ahead, partial, s2c) # {}

\* A command is on its way.
Writes ==
    /\ Live /\ Live'
    /\ io = "command" /\ io' \notin {"command", "drain"}
    /\ c2s' = Append(c2s, Output)
    /\ UNCHANGED <<begun, finals, s2c, ahead, partial, machine>>

\* A line is received; a final response makes the client ready, an inquiry is
\* taken up, and nothing else changes the phase.
Takes ==
    /\ Live /\ Live'
    /\ UNCHANGED <<begun, c2s>>
    /\ io \in Reading /\ io' # "command"
    /\ io' = "drain" => io = "drain"
    /\ \E r \in Receives(ahead, partial, s2c) :
          /\ s2c' = r.wire /\ ahead' = r.ahead /\ partial' = r.partial
          /\ \/ /\ r.line.kind \in {"Ok", "Err"}
                /\ machine.state # "Ready" /\ machine'.state = "Ready"
                /\ finals' = finals + 1
             \/ /\ r.line.kind = "Inquire"
                /\ machine.state \in {"Greeting", "Command"}
                /\ machine' = [state |-> "Inquiry", origin |-> machine.state]
                /\ Delivered' = 0
                /\ finals' = finals
             \/ /\ r.line.kind \notin {"Ok", "Err", "Inquire"}
                /\ UNCHANGED <<machine, finals>>

Effect == Idles \/ Answers \/ Dies \/ Issues \/ Writes \/ Takes

\* The client never closes the server's end.
LEMMA ServerEndKept ==
    ASSUME Calls \/ Resumes
    PROVE  sopen' = sopen
BY Zenon DEF Calls, Resumes, ReadLine, HandshakeNext, HandshakeFinish, TransactionNext, Command,
    Send, CompleteInquiry, CancelRead, CancelWrite, DropInquiry, ForgetInquiry,
    ReleaseTransaction, ForgetTransaction, DropOwner, RejectLine, SkipEmptyLine,
    DeliverEvent, InquiryNewFails, DrainLine, ReadTimeout, ReadEof, ReadError, ReadFails,
    CommandWritten, DataWritten, CompletionWritten, WriteTimeout, WriteError, WriteFails,
    ExpireCore, ExpireInquiry

\* A failed or abandoned read or write leaves a dead connection.
LEMMA FailsIoDies ==
    ASSUME IInv, FailsIo
    PROVE  ~Live' /\ ~copen' /\ io' # "command"
BY Zenon DEF FailsIo, Invalidates, Live

\* So does invalidating the core.
LEMMA InvalidatesDies ==
    ASSUME IInv, Invalidates
    PROVE  ~Live' /\ ~copen'
BY InvalidateFacts, Zenon DEF Invalidates, Live, IInv, TypeOK

\* Every step of the client has one of these effects.
LEMMA Effects ==
    ASSUME IInv, Calls \/ Resumes
    PROVE  Effect
<1> USE DEF CM!Terminal, Reading, Writing, coreVars, channelVars, guardVars, inquiryVars,
            histVars
<1>inv. ParkedInv /\ OwnerInv
  BY Zenon DEF IInv
<1>type. /\ machine \in CM!Machine /\ io \in {"none"} \cup Reading \cup Writing
         /\ ahead \in Seq(ServerLine) /\ partial \in BOOLEAN /\ s2c \in Seq(ServerLine)
  BY Zenon DEF IInv, TypeOK, WireTypeOK
<1>sizes. /\ sent \in Nat /\ total \in Nat /\ rest \in Nat /\ rest <= total
          /\ ChunkBytes \in Nat \ {0} /\ SendSizes \subseteq Nat
  BY ClientAssumption DEF IInv, TypeOK, BudgetInv
<1>parked. /\ io # "none" => ~broken /\ owner # "dropped" /\ machine.state \notin CM!Terminal
           /\ io \in {"next", "data", "End", "Can"} => machine.state # "Ready"
  BY <1>inv, <1>type, Zenon DEF ParkedInv, OwnerInv
<1>fails. ASSUME FailsIo, UNCHANGED <<begun, finals>>,
                 \/ c2s' = c2s
                 \/ io \in Writing /\ c2s' \in Interrupted(c2s, C2SCap, Output)
          PROVE  Effect
  BY <1>fails, FailsIoDies, Zenon DEF Effect, Dies
<1>1. ASSUME NextEvent, UNCHANGED <<begun, finals, owner, inquiry, c2s, s2c>>
      PROVE  Idles \/ Dies
  BY <1>1, <1>parked, <1>inv, FailsIoDies, InvalidatesDies, Zenon
  DEF NextEvent, Unusable, StartsIo, Idles, Dies, Live
<1>2. CASE HandshakeNext
  BY <1>1, <1>2, InvalidatesDies, Zenon DEF HandshakeNext, Dies, Effect
<1>3. CASE HandshakeFinish
  BY <1>3, <1>inv, Zenon
  DEF HandshakeFinish, Unusable, ParkedInv, OwnerInv, Idles, Dies, Effect, Live
<1>4. CASE TransactionNext
  BY <1>1, <1>4, Zenon DEF TransactionNext, Effect
<1>5. ASSUME NEW n \in Names, Command(n)
      PROVE  Effect
  <2>1. CASE ~AcceptsCommand
    BY <1>5, <2>1, InvalidatesDies, Zenon DEF Command, Effect, Dies
  <2>2. CASE AcceptsCommand /\ HasBufferedInput
    <3>1. Live /\ machine.state = "Ready" /\ io = "none"
      BY <1>5, <2>2, <1>inv, Zenon DEF Command, AcceptsCommand, Unusable, ParkedInv, Live
    <3> QED BY <1>5, <2>2, <3>1, Zenon DEF Command, StartsIo, Effect, Idles, Live
  <2>3. CASE AcceptsCommand /\ ~HasBufferedInput
    <3>1. machine'.state = "Command" /\ machine.state = "Ready" /\ Live
      BY <1>5, <2>3, <1>type, <1>inv, BeginCommandFacts, Zenon
      DEF Command, WritesCommand, AcceptsCommand, Unusable, Live, OwnerInv, ParkedInv
    <3> QED BY <1>5, <2>3, <3>1, Zenon DEF Command, WritesCommand, Effect, Issues, Live
  <2> QED BY <2>1, <2>2, <2>3, Zenon
<1>6. ASSUME NEW n \in SendSizes, Send(n)
      PROVE  Effect
  <2>1. CASE InquiryCheckFails \/ ~Fits(n)
    BY <1>6, <2>1, <1>inv, InvalidatesDies, Zenon DEF Send, Effect, Dies
  <2>2. CASE ~InquiryCheckFails /\ Fits(n) /\ FailsIo
    BY <1>6, <2>2, <1>fails, Zenon DEF Send
  <2>3. CASE ~InquiryCheckFails /\ Fits(n) /\ ~FailsIo
    <3>1. /\ Live /\ Live' /\ io = "none" /\ io' = "data"
          /\ UNCHANGED <<begun, finals, c2s, s2c, ahead, partial, machine, inquiry>>
          /\ total' = sent + n /\ rest' = n
      BY <1>6, <2>3, <1>inv DEF Send, InquiryCheckFails, Unusable, StartsIo, Live, OwnerInv,
         ParkedInv
    <3>2. Delivered' = Delivered
      BY <3>1, <1>6, <1>sizes DEF Delivered
    <3> QED BY <3>1, <3>2, Zenon DEF Effect, Idles
  <2> QED BY <2>1, <2>2, <2>3, Zenon
<1>7. ASSUME NEW k \in {"End", "Can"}, CompleteInquiry(k)
      PROVE  Effect
  BY <1>7, <1>parked, <1>inv, FailsIoDies, InvalidatesDies, Zenon
  DEF CompleteInquiry, InquiryCheckFails, Unusable, StartsIo, Effect, Idles, Delivered, Dies, Live
<1>8. CASE CancelRead \/ CancelWrite
  <2>1. CASE CancelRead
    BY <2>1, <1>parked, <1>inv, Zenon DEF CancelRead, Effect, Dies, Live
  <2>2. CASE CancelWrite
    <3>1. ~Live' /\ io' # "command" /\ UNCHANGED <<begun, finals>>
      BY <2>2, <1>parked, <1>inv, Zenon DEF CancelWrite, Live
    <3>2. copen' => copen /\ UNCHANGED <<owner, machine>>
      BY <2>2, Zenon DEF CancelWrite, Invalidates
    <3> QED BY <2>2, <3>1, <3>2, Zenon DEF CancelWrite, Effect, Dies
  <2> QED BY <1>8, <2>1, <2>2, Zenon
<1>9. CASE DropInquiry \/ DropOwner
  BY <1>9, <1>parked, <1>inv, InvalidatesDies, Zenon DEF DropInquiry, DropOwner, Effect, Dies, Live
<1>10. CASE ForgetInquiry \/ ForgetTransaction \/ ExpireCore \/ ExpireInquiry
  BY <1>10, <1>parked, <1>inv, Zenon
  DEF ForgetInquiry, ForgetTransaction, ExpireCore, ExpireInquiry, GuardGone, Effect, Idles,
      Delivered, Dies, Live
<1>11. CASE ReleaseTransaction
  BY <1>11, <1>parked, <1>inv, InvalidatesDies, Zenon
  DEF ReleaseTransaction, IsUsable, Effect, Idles, Delivered, Dies, Live
<1>12. CASE RejectLine \/ ReadFails \/ WriteFails
  BY <1>12, <1>fails, Zenon DEF RejectLine, ReadFails, WriteFails
<1>13. CASE SkipEmptyLine
  <2> PICK r \in Receives(ahead, partial, s2c) :
          r.line.kind = "Empty" /\ s2c' = r.wire /\ ReadsOn(r)
    BY <1>13, Zenon DEF SkipEmptyLine
  <2>1. CASE FailsIo
    BY <1>13, <2>1, <1>fails, Zenon DEF SkipEmptyLine
  <2>2. CASE ~FailsIo
    BY <1>13, <2>2, <1>parked, Zenon DEF SkipEmptyLine, ReadsOn, Effect, Takes, Live
  <2> QED BY <2>1, <2>2, Zenon
<1>14. CASE DeliverEvent
  <2> PICK r \in Receives(ahead, partial, s2c) :
          /\ ~Refused(r.line)
          /\ s2c' = r.wire
          /\ machine' = CM!Receive(machine, r.line.kind).machine
          /\ ahead' = r.ahead /\ partial' = r.partial
          /\ TakesEvent(r.line)
    BY <1>14, Zenon DEF DeliverEvent
  <2>0. r.line \in ServerLine
    BY <1>type, ReceivesType, Zenon
  <2>1. /\ r.line.kind \in Incoming \cup {"Fragment"}
        /\ machine \in CM!Machine
        /\ CM!Receive(machine, r.line.kind).err = "none"
    BY <2>0, <1>type, Zenon DEF ServerLine, Refused
  <2>2. /\ Live /\ machine.state # "Ready" /\ owner' = owner /\ broken' = broken
        /\ io = "next" /\ io' = "none"
        /\ UNCHANGED <<begun, c2s>>
    BY <1>14, <1>parked, Zenon DEF DeliverEvent, Live
  <2>3. CASE r.line.kind \in {"Ok", "Err"}
    <3>1. machine'.state = "Ready" /\ finals' = finals + 1
      BY <2>1, <2>3, ReceiveFinal, Zenon DEF TakesEvent
    <3> QED BY <2>2, <2>3, <3>1, Zenon DEF Effect, Takes, Live
  <2>4. CASE r.line.kind = "Inquire"
    <3>1. finals' = finals /\ Delivered' = 0
      BY <2>2, <2>4, Zenon DEF TakesEvent, Delivered
    <3>2. /\ machine.state \in {"Greeting", "Command"}
          /\ machine' = [state |-> "Inquiry", origin |-> machine.state]
      BY <2>1, <2>4, ReceiveInquire, Zenon
    <3> QED BY <2>2, <2>4, <3>1, <3>2 DEF Effect, Takes, Live
  <2>5. CASE r.line.kind \notin {"Ok", "Err", "Inquire"}
    <3>1. machine' = machine /\ finals' = finals
      BY <2>1, <2>5, ReceiveOther, Zenon DEF TakesEvent
    <3> QED BY <2>2, <2>5, <3>1, Zenon DEF Effect, Takes, Live
  <2> QED BY <2>3, <2>4, <2>5, Zenon
<1>15. CASE InquiryNewFails
  <2> PICK r \in Receives(ahead, partial, s2c) :
          machine' = CM!Invalidate(CM!Receive(machine, r.line.kind).machine)
    BY <1>15, Zenon DEF InquiryNewFails
  <2>0. r.line \in ServerLine
    BY <1>type, ReceivesType, Zenon
  <2>1. machine'.state \in CM!Terminal
    BY <2>0, <1>type, ReceiveType, InvalidateFacts, Zenon DEF ServerLine
  <2> QED BY <1>15, <2>1, <1>parked, <1>inv, Zenon DEF InquiryNewFails, Effect, Dies, Live
<1>16. CASE DrainLine
  <2> PICK r \in Receives(ahead, partial, s2c) :
          /\ ~Refused(r.line)
          /\ s2c' = r.wire
          /\ \/ ReadsOn(r) /\ UNCHANGED begun
             \/ WritesCommand(expired, r.ahead, r.partial)
    BY <1>16, Zenon DEF DrainLine
  <2>0. machine.state = "Ready" /\ machine \in CM!Machine /\ Live /\ owner' = owner /\ io = "drain"
    BY <1>16, <1>type, <1>parked, <1>inv, Zenon DEF DrainLine, Live, ParkedInv
  <2>1. r.line.kind \notin {"Ok", "Err", "Inquire"}
    BY <2>0, ReceiveFinal, ReceiveInquire, Zenon DEF Refused
  <2>2. CASE FailsIo /\ begun' = begun
    BY <1>16, <2>2, <1>fails, Zenon DEF DrainLine
  <2>3. CASE ReadsOn(r) /\ ~FailsIo /\ begun' = begun
    BY <1>16, <2>0, <2>1, <2>3, Zenon DEF DrainLine, ReadsOn, Effect, Takes, Live
  <2>4. CASE WritesCommand(expired, r.ahead, r.partial)
    <3>1. CASE FailsIo
      BY <1>16, <2>0, <2>4, <3>1, FailsIoDies, Zenon
      DEF DrainLine, WritesCommand, Effect, Issues
    <3>2. CASE ~FailsIo
      <4>1. machine'.state = "Command"
        BY <2>0, <2>4, <3>2, BeginCommandFacts, Zenon DEF WritesCommand
      <4> QED BY <1>16, <2>0, <2>4, <3>2, <4>1, Zenon
      DEF DrainLine, WritesCommand, Effect, Issues, Live
    <3> QED BY <3>1, <3>2, Zenon
  <2> QED BY <2>2, <2>3, <2>4, Zenon
<1>17. CASE CommandWritten
  BY <1>17, <1>parked, <1>inv, Zenon DEF CommandWritten, Delivers, Effect, Writes, Live
<1>18. CASE DataWritten
  <2>1. CASE FailsIo
    BY <1>18, <2>1, <1>fails, Zenon DEF DataWritten, Delivers, Interrupted
  <2>2. CASE ~FailsIo
    <3>1. /\ Live /\ Live' /\ io = "data" /\ io' \in {"none", "data"}
          /\ UNCHANGED <<begun, finals, s2c, ahead, partial, machine>>
          /\ c2s' = Append(c2s, Output)
      BY <1>18, <2>2, <1>parked DEF DataWritten, Delivers, StartsIo, Live
    <3>2. /\ machine.state = "Inquiry" /\ machine.origin \in {"Greeting", "Command"}
          /\ inquiry
      BY <3>1, <1>type, <1>parked, <1>inv, Zenon DEF Live, OwnerInv, ParkedInv
    <3>3. Delivered' = Delivered + Chunk
      <4>1. /\ total' = total /\ rest' = rest - Chunk
            /\ \/ rest' = 0 /\ io' = "none" /\ sent' = total
               \/ rest' # 0 /\ io' = "data"
        BY <1>18, <2>2, Zenon DEF DataWritten, StartsIo, Remaining
      <4>2. Chunk \in Nat /\ Chunk <= rest
        BY <1>sizes DEF Chunk
      <4>3. Delivered = total - rest
        BY <3>1, Zenon DEF Delivered
      <4>4. CASE io' = "none"
        <5>1. Delivered' = total /\ rest = Chunk
          BY <4>1, <4>2, <4>4, <1>sizes DEF Delivered
        <5> QED BY <4>2, <4>3, <5>1, <1>sizes
      <4>5. CASE io' = "data"
        <5>1. Delivered' = total - (rest - Chunk)
          BY <4>1, <4>5, Zenon DEF Delivered
        <5> QED BY <4>2, <4>3, <5>1, <1>sizes
      <4> QED BY <4>1, <4>4, <4>5, Zenon
    <3>4. Output.len = Chunk
      BY <3>1, Zenon DEF Output
    <3> QED BY <3>1, <3>2, <3>3, <3>4, Zenon DEF Effect, Answers
  <2> QED BY <2>1, <2>2, Zenon
<1>19. CASE CompletionWritten
  <2>1. /\ Live /\ inquiry
        /\ machine.state = "Inquiry" /\ machine.origin \in {"Greeting", "Command"}
    BY <1>19, <1>type, <1>parked, <1>inv, Zenon DEF CompletionWritten, Live, OwnerInv, ParkedInv
  <2>2. machine'.state = IF io = "Can" THEN "AwaitFinal" ELSE machine.origin
    BY <1>19, <2>1, <1>type, FinishInquiryFacts, Zenon DEF CompletionWritten
  <2>3. /\ io \in {"End", "Can"} /\ io' = "none" /\ ~inquiry' /\ c2s' = Append(c2s, Output)
        /\ UNCHANGED <<begun, finals, s2c, ahead, partial, owner, broken>>
    BY <1>19, Zenon DEF CompletionWritten, Delivers, GuardGone
  <2> QED BY <2>1, <2>2, <2>3, Zenon DEF Effect, Answers, Live
<1> QED
  BY <1>2, <1>3, <1>4, <1>5, <1>6, <1>7, <1>8, <1>9, <1>10, <1>11, <1>12, <1>13, <1>14,
     <1>15, <1>16, <1>17, <1>18, <1>19, Zenon
  DEF Calls, Resumes, ReadLine, ReadTimeout, ReadEof, ReadError, WriteTimeout, WriteError
=============================================================================
