---------------------------- MODULE CollectProofs ----------------------------
(***************************************************************************)
(* Proofs about Collect: Client::collect and collect_secret against an     *)
(* arbitrary peer, for all limits and event sizes.  Every step of Collect  *)
(* is a step of OpenClient, so the invariant of ClientProofs comes for     *)
(* free; what is added is where the call stands.                           *)
(***************************************************************************)
EXTENDS Collect, ClientProofs

Kept == {"Data", "Status", "Comment"}

CollectTypeOK ==
    /\ step \in {"idle", "command", "next", "event", "cancel", "unwind"}
    /\ secret \in BOOLEAN
    /\ event \in [kind : Incoming \cup {"Fragment", "none"}, size : Nat]
    /\ events \in Nat
    /\ kept \in [Kept -> Nat]
    /\ result \in {"none", "Ok", "Remote", "Limit", "Error", "Cancelled"}
    /\ offered \in Nat

\* Where the call stands, and which guards and awaits of the client go with it.
StandInv ==
    /\ step = "idle" /\ owner = "client" => io = "none" /\ ~transaction
    /\ step # "idle" => owner = "client"
    /\ step = "command" =>
          /\ ~inquiry
          /\ IF transaction THEN io = "none" /\ completion = "Pending"
                            ELSE io \in {"none", "drain", "command"}
    /\ step \in {"next", "event", "cancel", "unwind"} => transaction
    /\ step = "next" => io \in {"none", "next"} /\ ~inquiry /\ completion = "Pending"
    /\ step = "cancel" => /\ io \in {"none", "Can"} /\ completion = "Pending"
                          /\ io = "none" => ~inquiry
    /\ step \in {"event", "unwind"} => io = "none"

\* The event being handled is what the machine and the guards have seen of it.
EventInv ==
    /\ step = "command" => event.kind = "none"
    /\ step = "event" =>
          /\ inquiry => event.kind = "Inquire"
          /\ event.kind = "Ok" => completion = "Success"
          /\ event.kind = "Err" => completion = "Remote"
          /\ event.kind \notin {"Ok", "Err"} => completion = "Pending"
          /\ completion # "Pending" => IsUsable

\* What has been offered so far has been retained, up to the event in hand.
AmountInv ==
    /\ Retained <= MaxBytes
    /\ step \in {"command", "next", "cancel"} => offered = Retained
    /\ step = "event" => offered = Retained + Weight(event)
    /\ step \in {"command", "next", "event", "cancel"} => events <= MaxEvents
    /\ result = "Ok" =>
          step = "idle" /\ Retained = offered /\ events <= MaxEvents /\ completion = "Success"

\* What is known of the outcome while the call is running and unwinding.
OutcomeInv ==
    /\ step \in {"command", "next", "event", "cancel"} => result = "none"
    /\ owner = "handshake" => result = "none"
    /\ step = "unwind" =>
          \/ result \in {"Error", "Cancelled"} /\ Unusable
          \/ /\ result = "Limit"
             /\ IF event.kind \in {"Ok", "Err"} THEN IsUsable /\ ~inquiry
                                                ELSE completion = "Pending"
    /\ ReuseFollowsOutcome

CollectInv == CollectTypeOK /\ StandInv /\ EventInv /\ AmountInv /\ OutcomeInv

\* It holds before the first call.
LEMMA CollectStarts == CollectInit => CollectInv
<1> SUFFICES ASSUME CollectInit PROVE CollectInv
  OBVIOUS
<1> USE CollectAssumption DEF CollectInit, Init, ClientInit
<1>1. /\ kept \in [Kept -> Nat]
      /\ kept["Data"] = 0 /\ kept["Status"] = 0 /\ kept["Comment"] = 0
  BY DEF Nothing, Kept
<1>2. CollectTypeOK
  BY <1>1, Zenon DEF CollectTypeOK, NoEvent
<1>3. AmountInv
  BY <1>1 DEF AmountInv, Retained
<1> QED BY <1>2, <1>3 DEF CollectInv, StandInv, EventInv, OutcomeInv, ReuseFollowsOutcome

-----------------------------------------------------------------------------
(* Collect is a client *)

\* Every step of Collect is a step of OpenClient, or leaves the client alone.
LEMMA IsClientStep == [CollectNext]_allVars => [Next]_vars
<1> SUFFICES ASSUME [CollectNext]_allVars PROVE [Next]_vars
  OBVIOUS
<1>1. ASSUME NEW n \in Names, NEW s \in BOOLEAN, CollectCall(n, s) PROVE Next
  BY <1>1 DEF CollectCall, Next, Calls
<1>2. CASE Begins \/ CancelSucceeds \/ CallFails
  BY <1>2 DEF Begins, CancelSucceeds, CallFails
<1>3. CASE CallsNext
  BY <1>3 DEF CallsNext, Next, Calls
<1>4. CASE EventArrives
  BY <1>4 DEF EventArrives, Next, Resumes, ReadLine
<1>5. CASE HandlesEvent
  BY <1>5 DEF HandlesEvent, Refuses, Retains, Finishes, Next, Calls
<1>6. CASE Unwind \/ CollectDropped
  BY <1>6 DEF Unwind, CollectDropped, Next, Calls
<1>7. CASE Outside
  BY <1>7 DEF Outside, Next, Calls, Resumes, ReadLine
<1>8. CASE Runtime
  BY <1>8 DEF Runtime, Next, Resumes, ReadLine
<1>9. CASE Peer
  BY <1>9 DEF Next
<1>10. CASE UNCHANGED allVars
  BY <1>10 DEF allVars
<1> QED
  BY <1>1, <1>2, <1>3, <1>4, <1>5, <1>6, <1>7, <1>8, <1>9, <1>10 DEF CollectNext, Running

\* So the invariant of OpenClient holds here as well.
LEMMA ClientInvariance == CollectSpec => []IInv
<1>1. CollectInit => Init
  BY DEF CollectInit
<1> QED BY <1>1, IsClientStep, Invariance, PTL DEF CollectSpec, Spec

-----------------------------------------------------------------------------
(* Steps that the call's own code does not take *)

\* What they do to the guards and to the await the call is parked in.
Background ==
    /\ UNCHANGED <<collectVars, owner>>
    /\ \/ UNCHANGED <<io, transaction, completion, inquiry, io_uncertain, machine>>
       \/ /\ io # "none"
          /\ io' \in {"none", io} \/ (io = "drain" /\ io' = "command")
          /\ inquiry' => inquiry /\ (io \in {"End", "Can"} => io' = io)
          /\ \/ UNCHANGED <<transaction, completion>>
             \/ io = "command" /\ io' = "none" /\ transaction' /\ completion' = "Pending"

\* A parked call never belongs to a dropped core.
LEMMA ParkedIsOwned ==
    ASSUME IInv, io # "none" PROVE owner # "dropped"
BY DEF IInv, TypeOK, ParkedInv, OwnerInv, Reading, Writing

\* The runtime and the peer do no more than that.
LEMMA RuntimeIsBackground ==
    ASSUME Runtime \/ (Peer /\ UNCHANGED collectVars) PROVE Background
<1> USE DEF Background, FailsIo, Reading, Writing, guardVars, inquiryVars, coreVars, GuardGone
<1>1. CASE RejectLine /\ UNCHANGED collectVars
  BY <1>1, Zenon DEF RejectLine
<1>2. CASE SkipEmptyLine /\ UNCHANGED collectVars
  BY <1>2 DEF SkipEmptyLine, ReadsOn
<1>3. CASE InquiryNewFails /\ UNCHANGED collectVars
  BY <1>3 DEF InquiryNewFails
<1>4. CASE DrainLine /\ UNCHANGED collectVars
  BY <1>4 DEF DrainLine, ReadsOn, WritesCommand
<1>5. CASE ReadFails /\ UNCHANGED collectVars
  BY <1>5, Zenon DEF ReadFails
<1>6. CASE CommandWritten /\ UNCHANGED collectVars
  BY <1>6 DEF CommandWritten
<1>7. CASE CompletionWritten /\ UNCHANGED collectVars
  BY <1>7 DEF CompletionWritten
<1>8. CASE WriteFails /\ UNCHANGED collectVars
  BY <1>8, Zenon DEF WriteFails
<1>9. CASE (ExpireCore \/ ExpireInquiry) /\ UNCHANGED collectVars
  BY <1>9 DEF ExpireCore, ExpireInquiry
<1>10. CASE Peer /\ UNCHANGED collectVars
  BY <1>10, Zenon DEF Peer, PeerReads, PeerCloses, PeerSends, clientVars
<1> QED
  BY <1>1, <1>2, <1>3, <1>4, <1>5, <1>6, <1>7, <1>8, <1>9, <1>10
  DEF Runtime, ReadTimeout, ReadEof, ReadError, WriteTimeout, WriteError

\* They keep the invariant.
LEMMA BackgroundStep ==
    ASSUME IInv, CollectInv, Background PROVE CollectInv'
<1>inv. CollectTypeOK /\ StandInv /\ EventInv /\ AmountInv /\ OutcomeInv
  BY DEF CollectInv
<1>same. UNCHANGED <<step, secret, event, events, kept, result, offered, owner>>
  BY DEF Background, collectVars
<1>idle. step \in {"event", "unwind"} \/ (step = "idle" /\ result # "none") =>
            UNCHANGED <<io, transaction, completion, inquiry, io_uncertain, machine>>
  BY <1>inv, ParkedIsOwned DEF Background, StandInv, OutcomeInv, IInv, TypeOK
<1>1. CollectTypeOK'
  BY <1>inv, <1>same DEF CollectTypeOK
<1>2. StandInv'
  BY <1>inv, <1>same DEF StandInv, Background
<1>3. EventInv'
  BY <1>inv, <1>same, <1>idle DEF EventInv, IsUsable
<1>4. AmountInv'
  BY <1>inv, <1>same, <1>idle DEF AmountInv, Retained, Weight
<1>5. OutcomeInv'
  BY <1>inv, <1>same, <1>idle
  DEF OutcomeInv, ReuseFollowsOutcome, IsUsable, Unusable, CollectTypeOK
<1> QED BY <1>1, <1>2, <1>3, <1>4, <1>5 DEF CollectInv
-----------------------------------------------------------------------------
(* Steps of the application outside a call *)

\* Outside a call only the owner of the core matters.
LEMMA OutsideStep ==
    ASSUME IInv, CollectInv, Outside PROVE CollectInv'
<1>inv. CollectTypeOK /\ StandInv /\ EventInv /\ AmountInv /\ OutcomeInv
  BY DEF CollectInv
<1>same. step = "idle" /\ UNCHANGED <<step, secret, event, events, kept, result, offered>>
  BY DEF Outside, collectVars
<1>1. \/ owner = "handshake" /\ (owner' = "client" => io' = "none" /\ ~transaction')
      \/ owner' = "dropped" /\ UNCHANGED completion
  <2>1. CASE HandshakeNext
    BY <2>1 DEF HandshakeNext
  <2>2. CASE HandshakeFinish
    BY <2>2 DEF HandshakeFinish, IInv, OwnerInv
  <2>3. CASE DeliverEvent
    BY <2>3, <1>inv, <1>same DEF DeliverEvent, StandInv, IInv, ParkedInv, OwnerInv
  <2>4. CASE DropInquiry
    BY <2>4, <1>inv, <1>same DEF DropInquiry, StandInv, IInv, OwnerInv
  <2>5. CASE DropOwner
    BY <2>5 DEF DropOwner
  <2> QED BY <2>1, <2>2, <2>3, <2>4, <2>5 DEF Outside
<1>2. owner = "handshake" => result = "none"
  BY <1>inv DEF OutcomeInv
<1>3. CollectTypeOK'
  BY <1>inv, <1>same DEF CollectTypeOK
<1>4. StandInv' /\ EventInv'
  BY <1>1, <1>same DEF StandInv, EventInv
<1>5. AmountInv'
  BY <1>1, <1>2, <1>inv, <1>same DEF AmountInv, Retained
<1>6. OutcomeInv'
  BY <1>1, <1>2, <1>inv, <1>same DEF OutcomeInv, ReuseFollowsOutcome
<1> QED BY <1>3, <1>4, <1>5, <1>6 DEF CollectInv

-----------------------------------------------------------------------------
(* Steps of the call *)

\* A call starts with nothing retained and nothing offered.
LEMMA CallStep ==
    ASSUME IInv, CollectInv, NEW n \in Names, NEW s \in BOOLEAN, CollectCall(n, s)
    PROVE  CollectInv'
<1>1. /\ step' = "command" /\ secret' = s /\ result' = "none"
      /\ event' = NoEvent /\ events' = 0 /\ kept' = Nothing /\ offered' = 0
  BY DEF CollectCall
<1>2. /\ owner = "client" /\ ~inquiry /\ io' \in {"none", "drain", "command"}
      /\ UNCHANGED <<owner, transaction, inquiry>> /\ ~transaction
  BY DEF CollectCall, Command, guardVars, inquiryVars, StartsIo, WritesCommand, FailsIo
<1>3. /\ kept' \in [Kept -> Nat]
      /\ kept'["Data"] = 0 /\ kept'["Status"] = 0 /\ kept'["Comment"] = 0
  BY <1>1 DEF Nothing, Kept
<1>4. CollectTypeOK'
  BY <1>1, <1>3 DEF CollectTypeOK, NoEvent
<1>5. StandInv' /\ EventInv' /\ OutcomeInv'
  BY <1>1, <1>2 DEF StandInv, EventInv, OutcomeInv, ReuseFollowsOutcome, NoEvent
<1>6. AmountInv'
  BY <1>1, <1>3, CollectAssumption DEF AmountInv, Retained
<1> QED BY <1>4, <1>5, <1>6 DEF CollectInv

\* Steps of the call that leave the client alone: it goes on, or gives up.
LEMMA QuietStep ==
    ASSUME IInv, CollectInv, Begins \/ CancelSucceeds \/ CallFails
    PROVE  CollectInv'
<1>inv. CollectTypeOK /\ StandInv /\ EventInv /\ AmountInv /\ OutcomeInv
  BY DEF CollectInv
<1>same. /\ UNCHANGED <<secret, event, events, kept, offered>>
         /\ UNCHANGED <<io, owner, transaction, completion, inquiry, io_uncertain, machine>>
  BY DEF Begins, CancelSucceeds, CallFails, vars, clientVars, coreVars, guardVars, inquiryVars
<1>1. CASE Begins
  <2>1. /\ step = "command" /\ transaction
        /\ \/ step' = "next" /\ result' = result
           \/ step' = "unwind" /\ result' = "Limit"
    BY <1>1 DEF Begins
  <2>2. CollectTypeOK' /\ StandInv' /\ EventInv'
    BY <2>1, <1>inv, <1>same DEF CollectTypeOK, StandInv, EventInv
  <2>3. AmountInv'
    BY <2>1, <1>inv, <1>same DEF AmountInv, OutcomeInv, Retained
  <2>4. OutcomeInv'
    BY <2>1, <1>inv, <1>same DEF StandInv, EventInv, OutcomeInv, ReuseFollowsOutcome
  <2> QED BY <2>2, <2>3, <2>4 DEF CollectInv
<1>2. CASE CancelSucceeds
  <2>1. step = "cancel" /\ step' = "next" /\ io = "none" /\ result' = result
    BY <1>2 DEF CancelSucceeds
  <2>2. CollectTypeOK' /\ StandInv' /\ EventInv'
    BY <2>1, <1>inv, <1>same DEF CollectTypeOK, StandInv, EventInv
  <2>3. AmountInv' /\ OutcomeInv'
    BY <2>1, <1>inv, <1>same
    DEF StandInv, AmountInv, OutcomeInv, ReuseFollowsOutcome, Retained
  <2> QED BY <2>2, <2>3 DEF CollectInv
<1>3. CASE CallFails
  <2>1. /\ step \in {"command", "next", "cancel"} /\ io = "none" /\ Unusable
        /\ step' = IF transaction THEN "unwind" ELSE "idle"
        /\ result' = "Error"
    BY <1>3 DEF CallFails
  <2>2. CollectTypeOK' /\ StandInv' /\ EventInv'
    BY <2>1, <1>inv, <1>same DEF CollectTypeOK, StandInv, EventInv
  <2>3. AmountInv' /\ OutcomeInv'
    BY <2>1, <1>inv, <1>same
    DEF StandInv, AmountInv, OutcomeInv, ReuseFollowsOutcome, Retained, Unusable, IsUsable,
        CM!Terminal
  <2> QED BY <2>2, <2>3 DEF CollectInv
<1> QED BY <1>1, <1>2, <1>3

\* tx.next starts to read, or finds that it may not.
LEMMA NextStep ==
    ASSUME IInv, CollectInv, CallsNext PROVE CollectInv'
<1>inv. CollectTypeOK /\ StandInv /\ EventInv /\ AmountInv /\ OutcomeInv
  BY DEF CollectInv
<1>1. /\ step = "next" /\ io' \in {"none", "next"}
      /\ UNCHANGED <<step, secret, event, events, kept, result, offered>>
      /\ UNCHANGED <<owner, transaction, completion, inquiry>>
  BY DEF CallsNext, TransactionNext, NextEvent, StartsIo, FailsIo, guardVars, inquiryVars,
         collectVars
<1>2. CollectTypeOK' /\ StandInv' /\ EventInv'
  BY <1>1, <1>inv DEF CollectTypeOK, StandInv, EventInv
<1>3. AmountInv' /\ OutcomeInv'
  BY <1>1, <1>inv DEF AmountInv, OutcomeInv, ReuseFollowsOutcome, Retained
<1> QED BY <1>2, <1>3 DEF CollectInv

\* The future is dropped: the marker stays set, so the client is not usable.
LEMMA DroppedStep ==
    ASSUME IInv, CollectInv, CollectDropped PROVE CollectInv'
<1>inv. CollectTypeOK /\ StandInv /\ EventInv /\ AmountInv /\ OutcomeInv
  BY DEF CollectInv
<1>1. /\ step # "idle" /\ io # "none" /\ io' = "none"
      /\ step' = IF transaction THEN "unwind" ELSE "idle"
      /\ result' = "Cancelled"
      /\ UNCHANGED <<secret, event, events, kept, offered>>
      /\ UNCHANGED <<owner, transaction, completion, io_uncertain>>
  BY DEF CollectDropped, CancelRead, CancelWrite, guardVars, Reading, Writing
<1>2. io_uncertain
  BY <1>1 DEF IInv, ParkedInv
<1>3. CollectTypeOK' /\ StandInv' /\ EventInv'
  BY <1>1, <1>inv DEF CollectTypeOK, StandInv, EventInv
<1>4. AmountInv' /\ OutcomeInv'
  BY <1>1, <1>2, <1>inv
  DEF StandInv, AmountInv, OutcomeInv, ReuseFollowsOutcome, Retained, Unusable, IsUsable
<1> QED BY <1>3, <1>4 DEF CollectInv

\* A receive returns the first line of all that is ahead of it.
LEMMA ReceivesHead ==
    ASSUME ahead \in Seq(ServerLine), s2c \in Seq(ServerLine),
           NEW r \in Receives(ahead, partial, s2c)
    PROVE  r.line = Head(ahead \o s2c)
<1>1. CASE ahead # <<>>
  <2>1. r.line = Head(ahead)
    BY <1>1 DEF Receives
  <2>2. Head(ahead \o s2c) = Head(ahead)
    BY <1>1
  <2> QED BY <2>1, <2>2, Zenon
<1>2. CASE ahead = <<>>
  <2>1. r.line = s2c[1] /\ s2c # <<>>
    BY <1>2 DEF Receives
  <2>2. ahead \o s2c = s2c
    BY <1>2
  <2> QED BY <2>1, <2>2
<1> QED BY <1>1, <1>2, Zenon

\* The weight of an event is a number of bytes.
LEMMA WeightType ==
    ASSUME NEW e \in [kind : Incoming \cup {"Fragment", "none"}, size : Nat]
    PROVE  Weight(e) \in Nat
BY DEF Weight

\* An event arrives: guard, completion and phase are what its kind says.
LEMMA ArrivesStep ==
    ASSUME IInv, CollectInv, EventArrives PROVE CollectInv'
<1>inv. CollectTypeOK /\ StandInv /\ EventInv /\ AmountInv /\ OutcomeInv
  BY DEF CollectInv
<1>type. /\ machine \in CM!Machine /\ ahead \in Seq(ServerLine) /\ partial \in BOOLEAN
         /\ s2c \in Seq(ServerLine)
  BY Zenon DEF IInv, TypeOK, WireTypeOK
<1>1. /\ step = "next" /\ step' = "event" /\ UNCHANGED <<secret, events, kept, result>>
      /\ io' = "none" /\ ~io_uncertain' /\ UNCHANGED <<owner, transaction>>
      /\ offered' = offered + Weight(event)'
  BY DEF EventArrives, DeliverEvent
<1>2. PICK size \in Sizes : event' = [kind |-> Head(ahead \o s2c).kind, size |-> size]
  BY Zenon DEF EventArrives
<1>3. PICK r \in Receives(ahead, partial, s2c) :
         /\ r.line.kind # "Empty" /\ ~Refused(r.line)
         /\ machine' = CM!Receive(machine, r.line.kind).machine
         /\ TakesEvent(r.line)
  BY DEF EventArrives, DeliverEvent
<1>4. r.line \in ServerLine /\ r.line = Head(ahead \o s2c)
  BY <1>3, <1>type, ReceivesType, ReceivesHead, Zenon
<1>5. /\ event' = [kind |-> r.line.kind, size |-> size]
      /\ r.line.kind \in Incoming \cup {"Fragment"} /\ size \in Nat
  BY <1>2, <1>4, CollectAssumption, Zenon DEF ServerLine
<1>6. event' \in [kind : Incoming \cup {"Fragment", "none"}, size : Nat]
      /\ event'.kind = r.line.kind
  BY <1>5
<1>7. /\ inquiry' => inquiry \/ event'.kind = "Inquire"
      /\ event'.kind = "Ok" => completion' = "Success"
      /\ event'.kind = "Err" => completion' = "Remote"
      /\ event'.kind \notin {"Ok", "Err"} => completion' = completion
  BY <1>3, <1>6 DEF TakesEvent, inquiryVars
<1>8. event'.kind \in {"Ok", "Err"} => IsUsable'
  BY <1>1, <1>3, <1>6, <1>type, ReceiveFinal DEF Refused, IsUsable
<1>9. Weight(event)' \in Nat /\ Retained' = Retained
  BY <1>1, <1>6, WeightType DEF Retained
<1>10. CollectTypeOK'
  BY <1>1, <1>6, <1>9, <1>inv, SMTT(30) DEF CollectTypeOK
<1>11. StandInv' /\ EventInv'
  BY <1>1, <1>7, <1>8, <1>inv DEF StandInv, EventInv
<1>12. AmountInv' /\ OutcomeInv'
  BY <1>1, <1>9, <1>inv DEF AmountInv, OutcomeInv, ReuseFollowsOutcome
<1> QED BY <1>10, <1>11, <1>12 DEF CollectInv

\* Releasing a transaction keeps a usable client usable, and only that.
LEMMA ReleaseFacts ==
    ASSUME IInv, ReleaseTransaction
    PROVE  /\ transaction /\ ~inquiry /\ io = "none" /\ io' = "none"
           /\ ~transaction' /\ UNCHANGED <<owner, completion, inquiry>>
           /\ IsUsable' <=> IsUsable
<1>1. machine \in CM!Machine
  BY DEF IInv, TypeOK
<1>2. Invalidates => ~IsUsable'
  BY <1>1, InvalidateFacts DEF Invalidates, IsUsable, CM!Terminal
<1> QED BY <1>2 DEF ReleaseTransaction, IsUsable, inquiryVars

\* The locals of a call that returns an error are dropped.
LEMMA UnwindStep ==
    ASSUME IInv, CollectInv, Unwind PROVE CollectInv'
<1>inv. CollectTypeOK /\ StandInv /\ EventInv /\ AmountInv /\ OutcomeInv
  BY DEF CollectInv
<1>same. step = "unwind" /\ UNCHANGED <<secret, event, events, kept, result, offered>>
  BY DEF Unwind
<1>1. CASE DropInquiry /\ UNCHANGED step
  <2>1. /\ inquiry /\ io' = io /\ UNCHANGED <<owner, transaction, completion>>
        /\ Invalidates /\ io_uncertain' = io_uncertain
    BY <1>1 DEF DropInquiry
  <2>2. Unusable'
    BY <2>1, InvalidateFacts DEF Invalidates, Unusable, IInv, TypeOK
  <2>3. CollectTypeOK' /\ StandInv' /\ EventInv'
    BY <1>1, <2>1, <1>inv, <1>same DEF CollectTypeOK, StandInv, EventInv
  <2>4. AmountInv' /\ OutcomeInv'
    BY <1>1, <2>1, <2>2, <1>inv, <1>same
    DEF AmountInv, OutcomeInv, ReuseFollowsOutcome, Retained
  <2> QED BY <2>3, <2>4 DEF CollectInv
<1>2. CASE ReleaseTransaction /\ step' = "idle"
  <2>1. completion = "Pending" \/ Unusable => ~IsUsable
    BY <1>2, ReleaseFacts DEF IInv, CountInv, IsUsable, Unusable, CM!Terminal
  <2>2. CollectTypeOK' /\ StandInv' /\ EventInv'
    BY <1>2, <1>inv, <1>same, ReleaseFacts DEF CollectTypeOK, StandInv, EventInv
  <2>3. AmountInv'
    BY <1>2, <1>inv, <1>same, ReleaseFacts DEF AmountInv, OutcomeInv, Retained
  <2>4. OutcomeInv'
    BY <1>2, <2>1, <1>inv, <1>same, ReleaseFacts DEF OutcomeInv, ReuseFollowsOutcome, StandInv
  <2> QED BY <2>2, <2>3, <2>4 DEF CollectInv
<1> QED BY <1>1, <1>2 DEF Unwind

\* Retaining adds what the event weighs.
LEMMA RetainsAdds ==
    ASSUME kept \in [Kept -> Nat], NEW k \in Kept, NEW n \in Nat,
           kept' = [kept EXCEPT ![k] = @ + n]
    PROVE  kept' \in [Kept -> Nat] /\ Retained' = Retained + n
<1>1. /\ kept["Data"] \in Nat /\ kept["Status"] \in Nat /\ kept["Comment"] \in Nat
      /\ "Data" \in DOMAIN kept /\ "Status" \in DOMAIN kept /\ "Comment" \in DOMAIN kept
  BY DEF Kept
<1>2. kept'[k] = kept[k] + n /\ \A j \in Kept \ {k} : kept'[j] = kept[j]
  OBVIOUS
<1>3. CASE k = "Data"
  BY <1>1, <1>2, <1>3 DEF Retained, Kept
<1>4. CASE k = "Status"
  BY <1>1, <1>2, <1>4 DEF Retained, Kept
<1>5. CASE k = "Comment"
  BY <1>1, <1>2, <1>5 DEF Retained, Kept
<1> QED BY <1>1, <1>2, <1>3, <1>4, <1>5 DEF Kept

\* The loop's body: limits first, then what the kind of the event asks for.
LEMMA HandlesStep ==
    ASSUME IInv, CollectInv, HandlesEvent PROVE CollectInv'
<1>inv. CollectTypeOK /\ StandInv /\ EventInv /\ AmountInv /\ OutcomeInv
  BY DEF CollectInv
<1>same. /\ step = "event" /\ events' = events + 1
         /\ UNCHANGED <<secret, event, offered>>
  BY DEF HandlesEvent
<1>here. /\ owner = "client" /\ transaction /\ io = "none" /\ result = "none"
         /\ inquiry => event.kind = "Inquire"
         /\ event.kind = "Ok" => completion = "Success" /\ IsUsable
         /\ event.kind = "Err" => completion = "Remote" /\ IsUsable
         /\ event.kind \notin {"Ok", "Err"} => completion = "Pending"
         /\ offered = Retained + Weight(event) /\ Retained <= MaxBytes
  BY <1>inv, <1>same DEF StandInv, EventInv, AmountInv, OutcomeInv
<1>type. /\ events \in Nat /\ events + 1 \in Nat /\ Retained \in Nat /\ Weight(event) \in Nat
         /\ MaxEvents \in Nat /\ MaxBytes \in Nat /\ kept \in [Kept -> Nat]
  BY <1>inv, WeightType, CollectAssumption DEF CollectTypeOK, Retained, Kept
<1>keep. UNCHANGED vars =>
            UNCHANGED <<io, owner, transaction, completion, inquiry, io_uncertain, machine>>
  BY DEF vars, clientVars, coreVars, guardVars, inquiryVars
<1>1. CASE Refuses
  <2>1. /\ step' = "unwind" /\ result' = "Limit" /\ kept' = kept
        /\ UNCHANGED <<io, owner, transaction, completion, inquiry, io_uncertain, machine>>
    BY <1>1, <1>keep DEF Refuses
  <2>2. CollectTypeOK' /\ StandInv' /\ EventInv'
    BY <2>1, <1>inv, <1>same, <1>here, <1>type DEF CollectTypeOK, StandInv, EventInv
  <2>3. AmountInv'
    BY <2>1, <1>inv, <1>same DEF AmountInv, Retained
  <2>4. OutcomeInv'
    BY <2>1, <1>same, <1>here DEF OutcomeInv, ReuseFollowsOutcome, IsUsable
  <2> QED BY <2>2, <2>3, <2>4 DEF CollectInv
<1>2. CASE WithinEvents /\ event.kind = "Inquire" /\ CompleteInquiry("Can") /\ step' = "cancel"
           /\ UNCHANGED <<result, kept>>
  <2>1. /\ io' \in {"none", "Can"} /\ (io' = "none" => ~inquiry')
        /\ UNCHANGED <<owner, transaction, completion>>
    BY <1>2 DEF CompleteInquiry, StartsIo, FailsIo, GuardGone
  <2>2. CollectTypeOK' /\ StandInv' /\ EventInv'
    BY <1>2, <2>1, <1>inv, <1>same, <1>here, <1>type DEF CollectTypeOK, StandInv, EventInv
  <2>3. Weight(event) = 0 /\ Retained' = Retained /\ events' <= MaxEvents
    BY <1>2, <1>same DEF Weight, Retained, WithinEvents
  <2>4. AmountInv' /\ OutcomeInv'
    BY <1>2, <2>1, <2>3, <1>same, <1>here, <1>type
    DEF AmountInv, OutcomeInv, ReuseFollowsOutcome
  <2> QED BY <2>2, <2>4 DEF CollectInv
<1>3. CASE WithinEvents /\ event.kind = "End" /\ step' = "next"
           /\ UNCHANGED <<vars, result, kept>>
  <2>1. CollectTypeOK' /\ StandInv' /\ EventInv'
    BY <1>3, <1>keep, <1>inv, <1>same, <1>here, <1>type DEF CollectTypeOK, StandInv, EventInv
  <2>2. Weight(event) = 0 /\ Retained' = Retained /\ events' <= MaxEvents
    BY <1>3, <1>same DEF Weight, Retained, WithinEvents
  <2>3. AmountInv' /\ OutcomeInv'
    BY <1>3, <1>keep, <2>2, <1>same, <1>here, <1>type
    DEF AmountInv, OutcomeInv, ReuseFollowsOutcome
  <2> QED BY <2>1, <2>3 DEF CollectInv
<1>4. CASE WithinEvents /\ event.kind \in Kept /\ HasRoom(Weight(event))
           /\ kept' = [kept EXCEPT ![event.kind] = @ + Weight(event)]
           /\ step' = "next" /\ UNCHANGED <<vars, result>>
  <2>1. kept' \in [Kept -> Nat] /\ Retained' = Retained + Weight(event)
    BY <1>4, <1>type, RetainsAdds, Zenon
  <2>2. CollectTypeOK' /\ StandInv' /\ EventInv'
    BY <1>4, <1>keep, <2>1, <1>inv, <1>same, <1>here, <1>type
    DEF CollectTypeOK, StandInv, EventInv, Kept
  <2>3. Retained' <= MaxBytes /\ offered' = Retained' /\ events' <= MaxEvents
    BY <1>4, <2>1, <1>same, <1>here DEF HasRoom, WithinEvents
  <2>4. AmountInv' /\ OutcomeInv'
    BY <1>4, <1>keep, <2>3, <1>same, <1>here DEF AmountInv, OutcomeInv, ReuseFollowsOutcome
  <2> QED BY <2>2, <2>4 DEF CollectInv
<1>5. CASE WithinEvents /\ event.kind \notin Kept \cup {"Inquire", "End"} /\ Finishes
  <2>1. /\ step' = "idle" /\ kept' = kept /\ Retained' = Retained
        /\ Unusable => result' = "Error"
        /\ ~Unusable /\ completion = "Remote" => result' = "Remote"
        /\ ~Unusable /\ completion = "Success" => result' = "Ok"
        /\ completion = "Pending" => result' = "Error"
    BY <1>5 DEF Finishes, Retained
  <2>2. /\ io' = "none" /\ ~transaction' /\ UNCHANGED <<owner, completion>>
        /\ IsUsable' <=> IsUsable
    BY <1>5, ReleaseFacts DEF Finishes
  <2>3. /\ Unusable => ~IsUsable
        /\ completion = "Pending" => ~IsUsable
        /\ completion # "Pending" => IsUsable
    BY <1>here DEF IInv, CountInv, IsUsable, Unusable, CM!Terminal
  <2>4. completion \in {"Pending", "Success", "Remote"} /\ result' \in {"Ok", "Remote", "Error"}
    BY <2>1 DEF IInv, TypeOK
  <2>5. CollectTypeOK' /\ StandInv' /\ EventInv'
    BY <2>1, <2>2, <2>4, <1>inv, <1>same, <1>type DEF CollectTypeOK, StandInv, EventInv
  <2>6. Weight(event) = 0 /\ events' <= MaxEvents
    BY <1>5, <1>same DEF Weight, WithinEvents, Kept
  <2>7. AmountInv'
    BY <2>1, <2>2, <2>4, <2>6, <1>same, <1>here, <1>type DEF AmountInv
  <2>8. OutcomeInv'
    BY <2>1, <2>2, <2>3, <2>4, <1>same, <1>here DEF OutcomeInv, ReuseFollowsOutcome
  <2> QED BY <2>5, <2>7, <2>8 DEF CollectInv
<1> QED
  BY <1>1, <1>2, <1>3, <1>4, <1>5, Zenon DEF HandlesEvent, Retains, Kept

\* Every step keeps the invariant.
LEMMA CollectStep ==
    ASSUME IInv, CollectInv, [CollectNext]_allVars PROVE CollectInv'
<1>1. CASE UNCHANGED allVars
  <2>1. Background
    BY <1>1 DEF allVars, vars, clientVars, coreVars, guardVars, inquiryVars, Background
  <2> QED BY <2>1, BackgroundStep
<1>2. CASE Runtime \/ (Peer /\ UNCHANGED collectVars)
  BY <1>2, RuntimeIsBackground, BackgroundStep
<1> QED
  BY <1>1, <1>2, CallStep, QuietStep, NextStep, ArrivesStep, HandlesStep, UnwindStep,
     DroppedStep, OutsideStep
  DEF CollectNext, Running

\* CollectInv is an invariant.
THEOREM CollectInvariance == CollectSpec => []CollectInv
BY CollectStarts, CollectStep, ClientInvariance, PTL DEF CollectSpec

(***************************************************************************)
(* A collect or collect_secret that succeeds returns all the bytes of all  *)
(* the events the server sent, within both limits, for every limit and     *)
(* every size of an event; protected storage of max_bytes always suffices. *)
(***************************************************************************)
THEOREM CollectsAll == CollectSpec => []CollectedIsComplete
<1>1. CollectInv => CollectedIsComplete
  <2> SUFFICES ASSUME CollectInv PROVE CollectedIsComplete
    OBVIOUS
  <2>1. /\ kept["Data"] \in Nat /\ kept["Status"] \in Nat /\ kept["Comment"] \in Nat
        /\ MaxBytes \in Nat
    BY CollectAssumption DEF CollectInv, CollectTypeOK, Kept
  <2>2. event.size \in Nat
    BY DEF CollectInv, CollectTypeOK
  <2>3. HasRoom(event.size) => SecretFits(event.size)
    BY <2>1, <2>2 DEF HasRoom, SecretFits, Retained
  <2> QED BY <2>3 DEF CollectInv, AmountInv, CollectedIsComplete
<1> QED BY <1>1, CollectInvariance, PTL

(***************************************************************************)
(* After a call the client is usable exactly if the final response of its  *)
(* command has been received, whatever the server sent, whichever limit was*)
(* exceeded and wherever the call was dropped.                             *)
(***************************************************************************)
THEOREM Reuse == CollectSpec => []ReuseFollowsOutcome
<1>1. CollectInv => ReuseFollowsOutcome
  BY DEF CollectInv, OutcomeInv
<1> QED BY <1>1, CollectInvariance, PTL
=============================================================================
