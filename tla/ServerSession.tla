---------------------------- MODULE ServerSession ----------------------------
(***************************************************************************)
(* One accepted connection on the server: Session::run and drive, the      *)
(* CommandContext lent to hooks and handlers, and the ServerInquiry guard  *)
(* (crates/assuan-server session.rs, context.rs, inquiry.rs, builtins.rs). *)
(*                                                                         *)
(* at is where run stands.  In "auth" and "handler" application code is    *)
(* running and may make any sequence of context calls the borrow rules     *)
(* allow, swallow their errors, drop or forget the inquiry guard, and      *)
(* return anything; io names the context call it is parked in.             *)
(***************************************************************************)
EXTENDS Wire

CONSTANTS
    MaxInquiryBytes,    \* options.max_inquiry_bytes
    MaxDataLines        \* bound: D lines of one send_data call

ASSUME ServerAssumption ==
    /\ MaxInquiryBytes \in Nat
    /\ MaxDataLines \in Nat \ {0}
    /\ Names \subseteq {"NOP", "BYE", "HELP", "CALL", "UNKNOWN"}

VARIABLES
    machine,            \* session.machine
    ahead, partial,     \* channel read-ahead: whole lines, start of one more
    at,                 \* where run stands
    expired,            \* the deadline in force there has passed
    name,               \* command.name() of the command in progress
    final,              \* kind of the final response being written
    authenticated,      \* session.authenticated
    io,                 \* the context call application code is parked in
    rest,               \* lines that call still has to write
    inquiry,            \* a ServerInquiry guard is live
    inquiry_expired,    \* its own deadline has passed
    outcome, received,  \* ServerInquiry.outcome, ServerInquiry.received
    reason,             \* the SessionEnd given to the close hook
    dispatched,         \* history: commands accepted
    finals,             \* history: final responses completely written
    unanswered,         \* history: an INQUIRE was sent, no END or CAN consumed
    broken              \* history: some context I/O never completed

SM == INSTANCE ServerMachine

channelVars == <<sopen, ahead, partial>>
inquiryVars == <<inquiry, inquiry_expired, outcome, received>>
localVars == <<name, final, io, rest, inquiryVars>>
histVars == <<dispatched, finals, unanswered, broken>>
serverVars == <<machine, channelVars, at, expired, localVars, authenticated, reason,
                histVars>>
vars == <<serverVars, c2s, s2c, copen>>

Application == {"auth", "handler"}
Running == {"new", "idle", "final"} \cup Application
Ended == {"returned", "aborted"}

\* Context calls parked in a write, by the kind of line they write.
Writing == {"Status", "Data", "Inquire", "Comment"}

SessionEnd == {"Clean", "Protocol", "Transport", "Timeout", "Handler"}

TypeOK ==
    /\ WireTypeOK
    /\ machine \in SM!Machine
    /\ ahead \in Seq(ClientLine)
    /\ partial \in BOOLEAN
    /\ at \in Running \cup {"hook"} \cup Ended
    /\ expired \in BOOLEAN
    /\ name \in Names \cup {"-"}
    /\ final \in {"none", "Ok", "Err"}
    /\ authenticated \in BOOLEAN
    /\ io \in {"none", "next"} \cup Writing
    /\ rest \in Nat
    /\ inquiry \in BOOLEAN /\ inquiry_expired \in BOOLEAN
    /\ outcome \in {"none", "End", "Can"}
    /\ received \in Nat
    /\ reason \in SessionEnd \cup {"none"}
    /\ dispatched \in Nat /\ finals \in Nat
    /\ unanswered \in BOOLEAN /\ broken \in BOOLEAN

ServerInit ==
    /\ machine = SM!New
    /\ ahead = <<>> /\ partial = FALSE
    /\ at = "new" /\ expired = FALSE
    /\ name = "-" /\ final = "none"
    /\ authenticated = FALSE
    /\ io = "none" /\ rest = 0
    /\ inquiry = FALSE /\ inquiry_expired = FALSE
    /\ outcome = "none" /\ received = 0
    /\ reason = "none"
    /\ dispatched = 0 /\ finals = 0
    /\ unanswered = FALSE /\ broken = FALSE

-----------------------------------------------------------------------------
(* Session::run *)

Closes == sopen' = FALSE /\ ahead' = <<>> /\ partial' = FALSE

\* A guard's fields, and everything local to one command, go out of scope.
GuardGone ==
    /\ inquiry' = FALSE /\ inquiry_expired' = FALSE
    /\ outcome' = "none" /\ received' = 0

LocalsGone ==
    /\ name' = "-" /\ final' = "none"
    /\ io' = "none" /\ rest' = 0
    /\ GuardGone

\* drive is over: channel and machine are closed, then the close hook starts
\* with a deadline of its own.  Application futures and guards are gone.
EndsOpen(why) ==    \* mutated: the channel is left to the destructor
    /\ at' = "hook" /\ reason' = why
    /\ expired' = FALSE
    /\ machine' = SM!Close(machine)
    /\ LocalsGone
    /\ UNCHANGED channelVars
Ends(why) ==
    /\ at' = "hook" /\ reason' = why
    /\ expired' = FALSE
    /\ machine' = SM!Close(machine)
    /\ Closes
    /\ LocalsGone

\* run's first poll: refused options return before any output or hook.
Run ==
    /\ at = "new"
    /\ \/ at' = "auth" /\ UNCHANGED channelVars
       \/ at' = "returned" /\ Closes
    /\ UNCHANGED <<machine, expired, localVars, authenticated, reason, histVars,
                   c2s, s2c, copen>>

\* The close hook returns, or its deadline passes.
HookEnds ==
    /\ at = "hook"
    /\ at' = "returned"
    /\ UNCHANGED <<machine, channelVars, expired, localVars, authenticated, reason,
                   histVars, c2s, s2c, copen>>

HookTimeout == expired /\ HookEnds

\* The line a parked write is delivering, as the response it carries.
Response(kind) == [kind |-> kind, op |-> dispatched]

\* What a write cut short leaves on the wire; "none" when nothing was parked.
Cut(kind) == IF kind = "none" THEN {s2c} ELSE Interrupted(s2c, S2CCap, Response(kind))

OutputKind == IF at = "final" THEN final ELSE IF io \in Writing THEN io ELSE "none"

\* The run future is dropped (a panic unwinds it, or the task is aborted):
\* ownership closes the channel; no hook runs.
Abort ==
    /\ at \notin Ended
    /\ at' = "aborted"
    /\ s2c' \in Cut(OutputKind)
    /\ Closes
    /\ LocalsGone
    /\ UNCHANGED <<machine, expired, authenticated, reason, histVars, c2s, copen>>

Expire ==
    /\ ~expired /\ at \in (Running \ {"new"}) \cup {"hook"}
    /\ expired' = TRUE
    /\ UNCHANGED <<machine, channelVars, at, localVars, authenticated, reason, histVars,
                   c2s, s2c, copen>>

-----------------------------------------------------------------------------
(* drive: waiting for a command *)

\* The idle deadline is taken once, before the loop over ignored lines.
IdleContinuesUndated(r) ==    \* mutated: deadline not checked
    /\ ahead' = r.ahead /\ partial' = r.partial
    /\ UNCHANGED <<machine, sopen, at, expired, localVars, reason>>
IdleContinues(r) ==
    \/ expired /\ Ends("Timeout")
    \/ /\ ~expired
       /\ ahead' = r.ahead /\ partial' = r.partial
       /\ UNCHANGED <<machine, sopen, at, expired, localVars, reason>>

SkipRequest ==
    /\ at = "idle"
    /\ \E r \in Receives(ahead, partial, c2s) :
          /\ r.line.kind \in {"Comment", "Empty"}
          /\ c2s' = r.wire
          /\ IdleContinues(r)
    /\ UNCHANGED <<authenticated, histVars, s2c, copen>>

\* request_kind or the machine refuses the line.
RefuseRequest ==
    /\ at = "idle"
    /\ \E r \in Receives(ahead, partial, c2s) :
          /\ \/ r.line.kind = "Malformed"
             \/ SM!ReceiveRequest(machine, r.line.kind).err # "none"
          /\ c2s' = r.wire
    /\ Ends("Protocol")
    /\ UNCHANGED <<authenticated, histVars, s2c, copen>>

Dispatch ==
    /\ at = "idle"
    /\ \E r \in Receives(ahead, partial, c2s) :
          /\ r.line.kind = "Command"
          /\ SM!ReceiveRequest(machine, "Command").err = "none"
          /\ c2s' = r.wire
          /\ ahead' = r.ahead /\ partial' = r.partial
          /\ name' = r.line.name
    /\ machine' = SM!ReceiveRequest(machine, "Command").machine
    /\ at' = "handler" /\ expired' = FALSE
    /\ dispatched' = dispatched + 1
    /\ UNCHANGED <<sopen, final, authenticated, io, rest, inquiryVars, reason, finals,
                   unanswered, broken, s2c, copen>>

\* The idle read ends without a line.  EOF between lines is the clean end.
IdleStops(why) ==
    /\ at = "idle" /\ ahead = <<>>
    /\ Ends(why)
    /\ UNCHANGED <<authenticated, histVars, c2s, s2c, copen>>

IdleEof ==
    /\ ~copen /\ ~Arrived(ahead, c2s)
    /\ IdleStops(IF c2s = <<>> THEN "Clean" ELSE "Protocol")

IdleTimeout == expired /\ IdleStops("Timeout")
IdleError == sopen /\ IdleStops("Transport")

-----------------------------------------------------------------------------
(* drive and finalize: the application returns, the final response goes out *)

\* What each command can return: NOP and BYE succeed, an unknown command or a
\* malformed OPTION is refused, HELP propagates a refused entry or a failed
\* comment, and hooks and handlers return what they like.
Returns(res) ==
    CASE at = "auth" \/ name = "CALL" -> TRUE
      [] at # "auth" /\ name = "HELP" ->
            res = "Fatal" \/ (res = "Ok" /\ machine.state # "Invalid")
      [] at # "auth" /\ name = "UNKNOWN" -> res = "Remote"
      [] OTHER -> res = "Ok"

\* finalize passes these errors on, or refuses to answer.
FinalizeFails(res, why) ==
    \/ res = "Fatal" /\ why \in {"Protocol", "Transport", "Timeout", "Handler"}
    \/ /\ res # "Fatal"
       /\ \/ machine.state \notin {"Greeting", "Handler", "AwaitFinal"}
          \/ res = "BadRemote"
       /\ why = "Protocol"

ReturnFails ==
    /\ at \in Application /\ io = "none" /\ ~inquiry
    /\ \E res \in {"Ok", "Remote", "BadRemote", "Internal", "Fatal"}, why \in SessionEnd :
          Returns(res) /\ FinalizeFails(res, why) /\ Ends(why)
    /\ UNCHANGED <<authenticated, histVars, c2s, s2c, copen>>

\* The machine advances before the write, which refuses a passed deadline.
Return ==
    /\ at \in Application /\ io = "none" /\ ~inquiry
    /\ machine.state \in {"Greeting", "Handler", "AwaitFinal"}
    /\ \E res \in {"Ok", "Remote", "Internal"} :
          /\ Returns(res)
          /\ \/ expired /\ Ends("Timeout")
             \/ /\ ~expired
                /\ final' = IF res = "Ok" THEN "Ok" ELSE "Err"
                /\ machine' = SM!SendResponse(machine, final').machine
                /\ at' = "final"
                /\ UNCHANGED <<channelVars, expired, name, io, rest, inquiryVars, reason>>
    /\ UNCHANGED <<authenticated, histVars, c2s, s2c, copen>>

\* timeout_at drops the application's future, its guards and its parked call.
\* The commands answered without an await are done at their first poll.
HandlerTimeout ==
    /\ at \in Application /\ expired
    /\ at = "auth" \/ name \in {"CALL", "HELP"}
    /\ s2c' \in Cut(OutputKind)
    /\ Ends("Timeout")
    /\ UNCHANGED <<authenticated, histVars, c2s, copen>>

FinalWritten ==
    /\ at = "final" /\ Len(s2c) < S2CCap
    /\ s2c' = Append(s2c, Response(final))
    /\ finals' = finals + 1
    /\ CASE ~authenticated /\ final = "Err" -> Ends("Handler") /\ UNCHANGED authenticated
         [] authenticated /\ name = "BYE"   -> Ends("Clean") /\ UNCHANGED authenticated
         [] OTHER ->
              /\ at' = "idle" /\ expired' = FALSE
              /\ authenticated' = TRUE
              /\ LocalsGone
              /\ UNCHANGED <<machine, channelVars, reason>>
    /\ UNCHANGED <<dispatched, unanswered, broken, c2s, copen>>

FinalIgnored(why) ==    \* mutated: the write's error is not propagated
    /\ at = "final"
    /\ s2c' \in Cut(final)
    /\ at' = "idle" /\ expired' = FALSE
    /\ LocalsGone
    /\ UNCHANGED <<machine, channelVars, reason, authenticated, histVars, c2s, copen>>
FinalFails(why) ==
    /\ at = "final"
    /\ s2c' \in Cut(final)
    /\ Ends(why)
    /\ UNCHANGED <<authenticated, histVars, c2s, copen>>

FinalTimeout == expired /\ FinalFails("Timeout")
FinalError == sopen /\ FinalFails("Transport")

-----------------------------------------------------------------------------
(* CommandContext *)

\* An incomplete IoOperation, or an unfinished guard, is dropped.
Invalidates ==
    /\ machine' = SM!Invalidate(machine)
    /\ Closes

FailsIoQuietly ==    \* mutated: IoOperation without a Drop
    /\ io' = "none" /\ rest' = 0 /\ broken' = TRUE
    /\ UNCHANGED <<machine, channelVars>>
FailsIo == Invalidates /\ io' = "none" /\ rest' = 0 /\ broken' = TRUE

\* Application code holds a free context: built-ins other than HELP have none.
HasContext == at \in Application /\ (at = "auth" \/ name = "CALL") /\ io = "none"

\* A context call that writes: encode, send_response, then the write.  Refused
\* arguments, a refused transition and a passed deadline all invalidate.
StartsWrite(kind, lines) ==
    LET sent == SM!SendResponse(machine, kind) IN
    \/ FailsIo
    \/ /\ sent.err = "none" /\ ~expired
       /\ machine' = sent.machine
       /\ io' = kind /\ rest' = lines
       /\ UNCHANGED <<channelVars, broken>>

SendStatus ==
    /\ HasContext /\ ~inquiry
    /\ StartsWrite("Status", 1)
    /\ UNCHANGED <<at, expired, name, final, authenticated, inquiryVars, reason, dispatched,
                   finals, unanswered, c2s, s2c, copen>>

SendData(lines) ==
    /\ HasContext /\ ~inquiry
    /\ StartsWrite("Data", lines)
    /\ UNCHANGED <<at, expired, name, final, authenticated, inquiryVars, reason, dispatched,
                   finals, unanswered, c2s, s2c, copen>>

\* ctx.inquire: the inquiry's own deadline starts now.
Inquire ==
    /\ HasContext /\ ~inquiry
    /\ StartsWrite("Inquire", 1)
    /\ inquiry_expired' = FALSE
    /\ UNCHANGED <<at, expired, name, final, authenticated, inquiry, outcome,
                   received, reason, dispatched, finals, unanswered, c2s, s2c, copen>>

\* One comment line of HELP's listing; a failed one ends the listing.
HelpComment ==
    /\ at = "handler" /\ name = "HELP" /\ io = "none"
    /\ machine.state # "Invalid"
    /\ StartsWrite("Comment", 1)
    /\ UNCHANGED <<at, expired, name, final, authenticated, inquiryVars, reason, dispatched,
                   finals, unanswered, c2s, s2c, copen>>

\* A context write completes.  send_data goes on with its next D line.
ContextWritten ==
    /\ io \in Writing /\ Len(s2c) < S2CCap
    /\ s2c' = Append(s2c, Response(io))
    /\ IF io = "Inquire"
       THEN inquiry' = TRUE /\ outcome' = "none" /\ received' = 0 /\ unanswered' = TRUE
       ELSE UNCHANGED <<inquiry, outcome, received, unanswered>>
    /\ \/ /\ rest > 1
          /\ \/ expired /\ FailsIo
             \/ /\ ~expired /\ rest' = rest - 1
                /\ UNCHANGED <<machine, channelVars, io, broken>>
       \/ /\ rest = 1
          /\ rest' = 0 /\ io' = "none"
          /\ UNCHANGED <<machine, channelVars, broken>>
    /\ UNCHANGED <<at, expired, name, final, authenticated, inquiry_expired, reason,
                   dispatched, finals, c2s, copen>>

\* A context write fails, times out, or its future is dropped.
ContextWriteFails ==
    /\ io \in Writing
    /\ s2c' \in Interrupted(s2c, S2CCap, Response(io))
    /\ FailsIo
    /\ UNCHANGED <<at, expired, name, final, authenticated, inquiryVars, reason, dispatched,
                   finals, unanswered, c2s, copen>>

-----------------------------------------------------------------------------
(* ServerInquiry *)

InquiryLate == expired \/ inquiry_expired

\* next up to its await; once the outcome is known it returns None at once.
InquiryNext ==
    /\ HasContext /\ inquiry /\ outcome = "none"
    /\ \/ (InquiryLate \/ ~sopen) /\ FailsIo
       \/ /\ ~InquiryLate /\ sopen
          /\ io' = "next"
          /\ UNCHANGED <<machine, channelVars, rest, broken>>
    /\ UNCHANGED <<at, expired, name, final, authenticated, inquiryVars, reason, dispatched,
                   finals, unanswered, c2s, s2c, copen>>

\* END and CAN set the outcome; the machine stays in Inquiry until finish.
InquiryAnswered(r) ==
    /\ r.line.kind \in {"End", "Can"}
    /\ outcome' = r.line.kind
    /\ unanswered' = FALSE
    /\ io' = "none"
    /\ ahead' = r.ahead /\ partial' = r.partial
    /\ UNCHANGED <<machine, sopen, rest, received, broken>>

FitsAlone(r) == r.line.len <= MaxInquiryBytes    \* mutated: earlier lines forgotten
Fits(r) == received + r.line.len <= MaxInquiryBytes

InquiryData(r) ==
    /\ r.line.kind = "Data"
    /\ \/ /\ Fits(r)
          /\ received' = received + r.line.len
          /\ io' = "none"
          /\ ahead' = r.ahead /\ partial' = r.partial
          /\ UNCHANGED <<machine, sopen, rest, broken>>
       \/ /\ ~Fits(r)
          /\ FailsIo
          /\ UNCHANGED received
    /\ UNCHANGED <<outcome, unanswered>>

\* Lines the inquiry's loop passes over.
SkippableOrCan == {"Comment", "Empty", "Can"}    \* mutated: CAN not an outcome
Skippable == {"Comment", "Empty"}

InquirySkips(r) ==
    /\ r.line.kind \in Skippable
    /\ \/ InquiryLate /\ FailsIo
       \/ /\ ~InquiryLate
          /\ ahead' = r.ahead /\ partial' = r.partial
          /\ UNCHANGED <<machine, sopen, io, rest, broken>>
    /\ UNCHANGED <<outcome, received, unanswered>>

InquiryRefuses(r) ==
    /\ r.line.kind \in {"Malformed", "Command"}
    /\ FailsIo
    /\ UNCHANGED <<outcome, received, unanswered>>

InquiryLine ==
    /\ io = "next"
    /\ \E r \in Receives(ahead, partial, c2s) :
          /\ c2s' = r.wire
          /\ InquiryAnswered(r) \/ InquiryData(r) \/ InquirySkips(r) \/ InquiryRefuses(r)
    /\ UNCHANGED <<at, expired, name, final, authenticated, inquiry, inquiry_expired,
                   reason, dispatched, finals, s2c, copen>>

\* The read times out, meets EOF or an error, or its future is dropped.
InquiryReadFails ==
    /\ io = "next" /\ ahead = <<>>
    /\ FailsIo
    /\ UNCHANGED <<at, expired, name, final, authenticated, inquiryVars, reason, dispatched,
                   finals, unanswered, c2s, s2c, copen>>

InquiryReadTimeout == InquiryLate /\ InquiryReadFails

\* finish consumes the guard: with an outcome it applies the deferred
\* transition, without one the guard's Drop invalidates.
FinishInquiryEarly ==    \* mutated: no outcome yet counts as CAN
    /\ HasContext /\ inquiry
    /\ GuardGone
    /\ machine' = SM!ReceiveRequest(machine, IF outcome = "End" THEN "End" ELSE "Can").machine
    /\ UNCHANGED <<channelVars, at, expired, name, final, io, rest, authenticated, reason,
                   histVars, c2s, s2c, copen>>
FinishInquiry ==
    /\ HasContext /\ inquiry
    /\ GuardGone
    /\ LET done == SM!ReceiveRequest(machine, outcome) IN
       \/ /\ outcome # "none" /\ done.err = "none"
          /\ machine' = done.machine
          /\ UNCHANGED channelVars
       \/ /\ outcome = "none" \/ done.err # "none"
          /\ Invalidates
    /\ UNCHANGED <<at, expired, name, final, io, rest, authenticated, reason, histVars,
                   c2s, s2c, copen>>

\* Dropping an unfinished guard does what a failed finish does; forgetting it
\* runs no destructor.
ForgetInquiry ==
    /\ HasContext /\ inquiry
    /\ GuardGone
    /\ UNCHANGED <<machine, channelVars, at, expired, name, final, io, rest,
                   authenticated, reason, histVars, c2s, s2c, copen>>

DropInquiry ==
    /\ HasContext /\ inquiry
    /\ GuardGone
    /\ Invalidates
    /\ UNCHANGED <<at, expired, name, final, io, rest, authenticated, reason, histVars,
                   c2s, s2c, copen>>

ExpireInquiry ==
    /\ inquiry \/ io = "Inquire"
    /\ ~inquiry_expired
    /\ inquiry_expired' = TRUE
    /\ UNCHANGED <<machine, channelVars, at, expired, name, final, authenticated, io, rest,
                   inquiry, outcome, received, reason, histVars, c2s, s2c, copen>>
=============================================================================
