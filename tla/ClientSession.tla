---------------------------- MODULE ClientSession ----------------------------
(***************************************************************************)
(* One client connection: SessionCore, the Handshake, Transaction and      *)
(* Inquiry guards borrowed from it, and Client itself (crates/assuan-client*)
(* session.rs, handshake.rs, transaction.rs, inquiry.rs, client.rs).       *)
(*                                                                         *)
(* Every public async call is split at its awaits: one action runs it up to*)
(* the await (io names the await it is parked in), further actions resume  *)
(* it with a line, a finished write, a timeout or an error, and a Cancel   *)
(* action drops the future instead.  Guards are affine values: a live      *)
(* inquiry borrows the transaction, which borrows the client; each can be  *)
(* consumed, dropped or forgotten.                                         *)
(***************************************************************************)
EXTENDS Wire

CONSTANTS
    MaxCommands,        \* bound: commands begun on one connection
    MaxInquiryBytes,    \* options.max_inquiry_bytes
    ChunkBytes,         \* decoded bytes one D line of send carries at most
    SendSizes           \* lengths of the buffers applications pass to send

ASSUME ClientAssumption ==
    /\ MaxCommands \in Nat
    /\ MaxInquiryBytes \in Nat
    /\ ChunkBytes \in Nat \ {0}
    /\ SendSizes \subseteq Nat

VARIABLES
    machine,            \* core.machine
    io_uncertain,       \* core.io_uncertain
    ahead, partial,     \* channel read-ahead: whole lines, start of one more
    expired,            \* core.deadline has passed
    owner,              \* who owns the core: "handshake", "client", "dropped"
    error,              \* Handshake.error is set (rejected options)
    transaction,        \* a Transaction guard is live
    completion,         \* the completion of the live guard
    inquiry,            \* an Inquiry guard is live
    inquiry_expired,    \* its local deadline has passed
    sent, total, rest,  \* Inquiry.sent, and send's locals
    name,               \* the command being written
    io,                 \* the await the current call is parked in
    begun,              \* history: commands begun; the operation in progress
    finals,             \* history: final responses accepted
    broken              \* history: some read or write never completed

CM == INSTANCE ClientMachine

channelVars == <<copen, ahead, partial>>
coreVars == <<machine, io_uncertain, channelVars>>
guardVars == <<owner, error, transaction>>
inquiryVars == <<inquiry, inquiry_expired, sent, total, rest>>
histVars == <<begun, finals, broken>>
clientVars == <<coreVars, expired, guardVars, completion, inquiryVars, name, io, histVars>>
vars == <<clientVars, c2s, s2c, sopen>>

Reading == {"next", "drain"}
Writing == {"command", "data", "End", "Can"}

TypeOK ==
    /\ WireTypeOK
    /\ machine \in CM!Machine
    /\ io_uncertain \in BOOLEAN
    /\ ahead \in Seq(ServerLine)
    /\ partial \in BOOLEAN
    /\ expired \in BOOLEAN
    /\ owner \in {"handshake", "client", "dropped"}
    /\ error \in BOOLEAN
    /\ transaction \in BOOLEAN
    /\ completion \in {"Pending", "Success", "Remote"}
    /\ inquiry \in BOOLEAN
    /\ inquiry_expired \in BOOLEAN
    /\ sent \in Nat /\ total \in Nat /\ rest \in Nat
    /\ name \in Names \cup {"-"}
    /\ io \in {"none"} \cup Reading \cup Writing
    /\ begun \in Nat /\ finals \in Nat
    /\ broken \in BOOLEAN

\* Client::handshake on a fresh stream; error when the options are refused.
ClientInit ==
    /\ machine = CM!New
    /\ io_uncertain = FALSE
    /\ ahead = <<>> /\ partial = FALSE
    /\ error \in BOOLEAN
    /\ expired = FALSE
    /\ owner = "handshake"
    /\ transaction = FALSE
    /\ completion = "Pending"
    /\ inquiry = FALSE /\ inquiry_expired = FALSE
    /\ sent = 0 /\ total = 0 /\ rest = 0
    /\ name = "-"
    /\ io = "none"
    /\ begun = 0 /\ finals = 0 /\ broken = FALSE

-----------------------------------------------------------------------------
(* SessionCore *)

\* The condition under which check refuses (and invalidates).
UnusableByPhase == machine.state \in CM!Terminal    \* mutated: marker not consulted
Unusable == io_uncertain \/ machine.state \in CM!Terminal

\* Client::is_usable
IsUsable == ~io_uncertain /\ machine.state = "Ready"

HasBufferedInput == ahead # <<>> \/ partial

\* core.invalidate: machine.invalidate and channel.close.
Invalidates ==
    /\ machine' = CM!Invalidate(machine)
    /\ copen' = FALSE /\ ahead' = <<>> /\ partial' = FALSE

\* An I/O call that returns an error: its guard is dropped, not completed.
FailsIo ==
    /\ Invalidates
    /\ io_uncertain' = TRUE
    /\ io' = "none"
    /\ broken' = TRUE

\* IoGuard::begin and the start of read_line or write_line, which refuse a
\* deadline that has already passed before any I/O.
StartsIo(call, late) ==
    \/ late /\ FailsIo
    \/ /\ ~late
       /\ io_uncertain' = TRUE
       /\ io' = call
       /\ UNCHANGED <<machine, channelVars, broken>>

\* classify refuses the line: the parser does, or the machine does.
Refused(line) ==
    line.kind = "Malformed" \/ CM!Receive(machine, line.kind).err # "none"

\* begin_command, then the write of the encoded command up to its await.
\* a and p are the read-ahead at that moment (whole lines, partial line).
WritesCommand(late, a, p) ==
    /\ begun' = begun + 1
    /\ \/ late /\ FailsIo
       \/ /\ ~late
          /\ machine' = CM!BeginCommand(machine).machine
          /\ io_uncertain' = TRUE
          /\ io' = "command"
          /\ ahead' = a /\ partial' = p
          /\ UNCHANGED <<copen, broken>>

-----------------------------------------------------------------------------
(* Handshake, Transaction and Client: calls up to their first await *)

\* next_event.  A guard whose completion is known returns None at once and
\* changes nothing, so only the other two outcomes are steps.
NextEvent ==
    /\ io = "none" /\ ~inquiry
    /\ \/ /\ Unusable \/ machine.state = "Inquiry"
          /\ Invalidates
          /\ UNCHANGED <<io_uncertain, io, broken>>
       \/ /\ ~Unusable /\ machine.state # "Inquiry"
          /\ completion = "Pending"
          /\ StartsIo("next", expired)

HandshakeNext ==
    /\ owner = "handshake"
    /\ \/ /\ error /\ error' = FALSE
          /\ io = "none" /\ ~inquiry
          /\ Invalidates
          /\ UNCHANGED <<io_uncertain, io, broken>>
       \/ ~error /\ NextEvent /\ UNCHANGED error
    /\ UNCHANGED <<expired, owner, transaction, completion, inquiryVars, name,
                   begun, finals, c2s, s2c, sopen>>

\* finish consumes the handshake: the client is returned, or dropped with it.
HandshakeFinish ==
    /\ owner = "handshake" /\ io = "none" /\ ~inquiry
    /\ error' = FALSE
    /\ \/ /\ ~error /\ ~Unusable /\ completion = "Success"
          /\ owner' = "client"
          /\ UNCHANGED coreVars
       \/ /\ error \/ Unusable \/ completion # "Success"
          /\ owner' = "dropped"
          /\ copen' = FALSE /\ ahead' = <<>> /\ partial' = FALSE
          /\ UNCHANGED <<machine, io_uncertain>>
    /\ UNCHANGED <<expired, transaction, completion, inquiryVars, name, io,
                   histVars, c2s, s2c, sopen>>

TransactionNext ==
    /\ owner = "client" /\ transaction
    /\ NextEvent
    /\ UNCHANGED <<expired, guardVars, completion, inquiryVars, name, begun, finals,
                   c2s, s2c, sopen>>

\* What command_with asks of the core before anything else.
AcceptsAnyPhase == ~Unusable    \* mutated: an unfinished operation is not noticed
AcceptsCommand == ~Unusable /\ machine.state = "Ready"

\* command_with.  A command that cannot be encoded returns before any change.
\* The deadline is renewed, read-ahead is drained, then the command written.
Command(n) ==
    /\ owner = "client" /\ ~transaction /\ ~inquiry /\ io = "none"
    /\ begun < MaxCommands
    /\ \/ /\ ~AcceptsCommand
          /\ Invalidates
          /\ UNCHANGED <<io_uncertain, io, broken, expired, name, begun>>
       \/ /\ AcceptsCommand
          /\ expired' = FALSE
          /\ name' = n
          /\ \/ /\ HasBufferedInput
                /\ StartsIo("drain", FALSE)
                /\ UNCHANGED begun
             \/ /\ ~HasBufferedInput
                /\ WritesCommand(FALSE, ahead, partial)
    /\ UNCHANGED <<guardVars, completion, inquiryVars, finals, c2s, s2c, sopen>>

-----------------------------------------------------------------------------
(* core.read resumed *)

\* The parser or the machine refuses the line.
RejectLine ==
    /\ io \in Reading
    /\ \E r \in Receives(ahead, partial, s2c) :
          /\ Refused(r.line)
          /\ s2c' = r.wire
    /\ FailsIo
    /\ UNCHANGED <<expired, guardVars, completion, inquiryVars, name, begun, finals,
                   c2s, sopen>>

\* Keeping the read-ahead r leaves and reading once more, up to the deadline.
ReadsOnUndated(r) ==    \* mutated: deadline not checked
    /\ ahead' = r.ahead /\ partial' = r.partial
    /\ UNCHANGED <<machine, io_uncertain, copen, io, broken>>
ReadsOn(r) ==
    \/ expired /\ FailsIo
    \/ /\ ~expired
       /\ ahead' = r.ahead /\ partial' = r.partial
       /\ UNCHANGED <<machine, io_uncertain, copen, io, broken>>

\* next_event's loop passes over empty lines.
SkipEmptyLine ==
    /\ io = "next"
    /\ \E r \in Receives(ahead, partial, s2c) :
          /\ r.line.kind = "Empty" /\ ~Refused(r.line)
          /\ s2c' = r.wire
          /\ ReadsOn(r)
    /\ UNCHANGED <<expired, guardVars, completion, inquiryVars, name, begun, finals,
                   c2s, sopen>>

\* What next_event does with the line it breaks its loop with.
TakesEvent(line) ==
    CASE line.kind \in {"Ok", "Err"} ->
            /\ completion' = IF line.kind = "Ok" THEN "Success" ELSE "Remote"
            /\ finals' = finals + 1
            /\ UNCHANGED inquiryVars
      [] line.kind = "Inquire" ->
            /\ inquiry' = TRUE /\ inquiry_expired' = FALSE
            /\ sent' = 0 /\ total' = 0 /\ rest' = 0
            /\ UNCHANGED <<completion, finals>>
      [] OTHER -> UNCHANGED <<completion, finals, inquiryVars>>

DeliverEvent ==
    /\ io = "next"
    /\ \E r \in Receives(ahead, partial, s2c) :
          /\ r.line.kind # "Empty" /\ ~Refused(r.line)
          /\ s2c' = r.wire
          /\ machine' = CM!Receive(machine, r.line.kind).machine
          /\ ahead' = r.ahead /\ partial' = r.partial
          /\ TakesEvent(r.line)
    /\ io_uncertain' = FALSE
    /\ io' = "none"
    /\ UNCHANGED <<copen, expired, owner, error, transaction, name, begun, broken,
                   c2s, sopen>>

\* Inquiry::new cannot allocate its metadata: the core is invalidated.
InquiryNewFails ==
    /\ io = "next"
    /\ \E r \in Receives(ahead, partial, s2c) :
          /\ r.line.kind = "Inquire" /\ ~Refused(r.line)
          /\ s2c' = r.wire
          /\ machine' = CM!Invalidate(CM!Receive(machine, r.line.kind).machine)
    /\ copen' = FALSE /\ ahead' = <<>> /\ partial' = FALSE
    /\ io_uncertain' = FALSE
    /\ io' = "none"
    /\ UNCHANGED <<expired, guardVars, completion, inquiryVars, name, histVars, c2s, sopen>>

\* command_with's drain loop: the next buffered line, or the command itself.
DrainLine ==
    /\ io = "drain"
    /\ \E r \in Receives(ahead, partial, s2c) :
          /\ ~Refused(r.line)
          /\ s2c' = r.wire
          /\ \/ /\ r.ahead # <<>> \/ r.partial
                /\ ReadsOn(r)
                /\ UNCHANGED begun
             \/ /\ r.ahead = <<>> /\ ~r.partial
                /\ WritesCommand(expired, r.ahead, r.partial)
    /\ UNCHANGED <<expired, guardVars, completion, inquiryVars, name, finals, c2s, sopen>>

\* A read that has nothing buffered ends without a line.
ReadFails ==
    /\ io \in Reading /\ ahead = <<>>
    /\ FailsIo
    /\ UNCHANGED <<expired, guardVars, completion, inquiryVars, name, begun, finals,
                   c2s, s2c, sopen>>

ReadTimeout == expired /\ ReadFails
ReadEof == ~sopen /\ ~Arrived(ahead, s2c) /\ ReadFails
ReadError == copen /\ ReadFails

\* The future is dropped: Operation wipes the channel, the marker stays.
CancelRead ==
    /\ io \in Reading /\ ahead = <<>>
    /\ io' = "none"
    /\ partial' = FALSE
    /\ broken' = TRUE
    /\ UNCHANGED <<machine, io_uncertain, copen, ahead, expired, guardVars, completion,
                   inquiryVars, name, begun, finals, c2s, s2c, sopen>>

-----------------------------------------------------------------------------
(* Inquiry, and core.write_at resumed *)

\* The deadline of the write in flight: an inquiry's is the earlier of two.
InquiryLate == expired \/ inquiry_expired
Late == IF io = "command" THEN expired ELSE InquiryLate

\* What the next D line carries, and what it leaves.
Chunk == IF rest < ChunkBytes THEN rest ELSE ChunkBytes

RemainingNone == 0    \* mutated: one D line per send
Remaining == rest - Chunk

\* The line being written.
Output ==
    CASE io = "command" -> [kind |-> "Command", name |-> name, len |-> 0, op |-> begun]
      [] io = "data"    -> [kind |-> "Data", name |-> "-", len |-> Chunk, op |-> begun]
      [] OTHER          -> [kind |-> io, name |-> "-", len |-> sent, op |-> begun]

\* The guard and its fields are gone.
GuardGone ==
    /\ inquiry' = FALSE /\ inquiry_expired' = FALSE
    /\ sent' = 0 /\ total' = 0 /\ rest' = 0

\* Inquiry::check
InquiryCheckFails == Unusable \/ machine.state # "Inquiry"

\* The budget counts what earlier sends have delivered.
FitsAlone(n) == n <= MaxInquiryBytes    \* mutated: earlier sends forgotten
Fits(n) == sent + n <= MaxInquiryBytes

Send(n) ==
    /\ inquiry /\ io = "none"
    /\ \/ /\ InquiryCheckFails \/ ~Fits(n)
          /\ Invalidates
          /\ UNCHANGED <<io_uncertain, io, broken, total, rest>>
       \/ /\ ~InquiryCheckFails /\ Fits(n)
          /\ total' = sent + n /\ rest' = n
          /\ StartsIo("data", InquiryLate)
    /\ UNCHANGED <<expired, guardVars, completion, inquiry, inquiry_expired, sent, name,
                   begun, finals, c2s, s2c, sopen>>

\* Inquiry::complete consumes the guard; an early return drops it, which
\* invalidates.
CompleteInquiry(kind) ==
    /\ inquiry /\ io = "none"
    /\ \/ /\ InquiryCheckFails
          /\ Invalidates
          /\ GuardGone
          /\ UNCHANGED <<io_uncertain, io, broken>>
       \/ /\ ~InquiryCheckFails
          /\ StartsIo(kind, InquiryLate)
          /\ IF InquiryLate THEN GuardGone ELSE UNCHANGED inquiryVars
    /\ UNCHANGED <<expired, owner, error, transaction, completion, name,
                   begun, finals, c2s, s2c, sopen>>

\* A write has room and completes.
Delivers == Len(c2s) < C2SCap /\ c2s' = Append(c2s, Output)

CommandWrittenOnly ==    \* mutated: the guard inherits the last completion
    /\ io = "command" /\ Delivers
    /\ io_uncertain' = FALSE
    /\ io' = "none"
    /\ transaction' = TRUE
    /\ UNCHANGED <<completion, machine, channelVars, expired, owner, error, inquiryVars,
                   name, histVars, s2c, sopen>>
CommandWritten ==
    /\ io = "command" /\ Delivers
    /\ io_uncertain' = FALSE
    /\ io' = "none"
    /\ transaction' = TRUE /\ completion' = "Pending"
    /\ UNCHANGED <<machine, channelVars, expired, owner, error, inquiryVars, name,
                   histVars, s2c, sopen>>

DataWritten ==
    /\ io = "data" /\ Delivers
    /\ rest' = Remaining
    /\ \/ /\ rest' = 0
          /\ io_uncertain' = FALSE
          /\ io' = "none"
          /\ sent' = total
          /\ UNCHANGED <<machine, channelVars, broken>>
       \/ /\ rest' # 0
          /\ StartsIo("data", InquiryLate)
          /\ UNCHANGED sent
    /\ UNCHANGED <<expired, guardVars, completion, inquiry, inquiry_expired, total, name,
                   begun, finals, s2c, sopen>>

CompletionWritten ==
    /\ io \in {"End", "Can"} /\ Delivers
    /\ machine' = CM!FinishInquiry(machine, io = "Can").machine
    /\ io_uncertain' = FALSE
    /\ io' = "none"
    /\ GuardGone
    /\ UNCHANGED <<channelVars, expired, owner, error, transaction, completion,
                   name, histVars, s2c, sopen>>

WriteFails ==
    /\ io \in Writing
    /\ c2s' \in Interrupted(c2s, C2SCap, Output)
    /\ FailsIo
    /\ IF io \in {"End", "Can"} THEN GuardGone ELSE UNCHANGED inquiryVars
    /\ UNCHANGED <<expired, owner, error, transaction, completion, name,
                   begun, finals, s2c, sopen>>

WriteTimeout == Late /\ WriteFails
WriteError == copen /\ WriteFails

\* The future is dropped.  complete owns its Inquiry, whose Drop invalidates;
\* the other callers keep their guards, and only the marker records the loss.
CancelWrite ==
    /\ io \in Writing
    /\ c2s' \in Interrupted(c2s, C2SCap, Output)
    /\ io' = "none"
    /\ broken' = TRUE
    /\ \/ /\ io \in {"End", "Can"}
          /\ Invalidates
          /\ GuardGone
       \/ /\ io \in {"command", "data"}
          /\ ahead' = <<>> /\ partial' = FALSE
          /\ UNCHANGED <<machine, copen, inquiryVars>>
    /\ UNCHANGED <<io_uncertain, expired, owner, error, transaction, completion,
                   name, begun, finals, s2c, sopen>>

-----------------------------------------------------------------------------
(* Guards released without completing, and time *)

DropInquiry ==
    /\ inquiry /\ io = "none"
    /\ GuardGone
    /\ Invalidates
    /\ UNCHANGED <<io_uncertain, expired, owner, error, transaction, completion,
                   name, io, histVars, c2s, s2c, sopen>>

\* mem::forget: no destructor runs.
ForgetInquiry ==
    /\ inquiry /\ io = "none"
    /\ GuardGone
    /\ UNCHANGED <<coreVars, expired, owner, error, transaction, completion,
                   name, io, histVars, c2s, s2c, sopen>>

\* finish, or a plain drop: finish's check and Drop invalidate alike.
ReleaseClosing ==    \* mutated: a completed guard closes the stream as well
    /\ transaction /\ ~inquiry /\ io = "none"
    /\ transaction' = FALSE
    /\ Invalidates
    /\ UNCHANGED <<io_uncertain, expired, owner, error, completion, inquiryVars,
                   name, io, histVars, c2s, s2c, sopen>>
ReleaseTransaction ==
    /\ transaction /\ ~inquiry /\ io = "none"
    /\ transaction' = FALSE
    /\ \/ IsUsable /\ UNCHANGED <<machine, channelVars>>
       \/ ~IsUsable /\ Invalidates
    /\ UNCHANGED <<io_uncertain, expired, owner, error, completion, inquiryVars,
                   name, io, histVars, c2s, s2c, sopen>>

ForgetTransaction ==
    /\ transaction /\ ~inquiry /\ io = "none"
    /\ transaction' = FALSE
    /\ UNCHANGED <<coreVars, expired, owner, error, completion, inquiryVars,
                   name, io, histVars, c2s, s2c, sopen>>

DropOwner ==
    /\ owner # "dropped" /\ ~transaction /\ ~inquiry /\ io = "none"
    /\ owner' = "dropped"
    /\ copen' = FALSE /\ ahead' = <<>> /\ partial' = FALSE
    /\ UNCHANGED <<machine, io_uncertain, expired, error, transaction, completion,
                   inquiryVars, name, io, histVars, c2s, s2c, sopen>>

ExpireCore ==
    /\ ~expired /\ owner # "dropped"
    /\ expired' = TRUE
    /\ UNCHANGED <<coreVars, guardVars, completion, inquiryVars, name, io, histVars,
                   c2s, s2c, sopen>>

ExpireInquiry ==
    /\ inquiry /\ ~inquiry_expired
    /\ inquiry_expired' = TRUE
    /\ UNCHANGED <<coreVars, expired, guardVars, completion, inquiry, sent, total, rest,
                   name, io, histVars, c2s, s2c, sopen>>
=============================================================================
