# Assuan in TLA+

A TLA+ model of `assuan-library-rs`: an asynchronous (Tokio) client and server
for the Assuan line protocol. Paths below are relative to `src/crates/`.

## The system and its parts

| Part | Code | State | Operations | What is hard about it |
|---|---|---|---|---|
| Pure machines | `assuan-protocol/src/state/` | phase, inquiry origin | `begin_command`, `receive`, `finish_inquiry`; `receive_request`, `send_response`; `invalidate`, `close` | written twice, once per side; they must fit |
| Framing | `assuan-protocol/src/frame.rs` | line storage, `ready`, `failed` | `feed`, `clear`, `finish_eof` | bytes in arbitrary pieces, exact size limit |
| Wire syntax | `assuan-protocol/src/command.rs`, `message.rs`, `encode.rs`, `escape.rs` | cursors | encoders, parsers, `encode_data_chunk`, `decode_data_in_place` | encoder and parser written separately, escapes at the end of a line, decoding in place |
| Channel | `assuan-transport/src/channel.rs` | stream, line, read-ahead | `read_line_or_eof`, `write_line`, `close` | read-ahead, deadlines, futures dropped part-way |
| Client | `assuan-client/src/` | `SessionCore`, guards | `Handshake`, `command_with`, `Transaction`, `Inquiry` | cancellation at any await, guards dropped or forgotten |
| Server session | `assuan-server/src/session.rs`, `context.rs`, `inquiry.rs` | machine, channel, guards | `run`, `CommandContext`, `ServerInquiry` | arbitrary handlers, deferred transitions, partial writes |
| Accept loop | `assuan-server/src/server.rs` | semaphore, `JoinSet`, phase | `serve` | permits, aborts, shutdown with a grace period |
| Collection | `assuan-client/src/response.rs` | retained bytes, events | `collect`, `collect_secret` | limits at their boundary |
| Policy, registry | `assuan-server/src/hooks.rs`, `registry.rs`, `builtins.rs` | handler table | `register`, hooks, `HELP`, `OptionRequest::parse` | rules checked in several places, wrapping of `HELP` lines |
| Listeners | `assuan-transport/src/listener.rs`, `unix.rs` | socket, path identity | `bind`, `accept`, `cleanup` | check and use of a path others may change |
| Connectors | `assuan-transport/src/tcp.rs`, `endpoint.rs`, `windows/pipe.rs` | deadlines | `connect` | retries within one deadline |
| Discovery | `assuan-transport/src/discovery.rs` | child, output budget, nonce | `resolve`, `ResolvedEndpoint::connect` | two readers, one budget; reaping the child; a nonce written in pieces |
| S-expressions | `assuan-sexpr/` | explicit stacks | `parse`, `write_canonical`, `to_owned` | limits, overflow, nesting, two passes that must agree |
| Macros | `assuan-macros/` | none | `sexpr!`, `#[command]` | repeat at compile time what the library checks |
| Facade | `assuan-library/` | none | re-exports | |

A `Client` owns a `SessionCore` (machine, channel, `io_uncertain` marker,
deadline). Commands lend it to a `Transaction`, inquiries lend that on to an
`Inquiry`. On the other end `serve` spawns one `Session` per accepted stream;
the session reads a command, lends a `CommandContext` to a hook or handler, and
writes the final response when that returns. The two ends share only the two
byte streams.

What each part must get right, and where that is stated:

* client and server machines: each accepts what the other may send
  (`NoUnexpectedLine`), and a stale inquiry origin decides nothing (`OriginIsCurrent`);
* wire syntax: what one end encodes the other parses back, payload bytes included
  (`Codec`, `Registry`);
* channel and framing: lines do not depend on how bytes arrive, the limit is exact,
  EOF is judged correctly (`Framing`);
* client: no I/O after an incomplete one, one final response per operation,
  inquiries within their budget, calls return (`OpenClient`);
* collection: complete or refused, the connection reusable only when answered, the
  call returns (`Collect`);
* server session: one final response per command, none over an unanswered inquiry or
  after broken I/O, a clean end only when all was answered, every phase ends
  (`OpenServer`);
* registry: a registered name can be called, `HELP` lists it whole (`Registry`);
* both together: serial calls, no mutual wait, no lost inquiry bytes (`Assuan`);
* accept loop: permits conserved, nothing outlives it, shutdown returns (`Serve`);
* listeners: cleanup removes nothing but its own socket, a failed bind leaves none
  (`Listeners`);
* discovery and connecting: shared budget, whole output, child reaped (`Discovery`);
  exact port and nonce, one total deadline, no stream without its nonce (`Connect`);
* S-expressions: writing and parsing are inverse, all limits agree, a write is whole
  or leaves the output alone (`Sexpr`).

## Modules

| Module | Models |
|---|---|
| `Kinds` | categories of lines in both directions; `Malformed` for what the parsers refuse |
| `ClientMachine`, `ServerMachine` | the pure machines, as operators from a machine and an event to a machine and a verdict |
| `Wire` | both streams as sequences of lines, the receiving half of `Channel` at line level (`Receives`), and what an unfinished write leaves behind (`Interrupted`) |
| `ClientSession` | one client connection |
| `ServerSession` | one server session |
| `Collect` | `collect` and `collect_secret` on top of `OpenClient` |
| `OpenClient`, `OpenServer` | each of them closed with a peer that may do anything |
| `Assuan` | client and server joined by `Wire` |
| `SerialCalls` | abstract specification of a connection |
| `Serve` | the accept loop |
| `Limits` | the line limit that `Framing` and `DataLines` share |
| `Slices` | what `Framing`, `DataLines`, `Codec`, `Registry` and `Connect` use of Rust's slices; `SequencesExt` has these operators too, but extends `Bags`, whose definitions tlapm carries through every obligation |
| `Framing` | `LineBuffer` and `Channel::receive` at byte level; justifies `Wire!Receives` |
| `DataLines` | escaping, chunking and in-place decoding of payloads |
| `Codec` | encoders and parsers of responses and commands, `OptionRequest::parse`, on top of `DataLines` |
| `Registry` | messages passing through the codec; registration, lookup and `HELP` |
| `Listeners` | Unix and TCP listeners of several processes on one path |
| `Discovery` | the first half of `AgentLocator::resolve`: the child process and its output |
| `Connect` | the second half: path, Windows socket file, `ResolvedEndpoint::connect` and `connect` |
| `Sexpr` | S-expression parser, writer, `to_owned` and the `sexpr!` macro's builder |
| `ClientProofs`, `ServerProofs`, `CollectProofs` | theorems about `OpenClient`, `OpenServer` and `Collect` |
| `ConnectionProofs` | theorems about `Serve`, `Framing` and `DataLines` |
| `TransportProofs` | theorems about `Listeners`, `Discovery` and `Connect` |
| `CodecProofs` | theorems about `Codec` and `Registry` |
| `SerialProofs`, `AssuanProofs` | theorems about `Assuan`, its refinement of `SerialCalls` included: the argument about the streams, and its use of the two ends' proofs |
| `MCListeners`, `MCRegistry` | constants and symmetry for TLC |

A definition next to the comment `mutated:` is a plausible bug in the code of
the definition that follows it. No specification uses it; each one, put in the
place of that definition, violates the property PROJECT.json names for it.

### How the code corresponds to actions

*Awaits.* A public async call is cut at its awaits. One action runs it up to the
await; `io` then names the await it is parked in (`next`, `drain`, `command`,
`data`, `End`, `Can` on the client; `next` or the kind of line being written on
the server). Further actions resume it with a line, a finished write, a timeout
or an error, and run it to the next await or to its return. Dropping the future
is an action of its own (`CancelRead`, `CancelWrite`, and on the server
`ContextWriteFails`, `InquiryReadFails`, `HandlerTimeout`, `Abort`) that does
what the destructors alive at that await do: `Operation` wipes the channel,
`IoGuard` leaves its marker set, a consumed `Inquiry` invalidates.

*Guards.* `transaction` and `inquiry` say that a guard is live. The borrow rules
appear as guards of actions: while an inquiry is live its transaction cannot be
read, while a transaction is live the client cannot begin a command. Each guard
may be completed, dropped, or forgotten with `mem::forget`, which is safe Rust
and runs no destructor.

*Deadlines.* A deadline is a flag that may become true at any time; renewing the
deadline resets it. Every read and write looks at it before it starts, as
`read_line_or_eof` and `write_line` do, and `timeout_at` polls the operation
before the timer: a parked call whose line has arrived may still return it.

*Reading ahead.* One stream read can return any number of the lines that have
arrived plus the first bytes of the next one (`partial`). Wiping the channel
loses what was read ahead, and nothing else is ever lost or reordered: the
streams are reliable and ordered.

*Unfinished writes.* A write that fails, times out or is dropped leaves nothing,
a `Fragment`, or the whole line on the wire.

*Application code.* Hooks and handlers are arbitrary: any sequence of context
calls, any error swallowed, any value returned. Command names are reduced to
what `drive` tells apart: `NOP`, `BYE`, `HELP`, `CALL` (a registered handler,
`OPTION` or `RESET` handed to a hook) and `UNKNOWN` (not registered, or a
malformed `OPTION`).

*Collecting.* `Collect` runs the actions of `ClientSession` in the order of
`collect_transaction`; `step` is its program counter. Events carry a length
instead of a payload. The code between two awaits is one action, except that
handling an event is a step of its own: the peer and the clock may move meanwhile.

*Discovery.* The three futures of `try_join!` are independent actions on the
shared budget. The process may exit at any time and leave its pipes to a
descendant; output is a sequence of bytes because the path is checked whole.

*Listeners.* Every system call of `bind` and `cleanup` is an action, so other
processes act between any two of them, and each call may fail or be the last one
before a crash. Outside programs may replace, move or remove the file, change the
directory or its permissions, up to `MaxMeddling` times. `raced` is the documented limit
of `cleanup`: set when such a change falls between a step that relies on the path and
the next one, or when the number of a removed but still open socket is used again.

*Connecting.* `now` is a clock. `ResolvedEndpoint::connect` takes a deadline and
passes the time left to `connect`, which takes its own; a pause before a pipe is
tried again ends at `wake`. Files and output are sequences of lexemes: what counts is
their form, and where reads and writes cut them.

*Wire syntax.* A line is a sequence of lexemes: keywords, a digit, the characters the
grammar treats specially, one for all other ASCII, one of two bytes. Encoders and
parsers are operators; the behaviours take each message of a bounded set
from the encoder through the line check of `write_line` to the parser. `decode_data_in_place` runs
byte by byte, as actions, because its two cursors share a buffer.

*S-expressions.* Parser, both passes of the writer and `to_owned` are loops over
explicit stacks; an action is one turn of a loop, including its checks, in their
order. Reservation of memory may fail wherever the code reserves. The reference
definitions, recursive on the value, are used by properties only.

*History.* `begun`, `finals`, `dispatched`, `broken`, `unanswered`, `raced`,
`meddled`, `faulted` and the `op` and `len` fields of lines that carry counts are
read by properties only.

*Left out on purpose.* Payload bytes (except in `DataLines` and `Codec`), sensitivity and
wiping, logging, and the error a deadline computation returns when the clock
would overflow.

## Runs

| Run | Question | Result |
|---|---|---|
| `OpenClient` | Can any peer, cancellation or forgotten guard confuse a client or keep its call? | four invariants and `CallsReturn` hold (750 222 states) |
| `OpenServer` | Can any peer or handler confuse a session or keep it in a phase? | four invariants and `PhasesEnd` hold (1 178 690 states) |
| `Assuan` | Do the two ends fit under all faults? | four invariants and the refinement of `SerialCalls` hold (847 484 states) |
| `AssuanCalm` | Can the protocol get stuck without faults or timers? | every command is answered |
| `Serve` | Permits, capacity, shutdown | two invariants and two liveness properties hold (3 150 states) |
| `Framing` | Are lines independent of how bytes arrive? | holds for every source of up to 6 bytes |
| `Collect` | Is a collected response complete, when may its client be reused, does the call return? | holds (1 796 408 states) |
| `Codec` | Does every payload and every message survive its encoding, and can a registered command be called and listed? | holds (280 242 states) |
| `Listeners` | Can cleanup remove another's socket, can a failed bind leave one? | holds outside the documented windows (547 225 states up to symmetry) |
| `Discovery` | Shared budget, whole paths, no child left behind | three invariants and `ResolveEnds` hold (1 183 906 states) |
| `Connect` | Is what was resolved exact, does a stream carry its nonce, is the deadline total? | two invariants and `DeadlineIsTotal` hold (222 160 states) |
| `Sexpr` | Are writing and parsing inverse, do the limits agree, can a write stop half-way? | three invariants hold (215 415 states) |

The properties are stated, each with a comment, at the end of `OpenClient`,
`OpenServer`, `Assuan`, `Serve`, `Collect`, `Discovery`, `Connect`, `Framing`,
`DataLines`, `Registry`, `Listeners` and `Sexpr`. Some deserve a word:

* `ResponsesAreCurrent` and `ImplementsSerialCalls` say that a response is never
  attributed to the wrong command. Assuan has no request identifiers, so this rests
  entirely on counting; a forgotten guard, a cancelled write and read-ahead are the
  ways to lose count.
* `FinalNeedsWholeContext`: `ServerInquiry::next` remembers END or CAN but leaves
  the machine in Inquiry until `finish`, and a failed context call invalidates the
  machine. That is what stops `finalize` when a handler forgets the guard or
  swallows the error.
* `NoMutualWait` excepts one case: a handler that forgets an unanswered inquiry
  may write status lines while the client writes data. Deadlines end that.
* `WireRoundTrip` and `RegistryIsUsable` except the names `END`, `CAN` and `D`: a
  command of that name passes `Command::new` and the registry, but its line is an
  inquiry line to the session, so its handler is never called.

### Bounds

* Two commands: enough for a response to be attributed to the wrong one, for a
  stale completion or inquiry origin to survive, and for pipelining.
* Streams of one or two lines: a full stream blocks its writer, two lines allow
  one to be read ahead while another is returned.
* Inquiries of one to three bytes in one-byte lines: several sends, several D
  lines per send, an empty send, and the limit reached exactly and exceeded.
* `PeerKinds` leaves out kinds that no guard distinguishes from one that is in
  (`Status`, `Comment`, `End` from the server behave like `Data` or `Empty`).
* Three connections and two permits: capacity reached, a third waiting.
* `Collect`: one command, two bytes and two events, so that either limit can be
  reached first, by data, by a status (which weighs one more) or by the final response.
* `Discovery`: a limit of three bytes and up to three in each pipe, so that either
  pipe alone fits, both together do not, and a path takes one or several reads.
* `MaxLine` 3 with sources of 6 bytes: lines that are empty, exactly full and too
  long, CR anywhere, two lines in one read.
* `Codec` (the bounds of `Registry` included): `MaxLine` 7, so that one escape and two plain bytes fit and two escapes do
  not, and that a keyword with a short text may or may not fit; payloads of up to 4
  bytes over 6 byte values, texts of two lexemes, codes of one and two digits around
  the largest one; data lines and arguments of OPTION over the lexemes that their
  parsers look for; two handlers, so that a name can be taken.
* `Listeners`: two Unix listeners that compete and one TCP listener that has no path,
  three inode numbers (one for each and one outside), two outside changes (moving the
  socket away and putting something else in its place).
* `Connect`: ports of up to two digits with a largest port inside that range, a nonce
  of two bytes that can be cut in the middle, timeouts of zero, below, at and beyond
  the largest time.
* `Sexpr`: values of up to three levels, one more than the depth limit, with payloads
  that look like syntax, with a length of two digits, and beyond the atom limit; every
  byte string of up to six bytes, in which a length can exceed `usize`.

All passing runs switch deadlock checking off: a connection that has ended, a
server that has returned and a payload that has arrived are final states.

### Fairness

`OpenClient!Fairness` and `OpenServer!Fairness` assume that the runtime polls a
future whose line has been read ahead or whose timer has fired, and that clocks
advance. Nothing is assumed of the peer, and of application code only that it
yields, without which no Tokio timer can fire. `Serve!Fairness` adds that aborted
tasks are dropped at their next yield and then become visible to `join_next`.
`CapacityRecovers` has as its hypothesis that sessions end, which `PhasesEnd`
shows of them.
`Connect` assumes that time passes and that a timer that is due is served before
time goes on; without that no deadline could be met.
`Collect` assumes in addition that the call's own code runs on. `Discovery`
assumes that a killed process exits, not that the process exits by itself.
`AssuanCalm` assumes applications that keep calling: they read to the final
response, complete their inquiries, and handlers return.

## Proofs

`ClientProofs` proves, for every capacity, number of commands, inquiry limit,
chunk size and set of peer lines, that `OpenClient` keeps its type invariant and
all its safety invariants: those of the run and `RejectedGreetingIsFinal`, that a
refused greeting never becomes a client. None of those is inductive. The inductive
invariant `IInv` adds:

* `ParkedInv`: while a call is parked the `io_uncertain` marker is set and the
  machine is in a phase that call can be in; once broken, the connection keeps the
  marker. Without it nothing excludes a parked read on an
  unusable connection.
* `CountInv`: the phase determines the difference between operations begun and
  final responses accepted.
* `OwnerInv`: who owns the core, and the origin of its inquiry, follow from the
  phase.
* `BudgetInv`: `sent`, `total` and `rest` of a live inquiry add up.

Lemmas state what each machine operator does to the phase; the step lemma has
one case per action. The only assumptions are the ASSUMEs of `Wire`,
`ClientSession` and `OpenClient` on their constants. `IInv` also passes TLC on the
constants of `OpenClient.cfg`.

`ServerProofs` does the same for `OpenServer`: type invariant, `OneFinalPerCommand`,
`FinalNeedsWholeContext`, `CleanMeansAnswered` and `InquiryBounded`, for arbitrary
handlers and peers and every value of the constants. Its `IInv` adds:

* `WhereInv`: context calls and guards exist only while code that has a context
  runs, `HELP`'s comments only in `HELP`; a reason is given only once `run` has ended.
* `PhaseInv`: after a failed call the machine is in a terminal phase, and after an
  unanswered INQUIRE in Inquiry or a terminal phase. `finalize` looks at the phase
  only, so this is what carries `FinalNeedsWholeContext` over `Return`.
* `GuardInv`: a live guard on unbroken I/O is in phase Inquiry, within its limit, and
  has its outcome exactly when END or CAN was consumed; a second INQUIRE is refused.

`EndsInv` deals with all the ways `drive` ends at once: what is left to show for each is
that it may give its reason.

`CollectProofs` proves `CollectedIsComplete` and `ReuseFollowsOutcome` for every byte
and event limit and every size of an event. Its first step is that every step of
`Collect` is a step of `OpenClient` or leaves the client alone, so that
`ClientProofs!IInv` holds here too, with all that follows from it. `CollectInv` adds
where the call stands:

* `StandInv`: which await and which guards of the client go with each `step`.
* `EventInv`: the event in hand and the transaction's completion agree; a final
  response leaves the client usable.
* `AmountInv`: what the server has offered has been retained, but for the event in
  hand. `CollectedIsComplete` alone says nothing before the call returns.
* `OutcomeInv`: an error that unwinds leaves an unusable client, and a limit leaves one
  only if the event that exceeded it was not the final response. `ReuseFollowsOutcome`
  is about the state after the destructors; this carries it over them.

What the runtime and the peer may do during a call is stated once (`Background`); they
can end an await but change neither the guards nor what was retained.

`ConnectionProofs` is about three modules without common variables.

*Accepting.* It proves the type invariant and the two invariants of `Serve` for every
finite set of connections and every `max_sessions`. `PermitsConserved` needs the fact
that the loop holds a permit exactly while it accepts; the rest is counting: a session
that starts or stops changes the cardinality of `Sessions` by one.

*Reading lines.* It proves `LinesAreFaithful` and `VerdictIsRight` for every `MaxLine`
and every source, of any length, however reads cut it. `LinesAreFaithful` speaks of
lines that are complete; the inductive invariant `FrameInv` accounts for the rest:

* `Buffered`: until a failed or dropped read discards them, `storage` and `ahead` hold
  the bytes from `start` on, without a gap.
* `OneLine`: `storage` has room left and no LF, or it is one line that ends with its LF.
* `Returned`: `start` is 0 or just behind an LF, and as many lines were returned as the
  source has LFs up to there, each equal to the reference line of that number.

That the reference lines are numbered by counting LFs is what makes this a proof
without recursion: a new line is the next one because the LF it ends with is the least
of those that remain.

*Data lines.* It proves `PayloadSurvives` for every `MaxLine` of at least 6 and every
payload. `DataInv` relates three places at once: what was received, what is decoded so
far in the line, and what is still escaped there add up to what was taken from the
payload (`Pieces`); each escape that is not decoded yet is still where it was written,
although decoding overwrites the same buffer (`Escapes`); and a line is cut only when
the next byte does not fit (`Lines`). Positions in the buffer are given by
`EscapedSize`, which counts special bytes instead of adding up costs recursively. The
theorem is about `DataSpec`, a payload by itself; the steps of `Registry` that involve a
payload are the same ones.

`TransportProofs` is about three modules as well.

*Listening.* It proves, for any number of listeners, inode numbers and outside
changes, `OnlyOwnSocketRemoved`, `LeftoverHasACause` and `CleanupClosesOrKeeps` (a
listener is open exactly until a cleanup has succeeded, and then the path no longer
names its socket). None is inductive: whether `cleanup` removes its own socket
depends on what it saw steps earlier. `Positions` says what a listener's position in
`bind` or `cleanup` implies for its fields. `Trusted` says that, unless somebody raced,
a socket just created or just identified is still at the path, and that a remembered
inode number belongs to no other file. `Undisturbed` says that without outside
programs a socket stays where its listener put it.

*Discovering.* It proves `BudgetIsShared` and `NoChildLeft` for every limit, read
size and amount of output. The strengthening says that nothing has been written
or charged before the child is spawned. A read takes from a pipe what it charges,
a write adds to a pipe and to its history alike. `PathIsWhole` needs `WholeInv` in
addition: output collected and content of the pipe together are what was written, and a
reader that has seen EOF leaves a pipe that is empty and that nobody holds any more, so
that nothing can be added between that EOF and the check of the path.

*Connecting.* It proves `ResolvedIsExact` and `StreamCarriesNonce` for
every output, file, nonce size, largest port and timeout, and `OnTime`: while a connect
is under way the clock does not pass `start + timeout`. That is the safety half of
`DeadlineIsTotal`; that the call ends is liveness. `ConnectInv` adds `Progress` (what has
been read, opened and written at each point of the call; without it a dropped future
could leave a stream nobody remembers) and `Deadline` (one of the two deadlines is at
`start + timeout`; `connect`'s own one is enough only if no nonce follows).

`CodecProofs` proves `WireRoundTrip` for every `MaxLine`, every `MaxCode` below 100 and messages of any length,
and that a handler that registers is found under the name its own command is parsed to
(the first half of `RegistryIsUsable`), for any set of names and descriptions.

`WireInv` only says that the line is what the encoder made of the message
and the outcome what the parser made of the line. The work is in the lemmas about the
operators: `SplitsJoined` (a field without spaces and what follows it come apart
again), `TrimmedIsClean`, `InkStays`, `NameEndsAtTail`, `CodeIs` (an error code and its
digits), and one per kind of message (`OkReads`, `ErrReads`, `KeywordReads`,
`CommandDispatches`, `OptionReadAgain` and others). `WireInv` also passes TLC on the
constants of `Codec.cfg`.

`AssuanProofs` proves that the composition implements `SerialCalls`, and
`ResponsesAreCurrent`, `NoUnexpectedLine`, `NoMutualWait` and `InquiryBytesArrive`, for
every stream capacity, number of commands, chunk size,
data size and pair of inquiry limits. `Assuan`'s steps are steps of `OpenClient` and
`OpenServer` with other names for the variables, so each end brings its own `IInv`
from `ClientProofs` and `ServerProofs`; neither can be disturbed by the other end,
which changes only the streams. What is missing is how the ends relate.

* `ClientProofs!Effects` and `ServerProofs!Effects` reduce the steps of each end to a
  few effects on the streams: the client idles, answers an inquiry, dies, issues a
  command, writes it, or takes a line; the server waits, stops, says a line, hears one,
  or dispatches the next command. For the server this takes `SpeakInv`: who may write
  what in which phase, and that an ended session is in a terminal phase.
* `SerialProofs` shows that these effects preserve `JointInv` and are steps of
  `SerialCalls` or stutters. `CommandsInv`: the server is behind by at most the one
  command that is being written or on its way. `ResponsesInv`: what is on its way to a
  live client belongs to its current operation, with the final response last, and
  nothing is on its way before the dispatch or after that response. `StreamInv`: the
  start of a line is read ahead only while its rest is on the way.

That `Command` drains and refuses leftovers is not enough by itself: that nothing of an
earlier operation can still arrive later needs the server's half, `FinalLast`.

The other three need the machines related line by line, not only operation by
operation. `FitInv` does that:

* `ToServerInv`: what is on its way to an open server is at most one command while the
  server is behind, an answer (`D` lines, then END or CAN last) while an inquiry is
  unanswered, and nothing otherwise.
* `ToClientInv`: what is on its way to a live client suits its phase: an INQUIRE is
  followed by nothing but status lines, nothing but status follows in `Inquiry`, no
  `D` line or INQUIRE after CAN, no `D` line before the greeting is over.
* `TurnInv`: while both ends are there, one of them has a line to read or a move to
  make. An unanswered inquiry is an INQUIRE on its way, a client in `Inquiry`, or an
  END or CAN on its way; a client that waits for a final response has its command on
  its way, at the server, or the response on its way.
* `BytesInv`: bytes the server's guard has counted plus those on their way are the
  bytes the client's guard has counted, and END carries that number. A sum over the
  stream would be a recursive function and need induction; `Counted` asserts a running
  total instead, which each end extends or shortens by one line.
* `WholeInv`: only whole lines are read ahead; a `Fragment` is never returned.

`ToServerInv` is conditional on an open server and `ToClientInv` on a live client: an
end that has closed or invalidated its connection reads nothing any more, while the
other may not know yet and go on writing. The assumptions are the ASSUMEs of `Wire` and `Assuan`; the ASSUMEs of the two ends' modules
follow from them. `SpeakInv`, `Ends`, `JointInv` and `FitInv` also pass TLC, with two lines
of room each way (1 516 848 states).

`tlapm M.tla` checks one module. `CodecProofs`, `TransportProofs`, `ConnectionProofs`,
`SerialProofs` and `AssuanProofs` take about a quarter of an hour each, the others a
minute or two. Leaves cite `Zenon` wherever it suffices: the
translation to SMT slows down over a long module until leaves run out of time.

### Induction

The library's induction theorems take a predicate as a parameter, which the provers
cannot instantiate. Where a proof needs induction over numbers or positions, it uses the
set of counterexamples instead: `LeastElement` (from `WFMin` of `WellFoundedInduction`)
gives that set a least element if it is not empty, and the step shows that there is a
smaller one. A recursive function is a CHOOSE: a lemma (`ConcatUnfolds`, `CodeIs`) shows
that it satisfies its equation for the arguments that occur, by giving a function that does.

### Only model-checked

* Liveness (`CallsReturn`, `PhasesEnd`, `CommandsAreAnswered`, `ShutdownReturns`,
  `CapacityRecovers`, `ResolveEnds`, `DeadlineIsTotal`, `CollectReturns`): the
  prover handles neither fairness nor ENABLED.
* The second half of `RegistryIsUsable`, that `HELP` lists every handler whole: lines
  are made by a recursion over the characters of each entry and joined over all handlers, both
  of any length.
* The invariants of `Sexpr`: nodes, depth and spelling of a value are defined by recursion
  on trees, with RECURSIVE operators, which the prover does not support.

## Not modelled

* Windows security descriptors, the named-pipe listener and `PipeStream`, and `Stream`:
  they hand their arguments to system calls and keep no state of their own.
* Wiping of memory (`secret.rs` beyond its capacity and limits), `Debug` and error
  formatting, logging: nothing the protocol does depends on them.
* Validation of option records: constants stand for options that passed it.
* Parsing of tokens, signature checks and code generation by the macros: compile-time
  work on Rust syntax. The rules the macros repeat from the library (`sexpr!`'s builder,
  the attribute's checks of name and description) are modelled.
* `HandlerError::remote`'s own checks: a handler may return any error, valid or not.
* The facade crate, fuzz targets and scripts: re-exports and tools.
