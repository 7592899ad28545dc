------------------------------- MODULE Connect -------------------------------
(***************************************************************************)
(* From the agent's reported path to a stream: the second half of          *)
(* AgentLocator::resolve (crates/assuan-transport/src/discovery.rs; the    *)
(* first half is module Discovery), ResolvedEndpoint::connect, and connect *)
(* itself (tcp.rs) over TCP, Unix sockets and named pipes                  *)
(* (windows/pipe.rs), under their deadlines.  Lines and files are sequences*)
(* of lexemes: "lf", "cr", "nul", digits, "!" for the header of an emulated*)
(* socket, "?" for a byte that is not UTF-8.                               *)
(***************************************************************************)
EXTENDS Naturals, Sequences, Slices, FiniteSetsExt, Functions

CONSTANTS
    MaxDigits,      \* decimal digits of a port, 5 in the code
    NonceLen,       \* 16 in the code
    MaxPort,        \* u16::MAX
    Timeouts,       \* values of ConnectOptions.timeout
    MaxTime         \* the largest Instant

ASSUME ConnectAssumption ==
    /\ {MaxDigits, NonceLen, MaxPort} \subseteq Nat \ {0}
    /\ Timeouts \subseteq Nat /\ MaxTime \in Nat

Never == MaxTime + 1
Values == [d \in {"0", "4"} |-> IF d = "0" THEN 0 ELSE 4]
FileByte == DOMAIN Values \cup {"lf", "!"}

VARIABLES
    windows,        \* the platform
    printed,        \* what the agent's configuration tool printed
    file, used,     \* the native socket file, and how much of it has been read
    endpoint, nonce,\* ResolvedEndpoint; no nonce is <<>>
    stage, returned,    \* where the call stands and what it returned
    now, start, timeout,    \* the clock; when connect was called, with which option
    outer, deadline,    \* those of ResolvedEndpoint::connect and of connect
    wake,           \* end of the pause before a pipe is tried again
    stream, sent    \* the stream, and what was written to it

source == <<windows, printed, file>>
resolved == <<used, endpoint, nonce>>
timers == <<start, timeout, outer, deadline, wake>>
connectVars == <<source, resolved, stage, returned, now, timers, stream, sent>>

TcpEndpoint(port) == [kind |-> "Tcp", valid |-> port # 0]
Endpoints == [kind : {"Tcp", "Pipe", "Unix"}, valid : BOOLEAN]
ValidFile == [i \in 1..(2 + NonceLen) |-> IF i = 2 THEN "lf" ELSE "4"]
Path == <<"/", "x">>

ConnectInit ==
    /\ windows \in BOOLEAN
    /\ \/ /\ stage = "output" /\ endpoint = TcpEndpoint(0)
          /\ \/ /\ printed \in SeqUpTo({"/", "x", "cr", "lf", "nul", "?"}, 4)
                /\ file = ValidFile
             \/ /\ windows /\ printed = Path \o <<"lf">>
                /\ file \in SeqUpTo(FileByte, MaxDigits + NonceLen + 2)
       \/ /\ stage = "direct" /\ printed = <<>> /\ file = <<>>
          /\ endpoint \in {e \in Endpoints : IF windows THEN e.kind # "Unix" ELSE e.kind # "Pipe"}
    /\ used = 0 /\ nonce = <<>> /\ returned = "none"
    /\ now = 0 /\ start = 0 /\ timeout = 0
    /\ outer = Never /\ deadline = Never /\ wake = Never
    /\ stream = "none" /\ sent = <<>>

\* The call returns; without success it drops its stream.
ConnectReturns(r) ==
    /\ stage' = "done" /\ returned' = r
    /\ stream' = IF r # "Ok" /\ stream = "open" THEN "closed" ELSE stream
    /\ UNCHANGED <<source, now, timers, sent>>

-----------------------------------------------------------------------------
(* resolve *)

\* output_path: one line, absolute, on Windows UTF-8 and possibly ended by CR LF.
Unended(s) == IF windows /\ ends_with(s, <<"cr">>) THEN front(s) ELSE s
output_path(s) == IF ends_with(s, <<"lf">>) THEN Unended(front(s)) ELSE <<>>
IsPath(s) ==
    /\ s # <<>> /\ Range(s) \cap {"nul", "lf"} = {}
    /\ windows => "?" \notin Range(s)
    /\ s[1] = "/"

ResolvePath ==
    /\ stage = "output"
    /\ \/ /\ ~IsPath(output_path(printed))
          /\ ConnectReturns("InvalidOutput") /\ UNCHANGED resolved
       \/ /\ IsPath(output_path(printed))
          /\ stage' = IF windows THEN "read" ELSE "resolved"
          /\ endpoint' = [kind |-> "Unix", valid |-> TRUE]
          /\ UNCHANGED <<source, used, nonce, returned, now, timers, stream, sent>>

\* One byte beyond the largest valid file detects trailing data.
CapacityExact == MaxDigits + 1 + NonceLen    \* mutated: no byte beyond
Capacity == MaxDigits + 1 + NonceLen + 1

\* The file cannot be opened or read, is not one, or storage is not available.
ReadFails ==
    /\ stage = "read"
    /\ \E r \in {"Io", "Limit"} \cup (IF used = 0 THEN {"InvalidOutput"} ELSE {}) :
          ConnectReturns(r)
    /\ UNCHANGED resolved

\* A read returns some of what is left.
ReadFile ==
    /\ stage = "read"
    /\ \E n \in 1..(Min({Capacity, Len(file)}) - used) : used' = used + n
    /\ UNCHANGED <<source, endpoint, nonce, stage, returned, now, timers, stream, sent>>

\* parse_native_socket_file: where the port's digits end.
Split(s) == position(s, {"lf"})
Port(digits) ==
    LET port[i \in 0..Len(digits)] ==
            IF i = 0 THEN 0
            ELSE IF port[i - 1] > MaxPort THEN port[i - 1]
            ELSE port[i - 1] * 10 + Values[digits[i]] IN
    port[Len(digits)]
ParseError(s) ==
    LET split == Split(s)
        digits == SubSeq(s, 1, split - 1) IN
    IF starts_with(s, <<"!">>) THEN "UnsupportedFormat"
    ELSE IF \/ Len(s) > MaxDigits + 1 + NonceLen
            \/ split < 2 \/ split > MaxDigits + 1 \/ Len(s) - split # NonceLen
            \/ ~(Range(digits) \subseteq DOMAIN Values)
            \/ Port(digits) \notin 1..MaxPort
    THEN "InvalidOutput" ELSE "none"

ReadEnds ==
    /\ stage = "read" /\ used = Min({Capacity, Len(file)})
    /\ LET bytes == SubSeq(file, 1, used)
           split == Split(bytes) IN
       \/ /\ ParseError(bytes) # "none"
          /\ ConnectReturns(ParseError(bytes)) /\ UNCHANGED resolved
       \/ /\ ParseError(bytes) = "none"
          /\ endpoint' = TcpEndpoint(Port(SubSeq(bytes, 1, split - 1)))
          /\ nonce' = SubSeq(bytes, split + 1, used)
          /\ stage' = "resolved"
          /\ UNCHANGED <<source, used, returned, now, timers, stream, sent>>

\* The process has left too little of resolve's time for the file.
ResolveTimesOut == stage = "read" /\ ConnectReturns("Timeout") /\ UNCHANGED resolved

-----------------------------------------------------------------------------
(* connect *)

\* The check both functions make; the deadline, if there is one.
Refusal(t) == CASE t = 0 -> "Timeout" [] now + t > MaxTime -> "InvalidOptions" [] OTHER -> "none"

CallResolved(t) ==
    /\ stage = "resolved"
    /\ start' = now /\ timeout' = t /\ outer' = now + t
    /\ stage' = "inner"
    /\ UNCHANGED <<source, resolved, returned, now, deadline, wake, stream, sent>>

CallDirect(t) ==
    /\ stage = "direct"
    /\ start' = now /\ timeout' = t /\ deadline' = now + t
    /\ stage' = "dial"
    /\ UNCHANGED <<source, resolved, returned, now, outer, wake, stream, sent>>

CallRefused(t) ==
    /\ stage \in {"resolved", "direct"} /\ Refusal(t) # "none"
    /\ ConnectReturns(Refusal(t)) /\ UNCHANGED resolved

Call ==
    \E t \in Timeouts :
        \/ Refusal(t) = "none" /\ (CallResolved(t) \/ CallDirect(t))
        \/ CallRefused(t)

\* ResolvedEndpoint::connect calls connect, which computes a deadline of its own.
Enter ==
    /\ stage = "inner"
    /\ \/ Refusal(timeout) # "none" /\ ConnectReturns(Refusal(timeout)) /\ UNCHANGED resolved
       \/ /\ Refusal(timeout) = "none"
          /\ deadline' = now + timeout
          /\ stage' = "dial"
          /\ UNCHANGED <<source, resolved, returned, now, start,
                         timeout, outer, wake, stream, sent>>

DialFails ==
    /\ stage = "dial"
    /\ ConnectReturns(IF endpoint.kind # "Unix" /\ ~endpoint.valid
                      THEN "InvalidEndpoint" ELSE "Io")
    /\ UNCHANGED resolved

DialConnects ==
    /\ stage = "dial" /\ (endpoint.kind # "Unix" => endpoint.valid)
    /\ stream' = "open" /\ deadline' = Never
    /\ \/ nonce = <<>> /\ stage' = "done" /\ returned' = "Ok"
       \/ nonce # <<>> /\ stage' = "nonce" /\ UNCHANGED returned
    /\ UNCHANGED <<source, resolved, now, start, timeout, outer, wake, sent>>

\* All instances of the pipe are busy: try again a little later.
DialBusy ==
    /\ stage = "dial" /\ endpoint.kind = "Pipe" /\ endpoint.valid
    /\ stage' = "pause" /\ wake' = now + 1
    /\ UNCHANGED <<source, resolved, returned, now, start, timeout, outer, deadline, stream, sent>>

PauseEnds ==
    /\ stage = "pause" /\ now >= wake
    /\ stage' = "dial" /\ wake' = Never
    /\ UNCHANGED <<source, resolved, returned, now, start, timeout, outer, deadline, stream, sent>>

\* write_all goes on until the whole nonce is written.
WriteNonceOnce ==    \* mutated: write instead of write_all
    /\ stage = "nonce"
    /\ \E n \in 1..(Len(nonce) - Len(sent)) : sent' = SubSeq(nonce, 1, Len(sent) + n)
    /\ stage' = "flush"
    /\ UNCHANGED <<source, resolved, returned, now, timers, stream>>
WriteNonce ==
    /\ stage = "nonce"
    /\ \E n \in 1..(Len(nonce) - Len(sent)) : sent' = SubSeq(nonce, 1, Len(sent) + n)
    /\ stage' = IF sent' = nonce THEN "flush" ELSE "nonce"
    /\ UNCHANGED <<source, resolved, returned, now, timers, stream>>

Flush == stage = "flush" /\ ConnectReturns("Ok") /\ UNCHANGED resolved
WriteFails == stage \in {"nonce", "flush"} /\ ConnectReturns("Io") /\ UNCHANGED resolved

-----------------------------------------------------------------------------
(* Time *)

Connecting == {"inner", "dial", "pause", "nonce", "flush"}

\* A timeout_at around the pending operation has run out.
DueDialing ==    \* mutated: the pause is not covered
    stage \in Connecting \ {"pause"} /\ (now >= outer \/ now >= deadline)
Due == stage \in Connecting /\ (now >= outer \/ now >= deadline)

DeadlineExpires == Due /\ ConnectReturns("Timeout") /\ UNCHANGED resolved

\* The caller drops the future.
Cancel == stage # "done" /\ ConnectReturns("Cancelled") /\ UNCHANGED resolved

\* The runtime serves a timer that is due before time goes on.
Tick ==
    /\ stage \in Connecting /\ ~Due /\ now < MaxTime
    /\ now' = now + 1
    /\ UNCHANGED <<source, resolved, stage, returned, timers, stream, sent>>

ConnectNext ==
    \/ ResolvePath \/ ReadFails \/ ReadFile \/ ReadEnds \/ ResolveTimesOut
    \/ Call \/ Enter \/ DialFails \/ DialConnects \/ DialBusy \/ PauseEnds
    \/ WriteNonce \/ Flush \/ WriteFails
    \/ DeadlineExpires \/ Cancel \/ Tick

\* Timers run and wake what waits for them.  The peer owes nothing.
ConnectSpec ==
    /\ ConnectInit /\ [][ConnectNext]_connectVars
    /\ WF_connectVars(Tick) /\ WF_connectVars(DeadlineExpires) /\ WF_connectVars(PauseEnds)

-----------------------------------------------------------------------------
(* Properties *)

\* What resolve (discovery.rs:61) hands out is what was printed or written: on
\* Unix the path is the output without its LF; on Windows port and nonce are those
\* of a file that holds nothing else, however its reads were cut, and a file that
\* was read is refused only if it is not of that form.
WellFormed(f) ==
    \E k \in 1..MaxDigits :
        /\ Len(f) = k + 1 + NonceLen /\ f[k + 1] = "lf"
        /\ \A i \in 1..k : f[i] \in DOMAIN Values
        /\ Port(SubSeq(f, 1, k)) \in 1..MaxPort
ResolvedIsExact ==
    /\ stage = "resolved" /\ ~windows => printed = output_path(printed) \o <<"lf">>
    /\ stage = "resolved" /\ windows =>
          /\ WellFormed(file) /\ endpoint.valid
          /\ Len(nonce) = NonceLen /\ ends_with(file, nonce)
    /\ returned \in {"InvalidOutput", "UnsupportedFormat"} /\ used > 0 => ~WellFormed(file)

\* "it exposes the stream only after writing the nonce", "A failed or cancelled
\* attempt drops its stream" (discovery.rs:133-150): the peer has got exactly the
\* nonce when the caller gets the stream, and nobody keeps one otherwise.
StreamCarriesNonce ==
    /\ starts_with(nonce, sent)
    /\ returned = "Ok" => stream = "open" /\ sent = nonce
    /\ returned \notin {"none", "Ok"} => stream # "open"

\* "under one total connection deadline" (discovery.rs:147): the two deadlines, the
\* retries of a busy pipe and the nonce together take no longer than the timeout,
\* and a connect that is under way always ends.
DeadlineIsTotal ==
    stage \in Connecting ~> stage = "done" /\ now <= start + timeout
=============================================================================
