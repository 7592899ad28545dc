------------------------------ MODULE Discovery ------------------------------
(***************************************************************************)
(* AgentLocator::resolve on Unix (crates/assuan-transport/src/discovery.rs)*)
(* : gpgconf runs as a child process while two readers share one output    *)
(* budget and a third future waits for its exit, all under one deadline.   *)
(* Every failure kills the child and waits for it.  The process, its pipes *)
(* and the kernel are external.                                            *)
(***************************************************************************)
EXTENDS Naturals, Sequences

CONSTANTS
    OutputLimit,    \* OUTPUT_LIMIT
    Scratch,        \* bytes one read returns at most
    MaxWritten      \* bound: bytes the process writes to one pipe

ASSUME DiscoveryAssumption ==
    /\ OutputLimit \in Nat \ {0} /\ Scratch \in Nat \ {0}
    /\ MaxWritten \in Nat

Pipe == {"stdout", "stderr"}
Byte == {"/", "x", "LF", "NUL"}

VARIABLES
    phase,      \* "new", "join", "kill" (killed, in the last wait), "returned",
                \* "dropped" when the future is dropped
    child,      \* "none", "running", "exited" (not yet waited for), "reaped"
    success,    \* its exit status
    killed,     \* SIGKILL has been sent
    held,       \* pipes whose write end some process still has open
    content,    \* bytes in each pipe
    reader,     \* each read_output: "reading", "done"
    budget,     \* the shared counter
    output,     \* what the stdout reader has collected
    expired,    \* the deadline has passed
    outcome,    \* what resolve returns: an error, or "Ok"
    path,       \* and with "Ok" the path
    written     \* history: all that was written to each pipe

processVars == <<child, success, killed, held, content, written>>
vars == <<phase, processVars, reader, budget, output, expired, outcome, path>>

Errors == {"Io", "OutputLimit", "ProcessFailed", "Timeout", "InvalidOutput"}

TypeOK ==
    /\ phase \in {"new", "join", "kill", "returned", "dropped"}
    /\ child \in {"none", "running", "exited", "reaped"}
    /\ success \in BOOLEAN /\ killed \in BOOLEAN /\ expired \in BOOLEAN
    /\ held \subseteq Pipe
    /\ content \in [Pipe -> Seq(Byte)] /\ written \in [Pipe -> Seq(Byte)]
    /\ reader \in [Pipe -> {"reading", "done"}]
    /\ budget \in 0..OutputLimit
    /\ output \in Seq(Byte) /\ path \in Seq(Byte)
    /\ outcome \in {"none", "Ok"} \cup Errors

Init ==
    /\ phase = "new" /\ child = "none" /\ success = FALSE /\ killed = FALSE
    /\ held = {} /\ content = [p \in Pipe |-> <<>>] /\ written = content
    /\ reader = [p \in Pipe |-> "reading"]
    /\ budget = OutputLimit
    /\ output = <<>> /\ path = <<>>
    /\ expired = FALSE /\ outcome = "none"

-----------------------------------------------------------------------------
(* run_process and read_output *)

Spawn ==
    /\ phase = "new"
    /\ \/ /\ phase' = "join" /\ child' = "running" /\ held' = Pipe
          /\ UNCHANGED outcome
       \/ /\ phase' = "returned" /\ outcome' = "Io"
          /\ UNCHANGED <<child, held>>
    /\ UNCHANGED <<success, killed, content, written, reader, budget, output, expired, path>>

\* The joined futures or the deadline have failed: start_kill, whose own error
\* (the child has already been waited for) is ignored.
FailsQuietly(why) ==    \* mutated: no start_kill
    /\ phase' = "kill" /\ outcome' = why
    /\ UNCHANGED killed
Fails(why) ==
    /\ phase' = "kill" /\ outcome' = why
    /\ killed' = (child # "reaped")

\* One read of a pipe, charged to the budget before the bytes are kept.
Affords(n) == n <= budget

ChargedOnce(p, n) == IF p = "stdout" THEN budget - n ELSE budget    \* mutated: stderr is free
Charged(p, n) == budget - n

Read(p) ==
    /\ phase = "join" /\ reader[p] = "reading" /\ content[p] # <<>>
    /\ \E n \in 1..Scratch :
          /\ n <= Len(content[p])
          /\ content' = [content EXCEPT ![p] = SubSeq(@, n + 1, Len(@))]
          /\ \/ /\ ~Affords(n)
                /\ Fails("OutputLimit")
                /\ UNCHANGED <<budget, output>>
             \/ /\ Affords(n)
                /\ budget' = Charged(p, n)
                /\ output' = IF p = "stdout" THEN output \o SubSeq(content[p], 1, n) ELSE output
                /\ UNCHANGED <<phase, outcome, killed>>
    /\ UNCHANGED <<child, success, held, written, reader, expired, path>>

ReadEof(p) ==
    /\ phase = "join" /\ reader[p] = "reading"
    /\ content[p] = <<>> /\ p \notin held
    /\ reader' = [reader EXCEPT ![p] = "done"]
    /\ UNCHANGED <<phase, processVars, budget, output, expired, outcome, path>>

\* Either pipe, the allocation of a buffer, or the wait fails.
JoinFails ==
    /\ phase = "join"
    /\ Fails("Io")
    /\ UNCHANGED <<child, success, held, content, written, reader, budget, output, expired,
                   path>>

\* child.wait() of the join.
WaitReturns ==
    /\ phase = "join" /\ child = "exited"
    /\ child' = "reaped"
    /\ UNCHANGED <<phase, success, killed, held, content, written, reader, budget, output,
                   expired, outcome, path>>

\* output_path: one line, its LF required, not empty, absolute.
OutputPath(bytes) ==
    LET line == SubSeq(bytes, 1, Len(bytes) - 1) IN
    IF /\ Len(bytes) > 1 /\ bytes[Len(bytes)] = "LF"
       /\ \A i \in DOMAIN line : line[i] \notin {"LF", "NUL"}
       /\ Head(line) = "/"
    THEN {line} ELSE {}

\* All three futures are done: the status decides, then the path.
JoinedByStatus == child = "reaped"    \* mutated: the readers are not joined
Joined == child = "reaped" /\ \A p \in Pipe : reader[p] = "done"

JoinEnds ==
    /\ phase = "join" /\ Joined
    /\ \/ /\ ~success
          /\ Fails("ProcessFailed")
          /\ UNCHANGED path
       \/ /\ success
          /\ phase' = "returned"
          /\ IF OutputPath(output) # {}
             THEN outcome' = "Ok" /\ path' \in OutputPath(output)
             ELSE outcome' = "InvalidOutput" /\ UNCHANGED path
          /\ UNCHANGED killed
    /\ UNCHANGED <<child, success, held, content, written, reader, budget, output, expired>>

Timeout ==
    /\ phase = "join" /\ expired
    /\ Fails("Timeout")
    /\ UNCHANGED <<child, success, held, content, written, reader, budget, output, expired,
                   path>>

\* The wait after the kill returns; a child waited for before has a status.
KillEndsAtOnce ==    \* mutated: killed, not waited for
    /\ phase = "kill"
    /\ phase' = "returned"
    /\ UNCHANGED <<processVars, reader, budget, output, expired, outcome, path>>
KillEnds ==
    /\ phase = "kill" /\ child \in {"exited", "reaped"}
    /\ child' = "reaped"
    /\ phase' = "returned"
    /\ UNCHANGED <<success, killed, held, content, written, reader, budget, output, expired,
                   outcome, path>>

\* The future is dropped: kill_on_drop.
DropResolve ==
    /\ phase \in {"join", "kill"}
    /\ phase' = "dropped"
    /\ killed' = (child # "reaped")
    /\ UNCHANGED <<child, success, held, content, written, reader, budget, output, expired,
                   outcome, path>>

Expire ==
    /\ ~expired /\ phase = "join"
    /\ expired' = TRUE
    /\ UNCHANGED <<phase, processVars, reader, budget, output, outcome, path>>

-----------------------------------------------------------------------------
(* The process, and others that inherit its pipes; the runtime's reaper *)

Writes(p, b) ==
    /\ p \in held /\ Len(written[p]) < MaxWritten
    /\ phase \in {"join", "kill"}
    /\ content' = [content EXCEPT ![p] = Append(@, b)]
    /\ written' = [written EXCEPT ![p] = Append(@, b)]
    /\ UNCHANGED <<phase, child, success, killed, held, reader, budget, output, expired,
                   outcome, path>>

\* The process exits, or the signal reaches it; a descendant may keep pipes.
Exits ==
    /\ child = "running"
    /\ child' = "exited"
    /\ success' \in IF killed THEN {FALSE} ELSE BOOLEAN
    /\ held' \in SUBSET held
    /\ UNCHANGED <<phase, killed, content, written, reader, budget, output, expired, outcome,
                   path>>

KillLands == killed /\ Exits

Releases(p) ==
    /\ p \in held
    /\ held' = held \ {p}
    /\ UNCHANGED <<phase, child, success, killed, content, written, reader, budget, output,
                   expired, outcome, path>>

ReapsOrphan ==
    /\ phase = "dropped" /\ child = "exited"
    /\ child' = "reaped"
    /\ UNCHANGED <<phase, success, killed, held, content, written, reader, budget, output,
                   expired, outcome, path>>

Next ==
    \/ Spawn \/ JoinFails \/ WaitReturns \/ JoinEnds \/ Timeout \/ KillEnds
    \/ DropResolve \/ Expire \/ Exits \/ ReapsOrphan
    \/ \E p \in Pipe :
          \/ Read(p) \/ ReadEof(p) \/ Releases(p)
          \/ \E b \in IF p = "stdout" THEN Byte ELSE {"x"} : Writes(p, b)

Spec == Init /\ [][Next]_vars

(***************************************************************************)
(* The runtime polls resolve, its timer fires, and a killed process exits. *)
(* The process itself need neither exit nor close its pipes.               *)
(***************************************************************************)
Fairness ==
    /\ WF_vars(Spawn) /\ WF_vars(Expire) /\ WF_vars(Timeout)
    /\ WF_vars(KillLands) /\ WF_vars(KillEnds) /\ WF_vars(ReapsOrphan)

FairSpec == Spec /\ Fairness

-----------------------------------------------------------------------------
Consumed(p) == Len(written[p]) - Len(content[p])

(***************************************************************************)
(* The two readers together never take more than OUTPUT_LIMIT: every byte  *)
(* kept was charged, whichever reader charged it and in which order.       *)
(***************************************************************************)
BudgetIsShared ==
    /\ Len(output) <= OutputLimit - budget
    /\ phase = "join" =>
          Consumed("stdout") + Consumed("stderr") + budget = OutputLimit

(***************************************************************************)
(* A resolved path is the whole of what the process printed: never a prefix*)
(* of it, never from a process that failed, never with bytes left unread.  *)
(***************************************************************************)
PathIsWhole ==
    outcome = "Ok" => /\ success
                     /\ Append(path, "LF") = written["stdout"]

(***************************************************************************)
(* When resolve returns, no child is left running or unreaped.             *)
(***************************************************************************)
NoChildLeft == phase = "returned" => child \in {"none", "reaped"}

(***************************************************************************)
(* resolve returns, or its dropped future's child is reaped, even if the   *)
(* process hangs or a descendant of it keeps the pipes open.               *)
(***************************************************************************)
ResolveEnds == <>(phase \in {"returned", "dropped"} /\ child \in {"none", "reaped"})
=============================================================================
