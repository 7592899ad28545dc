-------------------------------- MODULE Serve --------------------------------
(***************************************************************************)
(* Server::serve (crates/assuan-server/src/server.rs): the accept loop, the*)
(* session permits, the set of spawned tasks, and shutdown with its grace  *)
(* period.  A session is reduced to what serve can see of ServerSession: it*)
(* runs, it is in its close hook, or its task is over.                     *)
(*                                                                         *)
(* Both select! blocks are biased: a poll looks at shutdown first, then at *)
(* a finished task, and only then at the semaphore or the acceptor.        *)
(***************************************************************************)
EXTENDS Naturals, FiniteSets

CONSTANTS
    Conn,           \* connections that may ask to be accepted
    MaxSessions     \* options.max_sessions

ASSUME ServeAssumption == IsFiniteSet(Conn) /\ MaxSessions \in Nat \ {0}

VARIABLES
    phase,          \* "permit" and "accept" in the loop, then "drain", "abort",
                    \* "returned"; "dropped" when the serve future is dropped
    permits,        \* permits left in the semaphore
    permit,         \* the loop holds an acquired permit
    shutdown,       \* the shutdown future has resolved
    returned,       \* what the loop ended with
    task,           \* per connection: the task serving it
    aborting        \* connections whose task has been told to stop

vars == <<phase, permits, permit, shutdown, returned, task, aborting>>

InLoop == {"permit", "accept"}

\* The task's future exists and owns its permit.
Live == {"session", "hook"}

\* "over": the future is gone; "joinable": join_next can see it.
TaskState == {"none", "over", "joinable", "reaped"} \cup Live

TypeOK ==
    /\ phase \in InLoop \cup {"drain", "abort", "returned", "dropped"}
    /\ permits \in 0..MaxSessions
    /\ permit \in BOOLEAN
    /\ shutdown \in BOOLEAN
    /\ returned \in {"none", "Ok", "Err"}
    /\ task \in [Conn -> TaskState]
    /\ aborting \subseteq Conn

Init ==
    /\ phase = "permit"
    /\ permits = MaxSessions
    /\ permit = FALSE
    /\ shutdown = FALSE
    /\ returned = "none"
    /\ task = [c \in Conn |-> "none"]
    /\ aborting = {}

Joinable == {c \in Conn : task[c] = "joinable"}
Sessions == {c \in Conn : task[c] \in Live}
InSet == {c \in Conn : task[c] \in Live \cup {"over", "joinable"}}

-----------------------------------------------------------------------------
(* serve *)

ShutdownResolves ==
    /\ ~shutdown /\ shutdown' = TRUE
    /\ UNCHANGED <<phase, permits, permit, returned, task, aborting>>

Reap(c) ==
    /\ phase \in InLoop => ~shutdown
    /\ phase \notin {"returned", "dropped"}
    /\ task[c] = "joinable"
    /\ task' = [task EXCEPT ![c] = "reaped"]
    /\ UNCHANGED <<phase, permits, permit, shutdown, returned, aborting>>

Acquire ==
    /\ phase = "permit" /\ ~shutdown /\ Joinable = {}
    /\ permits > 0
    /\ permits' = permits - 1
    /\ permit' = TRUE
    /\ phase' = "accept"
    /\ UNCHANGED <<shutdown, returned, task, aborting>>

\* The accepted stream and the permit move into a new task.
Accept(c) ==
    /\ phase = "accept" /\ ~shutdown /\ Joinable = {}
    /\ task[c] = "none"
    /\ task' = [task EXCEPT ![c] = "session"]
    /\ permit' = FALSE
    /\ phase' = "permit"
    /\ UNCHANGED <<permits, shutdown, returned, aborting>>

\* Leaving the loop drops the acceptor and a permit not yet handed over.
LeavesLoop(how) ==
    /\ returned' = how
    /\ permits' = permits + (IF permit THEN 1 ELSE 0)
    /\ permit' = FALSE
    /\ phase' = "drain"
    /\ UNCHANGED <<shutdown, task, aborting>>

AcceptFails == phase = "accept" /\ ~shutdown /\ Joinable = {} /\ LeavesLoop("Err")
StopsAccepting == phase \in InLoop /\ shutdown /\ LeavesLoop("Ok")

GraceExpiresOnly ==    \* mutated: no abort_all
    /\ phase = "drain" /\ InSet # {}
    /\ phase' = "abort"
    /\ UNCHANGED <<permits, permit, shutdown, returned, task, aborting>>
GraceExpires ==
    /\ phase = "drain" /\ InSet # {}
    /\ phase' = "abort"
    /\ aborting' = InSet
    /\ UNCHANGED <<permits, permit, shutdown, returned, task>>

ReturnUnjoined ==    \* mutated: aborted tasks are not joined
    /\ (phase = "drain" /\ InSet = {}) \/ phase = "abort"
    /\ phase' = "returned"
    /\ UNCHANGED <<permits, permit, shutdown, returned, task, aborting>>
Return ==
    /\ phase \in {"drain", "abort"} /\ InSet = {}
    /\ phase' = "returned"
    /\ UNCHANGED <<permits, permit, shutdown, returned, task, aborting>>

\* The serve future is dropped: JoinSet aborts what it owns and awaits nothing.
DropServe ==
    /\ phase \notin {"returned", "dropped"}
    /\ phase' = "dropped"
    /\ permits' = permits + (IF permit THEN 1 ELSE 0)
    /\ permit' = FALSE
    /\ aborting' = InSet
    /\ UNCHANGED <<shutdown, returned, task>>

-----------------------------------------------------------------------------
(* session tasks *)

EntersHook(c) ==
    /\ task[c] = "session"
    /\ task' = [task EXCEPT ![c] = "hook"]
    /\ UNCHANGED <<phase, permits, permit, shutdown, returned, aborting>>

\* The future is gone, and with it _permit.
OverKeeping(c) ==    \* mutated: the permit does not move into the task
    /\ task' = [task EXCEPT ![c] = "over"]
    /\ UNCHANGED <<phase, permits, permit, shutdown, returned, aborting>>
Over(c) ==
    /\ task' = [task EXCEPT ![c] = "over"]
    /\ permits' = permits + 1
    /\ UNCHANGED <<phase, permit, shutdown, returned, aborting>>

\* The close hook ended; or run returned early or panicked.
SessionEnds(c) == task[c] \in Live /\ Over(c)

\* An aborted task is dropped the next time it yields.
AbortStops(c) == c \in aborting /\ task[c] \in Live /\ Over(c)

BecomesJoinable(c) ==
    /\ task[c] = "over"
    /\ task' = [task EXCEPT ![c] = "joinable"]
    /\ UNCHANGED <<phase, permits, permit, shutdown, returned, aborting>>

-----------------------------------------------------------------------------
Next ==
    \/ ShutdownResolves \/ Acquire \/ AcceptFails \/ StopsAccepting
    \/ GraceExpires \/ Return \/ DropServe
    \/ \E c \in Conn :
          \/ Reap(c) \/ Accept(c)
          \/ EntersHook(c) \/ SessionEnds(c) \/ AbortStops(c) \/ BecomesJoinable(c)

Spec == Init /\ [][Next]_vars

(***************************************************************************)
(* The runtime polls serve and its tasks, and the grace timer fires.       *)
(* Sessions are not assumed to end by themselves: a handler may run for as *)
(* long as it likes, provided it yields.                                   *)
(***************************************************************************)
Fairness ==
    /\ WF_vars(Acquire) /\ WF_vars(StopsAccepting)
    /\ WF_vars(GraceExpires) /\ WF_vars(Return)
    /\ \A c \in Conn :
          WF_vars(Reap(c)) /\ WF_vars(AbortStops(c)) /\ WF_vars(BecomesJoinable(c))

FairSpec == Spec /\ Fairness

\* Every session ends within its own deadlines (OpenServer!PhasesEnd).
SessionsEnd == \A c \in Conn : WF_vars(SessionEnds(c))

-----------------------------------------------------------------------------
(***************************************************************************)
(* At most max_sessions sessions run at once, close hooks included: every  *)
(* permit is in the semaphore, in the loop's hand, or in one live task.    *)
(***************************************************************************)
PermitsConserved ==
    permits + (IF permit THEN 1 ELSE 0) + Cardinality(Sessions) = MaxSessions

(***************************************************************************)
(* When serve returns no session task is left, whatever ended the loop, and*)
(* the result says how it ended.                                           *)
(***************************************************************************)
NothingOutlivesServe ==
    phase = "returned" => InSet = {} /\ permits = MaxSessions /\ returned # "none"

(***************************************************************************)
(* Shutdown always completes: serve returns even if no session ever ends by*)
(* itself.                                                                 *)
(***************************************************************************)
ShutdownReturns == shutdown ~> phase \in {"returned", "dropped"}

(***************************************************************************)
(* Capacity is never lost: if sessions end, in whatever way, a loop waiting*)
(* for a permit gets one, unless it is told to stop.                       *)
(***************************************************************************)
CapacityRecovers == SessionsEnd => (phase = "permit" ~> phase # "permit")
=============================================================================
