----------------------------- MODULE SerialCalls -----------------------------
(***************************************************************************)
(* What a connection promises its application, without wires, guards or    *)
(* deadlines: commands are issued one at a time, each is executed at most  *)
(* once, and is answered at most once, after its execution.  Once the      *)
(* connection has failed nothing is issued or answered any more; the last  *)
(* command may or may not still be executed.                               *)
(***************************************************************************)
EXTENDS Naturals

VARIABLES issued, executed, answered, live

vars == <<issued, executed, answered, live>>

Init ==
    /\ issued = 0 /\ executed = 0 /\ answered = 0
    /\ live = TRUE

\* The connection may fail in the very call that issues a command.
Issue ==
    /\ live /\ answered = issued
    /\ issued' = issued + 1
    /\ live' \in BOOLEAN
    /\ UNCHANGED <<executed, answered>>

Execute ==
    /\ executed < issued
    /\ executed' = executed + 1
    /\ UNCHANGED <<issued, answered, live>>

Answer ==
    /\ live /\ answered < executed
    /\ answered' = answered + 1
    /\ UNCHANGED <<issued, executed, live>>

Fail ==
    /\ live /\ live' = FALSE
    /\ UNCHANGED <<issued, executed, answered>>

Next == Issue \/ Execute \/ Answer \/ Fail

Spec == Init /\ [][Next]_vars
=============================================================================
