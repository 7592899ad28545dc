--------------------------- MODULE ServerMachine ---------------------------
(***************************************************************************)
(* The server's pure transition validation                                 *)
(* (crates/assuan-protocol/src/state/server.rs).  Requests drive it through*)
(* ReceiveRequest, the server's own output through SendResponse, which the *)
(* session applies before the corresponding write.                         *)
(***************************************************************************)
EXTENDS Kinds

ServerState ==
    {"Greeting", "Ready", "Handler", "Inquiry", "AwaitFinal", "Invalid", "Closed"}

Terminal == {"Invalid", "Closed"}

Machine == [state : ServerState, origin : ServerState]

New == [state |-> "Greeting", origin |-> "Greeting"]

Goes(m, s) == [machine |-> [m EXCEPT !.state = s], err |-> "none"]
Keeps(m, e) == [machine |-> m, err |-> e]

Invalidate(m) == IF m.state = "Closed" THEN m ELSE [m EXCEPT !.state = "Invalid"]

Close(m) == [m EXCEPT !.state = "Closed"]

Rejects(m, e) == [machine |-> Invalidate(m), err |-> e]

ReceiveRequest(m, e) ==
    CASE m.state \in Terminal -> Keeps(m, "Unusable")
      [] /\ m.state \notin Terminal
         /\ \/ e \in {"Comment", "Empty"}
            \/ m.state = "Inquiry" /\ e = "Data" -> Keeps(m, "none")
      [] m.state = "Ready" /\ e = "Command" -> Goes(m, "Handler")
      [] m.state = "Inquiry" /\ e = "End"   -> Goes(m, m.origin)
      [] m.state = "Inquiry" /\ e = "Can"   -> Goes(m, "AwaitFinal")
      [] OTHER -> Rejects(m, "UnexpectedEvent")

\* Output that leaves the phase alone.
Ignored(s, e) ==
    \/ e \in {"Comment", "Empty"}
    \/ e = "Status" /\ s \in {"Greeting", "Handler", "Inquiry", "AwaitFinal"}
    \/ e \in {"Data", "End"} /\ s = "Handler"

\* A greeting ERR is accepted for sending and invalidates: no error verdict.
SendResponse(m, e) ==
    CASE m.state \in Terminal -> Keeps(m, "Unusable")
      [] m.state \notin Terminal /\ Ignored(m.state, e) -> Keeps(m, "none")
      [] m.state \in {"Greeting", "Handler"} /\ e = "Inquire" ->
            [machine |-> [state |-> "Inquiry", origin |-> m.state], err |-> "none"]
      [] \/ m.state = "Greeting" /\ e = "Ok"
         \/ m.state = "Handler" /\ e \in {"Ok", "Err"} -> Goes(m, "Ready")
      [] m.state = "Greeting" /\ e = "Err" -> Goes(m, "Invalid")
      [] m.state = "AwaitFinal" /\ e \in {"Ok", "Err"} ->
            Goes(m, IF m.origin = "Greeting" /\ e = "Err" THEN "Invalid" ELSE "Ready")
      [] OTHER -> Rejects(m, "UnexpectedEvent")
=============================================================================
