--------------------------- MODULE ClientMachine ---------------------------
(***************************************************************************)
(* The client's pure transition validation                                 *)
(* (crates/assuan-protocol/src/state/client.rs) as operators on a machine  *)
(* record.  A transition that can fail returns the machine it leaves       *)
(* behind together with its verdict.                                       *)
(***************************************************************************)
EXTENDS Kinds

ClientState ==
    {"Greeting", "Ready", "Command", "Inquiry", "AwaitFinal", "Invalid", "Closed"}

Terminal == {"Invalid", "Closed"}

\* ClientMachine's two fields: the phase and where an inquiry came from.
Machine == [state : ClientState, origin : ClientState]

New == [state |-> "Greeting", origin |-> "Greeting"]

Goes(m, s) == [machine |-> [m EXCEPT !.state = s], err |-> "none"]
Keeps(m, e) == [machine |-> m, err |-> e]

Invalidate(m) == IF m.state = "Closed" THEN m ELSE [m EXCEPT !.state = "Invalid"]

Close(m) == [m EXCEPT !.state = "Closed"]

Rejects(m, e) == [machine |-> Invalidate(m), err |-> e]

BeginCommand(m) ==
    CASE m.state = "Ready"     -> Goes(m, "Command")
      [] m.state \in Terminal  -> Keeps(m, "Unusable")
      [] OTHER                 -> Keeps(m, "NotReady")

\* Lines that leave the phase alone.
Ignored(s, e) ==
    \/ e \in {"Comment", "Empty"}
    \/ e = "Status" /\ s \in {"Greeting", "Command", "Inquiry", "AwaitFinal"}
    \/ e \in {"Data", "End"} /\ s = "Command"

\* The machine remembers where an inquiry interrupted it.
StartsInquiryOnly(m) == Goes(m, "Inquiry")    \* mutated: inquiry_origin not set
StartsInquiry(m) == [machine |-> [state |-> "Inquiry", origin |-> m.state], err |-> "none"]

\* The final response after a cancelled inquiry.
FinalAfterCancel(m, e) ==
    IF m.origin = "Greeting" /\ e = "Err"
    THEN Rejects(m, "GreetingRejected")
    ELSE Goes(m, "Ready")

Receive(m, e) ==
    CASE m.state \in Terminal -> Keeps(m, "Unusable")
      [] m.state \notin Terminal /\ Ignored(m.state, e) -> Keeps(m, "none")
      [] m.state \in {"Greeting", "Command"} /\ e = "Inquire" -> StartsInquiry(m)
      [] \/ m.state = "Greeting" /\ e = "Ok"
         \/ m.state = "Command" /\ e \in {"Ok", "Err"} -> Goes(m, "Ready")
      [] m.state = "Greeting" /\ e = "Err" -> Rejects(m, "GreetingRejected")
      [] m.state = "AwaitFinal" /\ e \in {"Ok", "Err"} -> FinalAfterCancel(m, e)
      [] OTHER -> Rejects(m, "UnexpectedEvent")

FinishInquiry(m, cancelled) ==
    CASE m.state \in Terminal   -> Keeps(m, "Unusable")
      [] m.state = "Inquiry"    -> Goes(m, IF cancelled THEN "AwaitFinal" ELSE m.origin)
      [] OTHER                  -> Keeps(m, "NotReady")
=============================================================================
