------------------------------- MODULE Kinds -------------------------------
(***************************************************************************)
(* Categories of wire lines, shared by both endpoints                      *)
(* (crates/assuan-protocol/src/state/mod.rs).  A line is what its receiver *)
(* classifies it as: payload bytes are left out, because no transition     *)
(* depends on them.                                                        *)
(***************************************************************************)

\* What the server sends.
LineKind ==
    {"Ok", "Err", "Data", "Status", "Inquire", "End", "Comment", "Empty"}

\* What the client sends.
RequestKind == {"Command", "Data", "End", "Can", "Comment", "Empty"}

\* A transition's verdict: "none" is the Ok(()) of the code.
StateError ==
    {"none", "UnexpectedEvent", "NotReady", "Unusable", "GreetingRejected"}

(***************************************************************************)
(* Two more things a receiver can meet in the byte stream.  "Malformed" is *)
(* a complete line that the parser refuses.  "Fragment" is a line whose    *)
(* writer stopped before the LF: it never completes.                       *)
(***************************************************************************)
Incoming == LineKind \cup {"Malformed"}
Outgoing == RequestKind \cup {"Malformed"}
=============================================================================
