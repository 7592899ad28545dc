------------------------------- MODULE Collect -------------------------------
(***************************************************************************)
(* Client::collect and collect_secret (crates/assuan-client/src/response.rs*)
(* ): a client whose application only ever calls these two, on top of      *)
(* OpenClient's connection and arbitrary peer.  collect_transaction runs   *)
(* the actions of ClientSession in its own order; step says where it is.   *)
(***************************************************************************)
EXTENDS OpenClient

CONSTANTS
    MaxBytes, MaxEvents,    \* CollectLimits
    Sizes                   \* lengths of what an event carries

ASSUME CollectAssumption ==
    MaxBytes \in Nat \ {0} /\ MaxEvents \in Nat \ {0} /\ Sizes \subseteq Nat

VARIABLES
    step,       \* "idle": no call; "command": in command_with; "next": in or
                \* before tx.next; "event": handling one; "cancel": in
                \* inquiry.cancel; "unwind": returning an error
    secret,     \* collect_secret
    event,      \* the latest event: its kind and the length of its payload
    events,     \* events observed
    kept,       \* bytes retained as data, statuses and comments
    result,     \* what the latest call returned, or is about to return: "none",
                \* "Ok", "Remote", "Limit", "Error", "Cancelled"
    offered     \* history: bytes the events of this call carried

collectVars == <<step, secret, event, events, kept, result, offered>>
allVars == <<vars, collectVars>>

Nothing == [k \in {"Data", "Status", "Comment"} |-> 0]
NoEvent == [kind |-> "none", size |-> 0]

CollectInit ==
    /\ Init
    /\ step = "idle" /\ secret = FALSE /\ result = "none"
    /\ event = NoEvent /\ events = 0 /\ kept = Nothing /\ offered = 0

-----------------------------------------------------------------------------
(* The call *)

\* collect up to command_with's first await, or its error.
CollectCall(n, s) ==
    /\ step = "idle"
    /\ Command(n)
    /\ step' = "command" /\ secret' = s /\ result' = "none"
    /\ event' = NoEvent /\ events' = 0 /\ kept' = Nothing /\ offered' = 0

\* command_with has returned a transaction: protected storage is allocated for
\* all of max_bytes, which may fail, and the loop begins.
Begins ==
    /\ step = "command" /\ transaction
    /\ \/ step' = "next" /\ UNCHANGED result
       \/ secret /\ step' = "unwind" /\ result' = "Limit"
    /\ UNCHANGED <<vars, secret, event, events, kept, offered>>

\* The head of the loop.
CallsNext ==
    /\ step = "next" /\ io = "none" /\ ~Unusable
    /\ TransactionNext
    /\ UNCHANGED collectVars

\* A status retains its keyword, its arguments and one more byte.
Weight(e) ==
    CASE e.kind = "Status" -> e.size + 1
      [] e.kind \in {"Data", "Comment"} -> e.size
      [] OTHER -> 0

\* tx.next returns an event.
EventArrives ==
    /\ step = "next" /\ DeliverEvent
    /\ \E n \in Sizes : event' = [kind |-> Head(ahead \o s2c).kind, size |-> n]
    /\ step' = "event"
    /\ offered' = offered + Weight(event')
    /\ UNCHANGED <<secret, events, kept, result>>

Retained == kept["Data"] + kept["Status"] + kept["Comment"]

\* ensure_room
HasRoomForData(n) == kept["Data"] + n <= MaxBytes    \* mutated: metadata not counted
HasRoom(n) == Retained + n <= MaxBytes

\* SecretBytes::extend_from_slice on storage of max_bytes, used for data only.
SecretFits(n) == secret => kept["Data"] + n <= MaxBytes

\* The final response counts as an event too.
WithinEvents == events + 1 <= MaxEvents

Refuses ==
    /\ step' = "unwind" /\ result' = "Limit"
    /\ UNCHANGED <<vars, kept>>

Retains ==
    LET k == event.kind
        n == Weight(event)
        room == HasRoom(n) /\ (k = "Data" => SecretFits(n)) IN
    \/ ~room /\ Refuses
    \/ /\ room
       /\ kept' = [kept EXCEPT ![k] = @ + n]
       /\ step' = "next"
       /\ UNCHANGED <<vars, result>>

\* Finished breaks the loop, and tx.finish gives the verdict.
Finishes ==
    /\ ReleaseTransaction
    /\ step' = "idle"
    /\ result' = CASE ~Unusable /\ completion = "Remote" -> "Remote"
                   [] ~Unusable /\ completion = "Success" -> "Ok"
                   [] OTHER -> "Error"
    /\ UNCHANGED kept

HandlesEvent ==
    /\ step = "event"
    /\ events' = events + 1
    /\ \/ ~WithinEvents /\ Refuses
       \/ /\ WithinEvents
          /\ CASE event.kind = "Inquire" ->
                    CompleteInquiry("Can") /\ step' = "cancel" /\ UNCHANGED <<result, kept>>
               [] event.kind \in {"Data", "Status", "Comment"} -> Retains
               [] event.kind = "End" -> step' = "next" /\ UNCHANGED <<vars, result, kept>>
               [] OTHER -> Finishes
    /\ UNCHANGED <<secret, event, offered>>

\* inquiry.cancel has succeeded.
CancelSucceeds ==
    /\ step = "cancel" /\ io = "none" /\ ~Unusable
    /\ step' = "next"
    /\ UNCHANGED <<vars, secret, event, events, kept, result, offered>>

\* A call has returned an error, which ? passes on.
CallFails ==
    /\ step \in {"command", "next", "cancel"} /\ io = "none" /\ Unusable
    /\ step' = IF transaction THEN "unwind" ELSE "idle"
    /\ result' = "Error"
    /\ UNCHANGED <<vars, secret, event, events, kept, offered>>

\* The locals of collect_transaction are dropped: an event's inquiry guard
\* first, then the transaction.
Unwind ==
    /\ step = "unwind"
    /\ \/ DropInquiry /\ UNCHANGED step
       \/ ReleaseTransaction /\ step' = "idle"
    /\ UNCHANGED <<secret, event, events, kept, result, offered>>

\* The future of the call is dropped at an await.
CollectDropped ==
    /\ step # "idle"
    /\ CancelRead \/ CancelWrite
    /\ step' = IF transaction THEN "unwind" ELSE "idle"
    /\ result' = "Cancelled"
    /\ UNCHANGED <<secret, event, events, kept, offered>>

Running ==
    Begins \/ CallsNext \/ HandlesEvent \/ CancelSucceeds \/ CallFails \/ Unwind

-----------------------------------------------------------------------------
\* The application outside a call: it makes the handshake, and may give up.
Outside ==
    /\ step = "idle"
    /\ HandshakeNext \/ HandshakeFinish \/ DeliverEvent \/ DropInquiry \/ DropOwner
    /\ UNCHANGED collectVars

\* The runtime resumes a parked call without an event, and time passes.
Runtime ==
    /\ \/ RejectLine \/ SkipEmptyLine \/ InquiryNewFails \/ DrainLine
       \/ ReadTimeout \/ ReadEof \/ ReadError
       \/ CommandWritten \/ CompletionWritten \/ WriteTimeout \/ WriteError
       \/ ExpireCore \/ ExpireInquiry
    /\ UNCHANGED collectVars

CollectNext ==
    \/ \E n \in Names, s \in BOOLEAN : CollectCall(n, s)
    \/ Running \/ EventArrives \/ CollectDropped
    \/ Outside \/ Runtime
    \/ Peer /\ UNCHANGED collectVars

CollectSpec == CollectInit /\ [][CollectNext]_allVars

\* The call's own code runs; otherwise what OpenClient!Fairness assumes.
CollectFairSpec ==
    /\ CollectSpec
    /\ WF_allVars(Running)
    /\ WF_allVars(EventArrives \/ (ReadLine /\ Runtime))
    /\ WF_allVars(ReadTimeout /\ Runtime)
    /\ WF_allVars(WriteTimeout /\ Runtime)
    /\ WF_allVars(ExpireCore /\ Runtime)

-----------------------------------------------------------------------------
(***************************************************************************)
(* A successful call returns everything the server sent, within the limits:*)
(* no event is cut short or left out, and protected storage allocated for  *)
(* max_bytes never turns out too small.                                    *)
(***************************************************************************)
CollectedIsComplete ==
    /\ Retained <= MaxBytes
    /\ result = "Ok" =>
          Retained = offered /\ events <= MaxEvents /\ completion = "Success"
    /\ step = "event" /\ event.kind = "Data" /\ HasRoom(event.size) => SecretFits(event.size)

(***************************************************************************)
(* After a call the client can be used again exactly if the final response *)
(* was received: after OK, after a remote ERR, and after a limit that only *)
(* the final response itself exceeded.  No failed or cancelled call leaves *)
(* a usable client behind.                                                 *)
(***************************************************************************)
ReuseFollowsOutcome ==
    step = "idle" /\ owner = "client" /\ result # "none" =>
        (IsUsable <=> \/ result \in {"Ok", "Remote"}
                      \/ result = "Limit" /\ event.kind \in {"Ok", "Err"})

(***************************************************************************)
(* Every call returns, however many inquiries, events or empty lines the   *)
(* server sends: each is bounded by the one deadline of the command.       *)
(***************************************************************************)
CollectReturns == step # "idle" ~> step = "idle"
=============================================================================
