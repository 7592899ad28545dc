------------------------------ MODULE Registry -------------------------------
(***************************************************************************)
(* Messages on their way through the codec, and the two users of its rules *)
(* that keep state: Registry (crates/assuan-server/src/registry.rs) and the*)
(* HELP listing (builtins.rs), with the checks the command attribute makes *)
(* at compile time (crates/assuan-macros/src/attribute.rs).                *)
(***************************************************************************)
EXTENDS Codec

CONSTANTS
    Names, Descriptions,    \* of the handlers that an application registers
    MaxHandlers,            \* bound: handlers registered
    MaxName,                \* bound: lexemes of a keyword or of a command's name
    DataLexemes, MaxData,   \* bound: what a data line holds, and how much
    OptionLexemes, MaxOption    \* bound: the same for the arguments of OPTION

ASSUME MessagesAssumption ==
    /\ MaxName \in Nat /\ MaxData \in Nat /\ MaxOption \in Nat
    /\ DataLexemes \subseteq Lexeme /\ OptionLexemes \subseteq Lexeme

\* The spelling of a name, the words of the built-in commands included.
ASSUME NamesAssumption ==
    Names \subseteq Seq(Lexeme \cup Word \cup {"NOP", "BYE", "HELP", "RESET", "OPTION"})

VARIABLES
    message,        \* history: what one end sends
    wire,           \* the line written for it, or the error
    outcome,        \* what the other end makes of the line
    registry,       \* Registry.handlers: name to current description
    result,         \* what the latest registration returned
    listing         \* the comment lines of the latest HELP, or its error

msgVars == <<message, wire, outcome>>
regVars == <<registry, result, listing>>
vars == <<dataVars, msgVars, regVars>>

Nothing == [kind |-> "none"]
Texts == SeqUpTo(Lexeme \cup {"OK", "END"}, MaxText)

Responses ==
    [kind : {"Ok", "Comment"}, code : {0}, keyword : {<<>>}, text : Texts]
    \cup [kind : {"Data"}, code : {0}, keyword : {<<>>},
          text : SeqUpTo(DataLexemes, MaxData)]
    \cup [kind : {"Err"}, code : 0..MaxCode, keyword : {<<>>}, text : Texts]
    \cup [kind : {"Status", "Inquire"}, code : {0},
          keyword : SeqUpTo(Lexeme \cup {"END"}, MaxName), text : Texts]
    \cup [kind : {"End", "Empty"}, code : {0}, keyword : {<<>>}, text : {<<>>}]

\* Only commands that Command::new accepted can be encoded.
Commands ==
    {c \in {Command(n, a) : n \in SeqUpTo(Lexeme \cup {"D", "END", "CAN"}, MaxName),
                            a \in Texts} : ~IsError(c)}
Options == [kind : {"Option"}, bytes : SeqUpTo(OptionLexemes, MaxOption)]

Init ==
    /\ registry = <<>> /\ result = "none" /\ listing = <<>>
    /\ wire = Nothing /\ outcome = Nothing
    /\ \/ DataInit /\ message = Nothing
       \/ /\ message \in Responses \cup Commands \cup Options \cup {Nothing}
          /\ input = <<>> /\ rest = <<>> /\ buffer = <<>> /\ read = 0 /\ written = 0
          /\ received = <<>> /\ turn = "done"

-----------------------------------------------------------------------------
Sends ==
    /\ message # Nothing /\ wire = Nothing
    /\ wire' = CASE message.kind = "Command" -> encode_command(message)
                 [] message.kind = "Option" -> [line |-> message.bytes]
                 [] OTHER -> encode_response(message)
    /\ UNCHANGED <<message, outcome>>

Receives ==
    /\ message # Nothing /\ wire # Nothing /\ outcome = Nothing
    /\ ~IsError(wire)
    /\ outcome' = CASE message.kind = "Command" -> request_kind(wire.line)
                    [] message.kind = "Option" -> ParseOption(wire.line)
                    [] OTHER -> parse_server_line(wire.line)
    /\ UNCHANGED <<message, wire>>

-----------------------------------------------------------------------------
(* Registration *)

Reserved == {<<"NOP">>, <<"BYE">>, <<"HELP">>, <<"RESET">>, <<"OPTION">>}

validate_name(name) ==
    IF IsError(Command(name, <<>>)) \/ Bytes(name) >= MaxLine THEN "InvalidName"
    ELSE IF name \in Reserved THEN "Reserved" ELSE "Ok"
validate_description(text) == IF validate_line(text) THEN "Ok" ELSE "InvalidDescription"

\* What the attribute checks, so that its handlers always register.
validate_metadata(name, text) ==
    /\ ~IsError(Command(name, <<>>)) /\ Bytes(name) < MaxLine
    /\ name \notin Reserved
    /\ validate_line(text)

\* The first check that fails decides; the entry is made last.
Register(name, text) ==
    LET checked == IF validate_name(name) # "Ok" THEN validate_name(name)
                   ELSE IF validate_description(text) # "Ok" THEN validate_description(text)
                   ELSE IF name \in DOMAIN registry THEN "Duplicate" ELSE "Ok" IN
    /\ Cardinality(DOMAIN registry) < MaxHandlers
    /\ result' = checked
    /\ registry' = IF checked # "Ok" THEN registry
                   ELSE [n \in DOMAIN registry \cup {name} |->
                            IF n = name THEN text ELSE registry[n]]
    /\ UNCHANGED listing

\* A handler may change its description through interior mutability.
Redescribe(name, text) ==
    /\ name \in DOMAIN registry
    /\ registry' = [registry EXCEPT ![name] = text]
    /\ UNCHANGED <<result, listing>>

-----------------------------------------------------------------------------
(* HELP *)

\* "#", the space and the LF take three bytes of a comment line.
HelpRoomLoose == MaxLine - 2    \* mutated: the LF forgotten
HelpRoom == MaxLine - 3

\* entry: characters are collected until the next one does not fit.
Wrapped(text) ==
    LET upto[n \in 0..Len(text)] ==
            IF n = 0 THEN <<<<>>>>
            ELSE LET lines == upto[n - 1] IN
                 IF Bytes(last(lines)) + Bytes(<<text[n]>>) > HelpRoom
                 THEN Append(lines, <<text[n]>>)
                 ELSE [lines EXCEPT ![Len(lines)] = Append(@, text[n])] IN
    upto[Len(text)]
comment(text) == write_parts(<<<<"#">>, <<"sp">> \o text>>)
entry(name, text) ==
    IF IsError(Command(name, text)) THEN <<Command(name, text)>>
    ELSE LET lines == Wrapped(name \o <<"sp">> \o text) IN
         [i \in DOMAIN lines |-> comment(lines[i])]

\* entries: the orders in which the hash map may be iterated.
Orders == Bijection(1..Cardinality(DOMAIN registry), DOMAIN registry)

\* help: the listing ends with the first error.  The lines of the built-in
\* commands, which are constants, are left out.
Help ==
    /\ \E order \in Orders :
          LET all == concat([i \in DOMAIN order |-> entry(order[i], registry[order[i]])])
              bad == {i \in DOMAIN all : IsError(all[i])} IN
          listing' = IF bad = {} THEN all ELSE SubSeq(all, 1, Min(bad))
    /\ UNCHANGED <<registry, result>>

Next ==
    \/ DataNext /\ UNCHANGED <<msgVars, regVars>>
    \/ (Sends \/ Receives) /\ UNCHANGED <<dataVars, regVars>>
    \/ /\ message = Nothing /\ turn = "done" /\ input = <<>>
       /\ UNCHANGED <<dataVars, msgVars>>
       /\ \/ \E n \in Names, t \in Descriptions : Register(n, t) \/ Redescribe(n, t)
          \/ Help

Spec == Init /\ [][Next]_vars

-----------------------------------------------------------------------------
(* Properties *)

\* parse_server_line (message.rs:59) gives back the same response with every byte
\* of its text; a data line that was let out also decodes (escape.rs:22).
ResponseRoundTrip ==
    /\ outcome = message
    /\ message.kind = "Data" => Decodes(outcome.text)

\* A line with END, CAN or D as its name belongs to an inquiry.
InquiryNames == {<<"END">>, <<"CAN">>, <<"D">>}

\* A command that the client may send (command.rs:25, encode.rs:16) reaches the
\* server's dispatch with its name and arguments intact (inquiry.rs:190), except
\* that a name of the inquiry sub-protocol never gets there.
CommandRoundTrip ==
    IF message.name \in InquiryNames
    THEN IsError(outcome) \/ outcome.kind \in {"End", "Can", "Data"}
    ELSE outcome = message

\* OptionRequest::parse (hooks.rs:47) finds one reading, spaces around the
\* separator apart: the option it found, written again as --name=value or as
\* --name = value, is found again.
OptionRoundTrip ==
    ~IsError(outcome) =>
        \A gap \in {<<>>, <<"sp">>} :
            LET tail == IF outcome.value = <<>> THEN <<>>
                        ELSE gap \o <<"=">> \o gap \o outcome.value[1] IN
            ParseOption(<<"--">> \o outcome.name \o tail) = outcome

\* Whatever one end's encoder lets out (encode.rs:16, 86), Channel::write_line
\* (channel.rs:164) accepts and the other end's parser reads as meant.
WireRoundTrip ==
    outcome # Nothing =>
        /\ message.kind # "Option" => Writable(wire.line)
        /\ CASE message.kind = "Command" -> CommandRoundTrip
             [] message.kind = "Option" -> OptionRoundTrip
             [] OTHER -> ResponseRoundTrip

\* Registration and the attribute accept the same metadata (registry.rs:75,
\* attribute.rs:86), and a registered name fits a line that dispatches to it.
RegisteredIsReachable(n, t) ==
    /\ validate_metadata(n, t) <=> result' \in {"Ok", "Duplicate"}
    /\ result' = "Ok" /\ n \notin InquiryNames =>
          LET line == encode_command(Command(n, <<>>)) IN
          ~IsError(line) /\ request_kind(line.line) = Command(n, <<>>)

\* HELP (builtins.rs:14-49) lists each handler's name and description whole, over
\* lines that fit, whatever their lengths; it fails only if a handler changed its
\* description to one that registration would have refused.
HelpIsWhole ==
    IF \A n \in DOMAIN registry : validate_line(registry[n])
    THEN /\ \A i \in DOMAIN listing' : ~IsError(listing'[i])
         /\ \E order \in Orders :
               concat([i \in DOMAIN listing' |->
                              SubSeq(listing'[i].line, 3, Len(listing'[i].line))])
               = concat([i \in DOMAIN order |->
                                order[i] \o <<"sp">> \o registry[order[i]]])
    ELSE last(listing') = Refused("InvalidLine")

\* Every handler that registers can be called by its name and is listed by HELP.
RegistryIsUsable ==
    [][/\ \A n \in Names, t \in Descriptions : Register(n, t) => RegisteredIsReachable(n, t)
       /\ Help => HelpIsWhole]_vars
=============================================================================
