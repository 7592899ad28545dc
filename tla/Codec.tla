-------------------------------- MODULE Codec --------------------------------
(***************************************************************************)
(* The wire syntax of crates/assuan-protocol: what the encoders write for a*)
(* response or a command, and what the parsers at the other end make of it.*)
(* A line is a sequence of lexemes.  A word such as "OK" is one of them, so*)
(* that <<"OK", "x">> is the line OKx; "nl" stands for CR, LF and NUL and  *)
(* "e" for a character outside ASCII.                                      *)
(***************************************************************************)
EXTENDS DataLines, FiniteSetsExt, Functions

CONSTANTS
    MaxCode,        \* u32::MAX, at most 99
    MaxText         \* bound: lexemes of a text, name or argument

ASSUME CodecAssumption == MaxCode \in 0..99 /\ MaxText \in Nat

Lexeme == {"x", "1", "sp", "%", "#", "=", "--", "e", "nl"}
Word == {"OK", "ERR", "D", "S", "INQUIRE", "END", "CAN"}
Digit == <<"0", "1", "2", "3", "4", "5", "6", "7", "8", "9">>

\* Bytes in UTF-8: two of a character outside ASCII; words count as one.
Bytes(s) == Len(s) + Cardinality({i \in DOMAIN s : s[i] = "e"})

Refused(why) == [error |-> why]
IsError(r) == DOMAIN r = {"error"}

-----------------------------------------------------------------------------
(* command.rs: the rules for a line and for a token *)

validate_line(s) == "nl" \notin Range(s)
validate_token(s) ==
    s # <<>> /\ s[1] # "#" /\ Range(s) \cap {"sp", "%", "e", "nl"} = {}

\* At the first space, which belongs to neither part.
split_field_trims(s) ==    \* mutated: all separating spaces removed
    LET at == position(s, {"sp"})
        more == position(SubSeq(s, at + 1, Len(s)), Range(s) \ {"sp"}) IN
    IF at = 0 THEN <<s, <<>>>>
    ELSE <<SubSeq(s, 1, at - 1), IF more = 0 THEN <<>> ELSE SubSeq(s, at + more, Len(s))>>
split_field(s) ==
    LET at == position(s, {"sp"}) IN
    IF at = 0 THEN <<s, <<>>>> ELSE <<SubSeq(s, 1, at - 1), SubSeq(s, at + 1, Len(s))>>

\* Command::new and Command::parse
Command(name, args) ==
    IF ~validate_token(name) THEN Refused("InvalidToken")
    ELSE IF ~validate_line(args) THEN Refused("InvalidLine")
    ELSE [kind |-> "Command", name |-> name, args |-> args]
ParseCommand(line) ==
    IF ~validate_line(line) THEN Refused("InvalidLine")
    ELSE Command(split_field(line)[1], split_field(line)[2])

-----------------------------------------------------------------------------
(* encode.rs *)

\* write_parts: the first part that is invalid or makes the line too long counts.
Size(parts) == 1 + Bytes(concat(parts))
BadParts(parts) ==
    {i \in DOMAIN parts : ~validate_line(parts[i]) \/ Size(SubSeq(parts, 1, i)) > MaxLine}
write_parts(parts) ==
    IF BadParts(parts) = {} THEN [line |-> concat(parts)]
    ELSE Refused(IF validate_line(parts[Min(BadParts(parts))])
                 THEN "LineTooLong" ELSE "InvalidLine")

write_optional(parts, text) ==
    write_parts(IF text = <<>> THEN parts ELSE parts \o <<<<"sp">>, text>>)

\* A keyword is a token that starts with a letter or _.
IsKeyword(s) == validate_token(s) /\ s[1] \in Word \cup {"x"}
write_keyword(prefix, keyword, args) ==
    IF ~IsKeyword(keyword) THEN Refused("InvalidToken")
    ELSE write_optional(<<prefix, keyword>>, args)

encode_command(c) == write_optional(<<c.name>>, c.args)

\* Every % starts an escape: two hex digits follow it.
HexDigit == Range(Digit) \cup {"A", "D"}
validate_encoded_data(s) ==
    LET from[i \in 0..Len(s)] ==
            IF i = Len(s) THEN TRUE
            ELSE IF s[i + 1] # "%" THEN from[i + 1]
            ELSE /\ Len(s) - i >= 3 /\ {s[i + 2], s[i + 3]} \subseteq HexDigit
                 /\ from[i + 3]
    IN from[0]

Decimal(n) ==
    IF n < 10 THEN <<Digit[n + 1]>> ELSE <<Digit[(n \div 10) + 1], Digit[(n % 10) + 1]>>

encode_response(r) ==
    CASE r.kind = "Ok" -> write_optional(<<<<"OK">>>>, r.text)
      [] r.kind = "Err" -> write_optional(<<<<"ERR", "sp">>, Decimal(r.code)>>, r.text)
      [] r.kind = "Data" -> IF validate_encoded_data(r.text)
                            THEN write_parts(<<<<"D", "sp">>, r.text>>)
                            ELSE Refused("InvalidEscape")
      [] r.kind = "Status" -> write_keyword(<<"S", "sp">>, r.keyword, r.text)
      [] r.kind = "Inquire" -> write_keyword(<<"INQUIRE", "sp">>, r.keyword, r.text)
      [] r.kind = "End" -> write_parts(<<<<"END">>>>)
      [] r.kind = "Comment" -> write_parts(<<<<"#">>, r.text>>)
      [] r.kind = "Empty" -> write_parts(<<>>)

\* channel.rs: write_line refuses everything else before it writes a byte.
Writable(line) == Bytes(line) + 1 <= MaxLine /\ validate_line(line)

-----------------------------------------------------------------------------
(* message.rs *)

Response(kind, code, keyword, text) ==
    [kind |-> kind, code |-> code, keyword |-> keyword, text |-> text]
Plain(kind, text) == Response(kind, 0, <<>>, text)

\* u32 digits with checked arithmetic; overflow sticks.
Value(d) == CHOOSE n \in 0..9 : Digit[n + 1] = d
CodeOf(number) ==
    LET code[i \in 0..Len(number)] ==
            IF i = 0 THEN 0
            ELSE IF code[i - 1] > MaxCode THEN code[i - 1]
            ELSE code[i - 1] * 10 + Value(number[i])
    IN code[Len(number)]
ParseErr(fields) ==
    LET number == split_field(fields)[1] IN
    IF number = <<>> \/ ~(Range(number) \subseteq Range(Digit)) \/ CodeOf(number) > MaxCode
    THEN Refused("InvalidErrorCode")
    ELSE Response("Err", CodeOf(number), <<>>, split_field(fields)[2])

parse_keyword(kind, fields) ==
    IF IsKeyword(split_field(fields)[1])
    THEN Response(kind, 0, split_field(fields)[1], split_field(fields)[2])
    ELSE Refused("InvalidToken")

parse_server_line(line) ==
    LET After(prefix) == SubSeq(line, Len(prefix) + 1, Len(line)) IN
    IF ~validate_line(line) THEN Refused("InvalidLine")
    ELSE
    CASE line = <<>> -> Plain("Empty", <<>>)
      [] starts_with(line, <<"#">>) -> Plain("Comment", After(<<"#">>))
      [] line = <<"OK">> -> Plain("Ok", <<>>)
      [] starts_with(line, <<"OK", "sp">>) -> Plain("Ok", After(<<"OK", "sp">>))
      [] starts_with(line, <<"ERR", "sp">>) -> ParseErr(After(<<"ERR", "sp">>))
      [] starts_with(line, <<"D", "sp">>) -> Plain("Data", After(<<"D", "sp">>))
      [] starts_with(line, <<"S", "sp">>) -> parse_keyword("Status", After(<<"S", "sp">>))
      [] starts_with(line, <<"INQUIRE", "sp">>) ->
            parse_keyword("Inquire", After(<<"INQUIRE", "sp">>))
      [] line = <<"END">> -> Plain("End", <<>>)
      [] OTHER -> Refused("InvalidResponse")

\* escape.rs: the pass of decode_data_in_place that may refuse.
Decodes(s) ==
    LET pass[i \in 0..Len(s)] ==
            IF i = Len(s) THEN TRUE
            ELSE IF s[i + 1] # "%" THEN pass[i + 1]
            ELSE /\ Len(s) - i >= 3 /\ {s[i + 2], s[i + 3]} \subseteq HexDigit
                 /\ pass[i + 3]
    IN pass[0]

-----------------------------------------------------------------------------
(* The server's side: request_kind (inquiry.rs) and OPTION (hooks.rs) *)

IsEnd(line) == line = <<"END">>
request_kind(line) ==
    LET command == ParseCommand(line) IN
    IF ~validate_line(line) THEN Refused("InvalidLine")
    ELSE
    CASE line = <<>> -> [kind |-> "Empty"]
      [] starts_with(line, <<"#">>) -> [kind |-> "Comment"]
      [] starts_with(line, <<"D", "sp">>) -> [kind |-> "Data"]
      [] IsEnd(line) -> [kind |-> "End"]
      [] line = <<"CAN">> -> [kind |-> "Can"]
      [] OTHER -> IF ~IsError(command) /\ command.name \in {<<"END">>, <<"CAN">>, <<"D">>}
                  THEN Refused("InvalidLine") ELSE command

trim(s) ==
    LET ink == {i \in DOMAIN s : s[i] # "sp"} IN
    IF ink = {} THEN <<>> ELSE SubSeq(s, Min(ink), Max(ink))

\* The name ends at a space or =; the value follows either, spaces around it apart.
OptionValue(s) ==
    IF s = <<>> THEN <<>>
    ELSE IF s[1] = "=" THEN <<trim(SubSeq(s, 2, Len(s)))>> ELSE <<s>>
ParseOption(bytes) ==
    LET trimmed == trim(bytes)
        body == IF starts_with(trimmed, <<"--">>) THEN Tail(trimmed) ELSE trimmed
        stop == position(body, {"sp", "="})
        end == IF stop = 0 THEN Len(body) ELSE stop - 1
        name == Command(SubSeq(body, 1, end), <<>>) IN
    IF ~validate_line(bytes) THEN Refused("InvalidLine")
    ELSE IF IsError(name) THEN name
    ELSE [name |-> name.name, value |-> OptionValue(trim(SubSeq(body, end + 1, Len(body))))]
=============================================================================
