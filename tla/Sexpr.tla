-------------------------------- MODULE Sexpr --------------------------------
(***************************************************************************)
(* Canonical S-expressions (crates/assuan-sexpr) and the sexpr! macro's    *)
(* Builder (crates/assuan-macros/src/sexpr.rs).  The parser, both passes of*)
(* the writer and to_owned are loops over explicit stacks: an action is one*)
(* turn of such a loop.  A behaviour takes a value through the writer, the *)
(* parser and to_owned; or bytes through the parser and the writer; or a   *)
(* literal through the macro, whose expansion parses what it has built.    *)
(***************************************************************************)
EXTENDS Integers, Sequences, SequencesExt, FiniteSetsExt

CONSTANTS
    MaxInput, MaxAtom, MaxNodes, MaxDepth,  \* ParseLimits
    MaxUsize,                               \* usize::MAX
    MaxBytes                                \* bound: bytes of arbitrary input

\* What ParseLimits::new accepts (MAX_NESTING_DEPTH is 256).
ASSUME LimitsAssumption ==
    /\ MaxInput \in Nat \ {0} /\ MaxNodes \in Nat \ {0}
    /\ MaxAtom \in 0..MaxInput /\ MaxDepth \in 0..256
    /\ MaxUsize \in Nat /\ MaxUsize >= MaxInput /\ MaxBytes \in Nat

VARIABLES
    origin,             \* where the behaviour starts: "value", "bytes" or "macro"
    tree,               \* the value written, or spelled in the macro's literal
    before,             \* what output holds when write_canonical is called
    phase,              \* the loop that is running
    wrote, parsed,      \* what the writer, the parser or the macro returned
    pending,            \* the stack of measure and of write_canonical
    bytes, nodes,       \* Layout; nodes also is the parser's count
    output,
    input, position,    \* the parser's slice and cursor (bytes consumed)
    lists,              \* the parser's stack of open lists
    value,              \* what the parser returned; then to_owned's cursor
    parents, owned      \* to_owned's stack, and the value completed last

vars == <<origin, tree, before, phase, wrote, parsed, pending, bytes, nodes, output, input,
          position, lists, value, parents, owned>>

-----------------------------------------------------------------------------
(* Values, and the inputs the behaviours start from *)

Atom(b) == [kind |-> "Atom", payload |-> b]
List(c) == [kind |-> "List", children |-> c]
NoValue == [kind |-> "none"]

Digit == {"0", "1", "2", "3", "4", "5", "6", "7", "8", "9"}
DigitSeq == <<"0", "1", "2", "3", "4", "5", "6", "7", "8", "9">>
Byte == {"(", ")", "0", "1", ":", "x"}

\* Payloads that look like syntax, one whose length takes two digits, and one
\* beyond the atom limit.
Payloads == {<<>>, <<")">>} \cup
            {[i \in 1..n |-> IF i % 2 = 1 THEN "1" ELSE ":"] : n \in {10, MaxAtom + 1}}
Nested[d \in Nat] ==
    LET atoms == {Atom(p) : p \in Payloads} IN
    IF d = 0 THEN atoms ELSE atoms \cup {List(c) : c \in BoundedSeq(Nested[d - 1], 2)}
Trees == Nested[2] \cup {List(<<t>>) : t \in Nested[2]}

-----------------------------------------------------------------------------
(* Reference definitions: counting and spelling by recursion on the value *)

RECURSIVE Spelled(_), NodesOf(_), DepthOf(_)
Length(n) == (IF n < 10 THEN <<>> ELSE <<DigitSeq[(n \div 10) + 1]>>) \o <<DigitSeq[(n % 10) + 1]>>
Spelled(v) ==
    IF v.kind = "Atom" THEN Length(Len(v.payload)) \o <<":">> \o v.payload
    ELSE <<"(">> \o FlattenSeq([i \in DOMAIN v.children |-> Spelled(v.children[i])]) \o <<")">>
NodesOf(v) ==
    IF v.kind = "Atom" THEN 1
    ELSE 1 + FoldLeft(LAMBDA sum, c : sum + NodesOf(c), 0, v.children)
DepthOf(v) ==
    IF v.kind = "Atom" THEN 0
    ELSE 1 + FoldLeft(LAMBDA most, c : Max({most, DepthOf(c)}), 0, v.children)
RECURSIVE AtomsFit(_)
AtomsFit(v) == IF v.kind = "Atom" THEN Len(v.payload) <= MaxAtom
               ELSE \A i \in DOMAIN v.children : AtomsFit(v.children[i])

WithinLimits(v) ==
    /\ NodesOf(v) <= MaxNodes /\ DepthOf(v) <= MaxDepth /\ AtomsFit(v)
    /\ Len(Spelled(v)) <= MaxInput

-----------------------------------------------------------------------------
Fresh == pending = <<>> /\ bytes = 0 /\ nodes = 0

Init ==
    /\ origin \in {"value", "bytes", "macro"}
    /\ tree \in IF origin = "bytes" THEN Trees \cup {NoValue} ELSE Trees
    /\ before \in IF origin = "value" THEN {<<>>, <<"x">>} ELSE {<<>>}
    /\ input \in IF origin # "bytes" THEN {<<>>}
                 ELSE IF tree = NoValue THEN BoundedSeq(Byte, MaxBytes) ELSE {Spelled(tree)}
    /\ phase = CASE origin = "value" -> "call" [] origin = "bytes" -> "parse"
                 [] origin = "macro" -> "build"
    /\ output = before /\ Fresh
    /\ wrote = "none" /\ parsed = "none" /\ position = 0 /\ lists = <<>> /\ value = NoValue
    /\ parents = <<>> /\ owned = NoValue

writing == <<pending, bytes, nodes, output>>
parsing == <<input, position, lists, value>>
copying == <<parents, owned>>

WriteFails(why) == wrote' = why /\ phase' = "done"

-----------------------------------------------------------------------------
(* measure *)

\* write_canonical starts with measure, on a stack of its own.
CallWrite ==
    /\ phase = "call"
    /\ pending' = <<[value |-> tree, depth |-> 0]>>
    /\ bytes' = 0 /\ nodes' = 0
    /\ phase' = "measure"
    /\ UNCHANGED <<origin, tree, before, wrote, parsed, output, parsing, copying>>

DecimalDigitsShort[n \in Nat] ==    \* mutated: value > 10
    IF n > 10 THEN 1 + DecimalDigitsShort[n \div 10] ELSE 1
DecimalDigits[n \in Nat] == IF n >= 10 THEN 1 + DecimalDigits[n \div 10] ELSE 1

AddedShort(v) ==    \* mutated: ten takes one digit
    IF v.kind = "Atom" THEN DecimalDigitsShort[Len(v.payload)] + 1 + Len(v.payload) ELSE 2
Added(v) == IF v.kind = "Atom" THEN DecimalDigits[Len(v.payload)] + 1 + Len(v.payload) ELSE 2

MeasureError(v, depth, below) ==
    IF nodes >= MaxNodes THEN "NodeLimit"
    ELSE IF v.kind = "Atom" /\ Len(v.payload) > MaxAtom THEN "AtomLimit"
    ELSE IF v.kind = "List" /\ depth >= MaxDepth THEN "DepthLimit"
    ELSE IF v.kind = "List" /\ nodes + 1 + Len(below) + Len(v.children) > MaxNodes
         THEN "NodeLimit"
    ELSE IF bytes + Added(v) > MaxInput THEN "SizeLimit"
    ELSE "Ok"

Measure ==
    /\ phase = "measure" /\ pending # <<>>
    /\ LET v == Last(pending).value
           depth == Last(pending).depth
           below == Front(pending)
           why == MeasureError(v, depth, below) IN
       \/ /\ why # "Ok" /\ WriteFails(why)
          /\ UNCHANGED <<pending, bytes, nodes>>
       \/ /\ why = "Ok"
          /\ nodes' = nodes + 1 /\ bytes' = bytes + Added(v)
          /\ pending' = IF v.kind = "Atom" THEN below
                        ELSE below \o Reverse([i \in DOMAIN v.children |->
                                         [value |-> v.children[i], depth |-> depth + 1]])
          /\ UNCHANGED <<phase, wrote>>
    /\ UNCHANGED <<origin, tree, before, parsed, output, parsing, copying>>

\* Storage for a stack or for the output may not be available.
AllocationFails ==
    /\ phase = "measure"
    /\ WriteFails("AllocationFailed")
    /\ UNCHANGED <<origin, tree, before, parsed, writing, parsing, copying>>

\* Both reservations are made, and then the value itself is pushed.
Measured ==
    /\ phase = "measure" /\ pending = <<>>
    /\ \/ /\ Len(output) + bytes > MaxInput /\ WriteFails("SizeLimit")
          /\ UNCHANGED pending
       \/ /\ Len(output) + bytes <= MaxInput
          /\ pending' = <<tree>> /\ phase' = "write"
          /\ UNCHANGED wrote
    /\ UNCHANGED <<origin, tree, before, parsed, bytes, nodes, output, parsing, copying>>

-----------------------------------------------------------------------------
(* write_canonical's loop *)

CloseList == [kind |-> "CloseList"]

\* write_length fills its digits from the end.
WriteLength[n \in Nat] ==
    (IF n < 10 THEN <<>> ELSE WriteLength[n \div 10]) \o <<DigitSeq[(n % 10) + 1]>>

Write ==
    /\ phase = "write" /\ pending # <<>>
    /\ LET item == Last(pending)
           below == Front(pending) IN
       CASE item.kind = "Atom" ->
              /\ output' = output \o WriteLength[Len(item.payload)] \o <<":">> \o item.payload
              /\ pending' = below
         [] item.kind = "List" ->
              /\ output' = Append(output, "(")
              /\ pending' = below \o <<CloseList>> \o Reverse(item.children)
         [] item.kind = "CloseList" ->
              output' = Append(output, ")") /\ pending' = below
    /\ UNCHANGED <<origin, tree, before, phase, wrote, parsed, bytes, nodes, parsing, copying>>

\* What was appended goes to parse_complete next, unless it came from there.
Written ==
    /\ phase = "write" /\ pending = <<>>
    /\ wrote' = "Ok"
    /\ \/ /\ origin = "bytes" /\ phase' = "done"
          /\ UNCHANGED <<nodes, parsing>>
       \/ /\ origin = "value" /\ phase' = "parse"
          /\ input' = SubSeq(output, Len(before) + 1, Len(output))
          /\ nodes' = 0
          /\ UNCHANGED <<position, lists, value>>
    /\ UNCHANGED <<origin, tree, before, parsed, pending, bytes, output, copying>>

-----------------------------------------------------------------------------
(* parse_prefix and parse_complete *)

\* The digits at the cursor, as a number.
DigitsFrom(p) == {q \in p..Len(input) : \A r \in p..q : input[r] \in Digit}
Number(p) == LET run == DigitsFrom(p) IN
    FoldLeft(LAMBDA n, d : 10 * n + (CHOOSE i \in 0..9 : DigitSeq[i + 1] = d), 0,
             SubSeq(input, p, Max(run)))

\* parse_atom: an error, or where the payload begins and ends.
ZeroLedAny(p) == FALSE    \* mutated: leading zeros accepted
ZeroLed(p) == input[p] = "0" /\ Max(DigitsFrom(p)) > p
ParseAtom(p) ==
    LET after == Max(DigitsFrom(p)) + 1
        length == Number(p)
        why == IF ZeroLed(p) THEN "InvalidLength"
               ELSE IF length > MaxUsize THEN "LengthOverflow"
               ELSE IF after > Len(input) THEN "UnexpectedEof"
               ELSE IF input[after] # ":" THEN "ExpectedColon"
               ELSE IF length > MaxAtom THEN "AtomLimit"
               ELSE IF after + length > MaxUsize THEN "LengthOverflow"
               ELSE IF after + length > Len(input) THEN "UnexpectedEof"
               ELSE "Ok" IN
    [why |-> why, begin |-> after, end |-> after + length]

TooDeepByOne == Len(lists) > MaxDepth    \* mutated: off by one
TooDeep == Len(lists) >= MaxDepth

ParseErrorKind ==
    IF Len(input) > MaxInput THEN "InputLimit"
    ELSE IF position >= Len(input) THEN "UnexpectedEof"
    ELSE LET byte == input[position + 1] IN
         IF byte = "(" /\ TooDeep THEN "DepthLimit"
         ELSE IF byte \in Digit \cup {"("} /\ nodes >= MaxNodes THEN "NodeLimit"
         ELSE IF byte = ")" /\ lists = <<>> THEN "UnexpectedToken"
         ELSE IF byte \notin Digit \cup {"(", ")"} THEN "UnexpectedToken"
         ELSE IF byte \in Digit THEN ParseAtom(position + 1).why
         ELSE "Ok"

\* A complete value joins the innermost open list, or is the result.
Completes(v, open) ==
    \/ /\ open = <<>> /\ value' = v /\ phase' = "parsed"
       /\ lists' = open
    \/ /\ open # <<>>
       /\ lists' = [open EXCEPT ![Len(open)] = Append(@, v)]
       /\ UNCHANGED <<value, phase>>

ParseFails ==
    /\ phase = "parse" /\ ParseErrorKind # "Ok"
    /\ parsed' = ParseErrorKind /\ phase' = "done"
    /\ UNCHANGED <<origin, tree, before, wrote, writing, parsing, copying>>

\* try_reserve for an open list or for a value that joins one.
ParseAllocationFails ==
    /\ phase = "parse" /\ ParseErrorKind = "Ok"
    /\ lists # <<>> \/ input[position + 1] = "("
    /\ parsed' = "AllocationFailed" /\ phase' = "done"
    /\ UNCHANGED <<origin, tree, before, wrote, writing, parsing, copying>>

Parse ==
    /\ phase = "parse" /\ ParseErrorKind = "Ok"
    /\ LET byte == input[position + 1] IN
       CASE byte = "(" ->
              /\ lists' = Append(lists, <<>>)
              /\ position' = position + 1 /\ nodes' = nodes + 1
              /\ UNCHANGED <<value, phase>>
         [] byte = ")" ->
              /\ Completes(List(Last(lists)), Front(lists))
              /\ position' = position + 1 /\ UNCHANGED nodes
         [] byte \in Digit ->
              LET atom == ParseAtom(position + 1) IN
              /\ Completes(Atom(SubSeq(input, atom.begin + 1, atom.end)), lists)
              /\ position' = atom.end /\ nodes' = nodes + 1
    /\ UNCHANGED <<origin, tree, before, wrote, parsed, pending, bytes, output, input, copying>>

\* parse_complete looks at the rest.  Bytes that held a value are written again
\* from it; anything else is copied by to_owned.
Parsed ==
    /\ phase = "parsed"
    /\ parsed' = IF position # Len(input) THEN "TrailingData" ELSE "Ok"
    /\ \/ origin = "bytes" /\ tree' = value /\ phase' = "call"
       \/ origin # "bytes" /\ phase' = "copy" /\ UNCHANGED tree
    /\ UNCHANGED <<origin, before, wrote, writing, parsing, copying>>

-----------------------------------------------------------------------------
(* to_owned *)

IsLeaf(v) == v.kind = "Atom" \/ v = List(<<>>)

\* 'visit: down to the first leaf below the cursor.
Visit ==
    /\ phase = "copy"
    /\ \/ /\ ~IsLeaf(value)
          /\ parents' = Append(parents, [remaining |-> Tail(value.children), owned |-> <<>>])
          /\ value' = Head(value.children)
          /\ UNCHANGED <<owned, phase>>
       \/ /\ IsLeaf(value)
          /\ owned' = value /\ phase' = "ascend"
          /\ UNCHANGED <<parents, value>>
    /\ UNCHANGED <<origin, tree, before, wrote, parsed, writing, input, position, lists>>

\* The inner loop: a completed value joins its parent.
Ascend ==
    /\ phase = "ascend"
    /\ \/ /\ parents = <<>> /\ phase' = "done"
          /\ UNCHANGED <<parents, owned, value>>
       \/ /\ parents # <<>>
          /\ LET top == Last(parents)
                 children == Append(top.owned, owned) IN
             \/ /\ top.remaining # <<>>
                /\ parents' = Append(Front(parents),
                                     [remaining |-> Tail(top.remaining), owned |-> children])
                /\ value' = Head(top.remaining) /\ phase' = "copy"
                /\ UNCHANGED owned
             \/ /\ top.remaining = <<>>
                /\ parents' = Front(parents) /\ owned' = List(children)
                /\ UNCHANGED <<value, phase>>
    /\ UNCHANGED <<origin, tree, before, wrote, parsed, writing, input, position, lists>>

-----------------------------------------------------------------------------
(* sexpr!: the Builder, then parse_complete on what it built *)

\* append
Put(acc, b) == [acc EXCEPT !.ok = @ /\ Len(b) <= MaxInput - Len(acc.bytes),
                           !.bytes = @ \o b]

RECURSIVE Expression(_, _, _)
Expression(acc, v, depth) ==
    LET counted == [acc EXCEPT !.nodes = @ + 1] IN
    IF ~acc.ok \/ acc.nodes >= MaxNodes THEN [acc EXCEPT !.ok = FALSE]
    ELSE IF v.kind = "Atom"
         THEN Put(Put(Put([counted EXCEPT !.ok = Len(v.payload) <= MaxAtom],
                          WriteLength[Len(v.payload)]), <<":">>), v.payload)
    ELSE IF depth >= MaxDepth THEN [acc EXCEPT !.ok = FALSE]
    ELSE Put(FoldLeft(LAMBDA a, c : Expression(a, c, depth + 1),
                      Put(counted, <<"(">>), v.children), <<")">>)

Build ==
    /\ phase = "build"
    /\ LET built == Expression([bytes |-> <<>>, nodes |-> 0, ok |-> TRUE], tree, 0) IN
          /\ wrote' = IF built.ok THEN "Ok" ELSE "Refused"
          /\ phase' = IF built.ok THEN "parse" ELSE "done"
          /\ input' = IF built.ok THEN built.bytes ELSE <<>>
    /\ UNCHANGED <<origin, tree, before, parsed, writing, position, lists, value, copying>>

Next ==
    \/ CallWrite \/ Measure \/ AllocationFails \/ Measured \/ Write \/ Written
    \/ Parse \/ ParseFails \/ ParseAllocationFails \/ Parsed \/ Visit \/ Ascend \/ Build

Spec == Init /\ [][Next]_vars

-----------------------------------------------------------------------------
(***************************************************************************)
(* One value, one spelling: a written value parses back to itself, to_owned*)
(* copies it unchanged, and the macro spells it the same way; bytes that   *)
(* parse, with or without a suffix, are exactly what writing the value     *)
(* gives, so no two spellings mean the same.                               *)
(***************************************************************************)
CanonicalRoundTrip ==
    phase = "done" =>
        /\ origin # "bytes" /\ parsed = "Ok" => owned = tree /\ input = Spelled(tree)
        /\ origin = "bytes" /\ wrote = "Ok" => output = SubSeq(input, 1, position)

(***************************************************************************)
(* Parser, writer and macro enforce the same limits: each accepts exactly  *)
(* the values within them (the writer counting what output already holds), *)
(* a refusal names a limit the value really exceeds, and what one accepts  *)
(* the next one accepts.                                                   *)
(***************************************************************************)
Deserved(why) ==
    CASE why = "NodeLimit" -> NodesOf(tree) > MaxNodes
      [] why = "DepthLimit" -> DepthOf(tree) > MaxDepth
      [] why = "AtomLimit" -> ~AtomsFit(tree)
      [] why = "SizeLimit" -> Len(before) + Len(Spelled(tree)) > MaxInput
      [] why = "InputLimit" -> Len(input) > MaxInput
      [] why = "TrailingData" -> input # Spelled(tree)
      [] why = "Refused" -> ~WithinLimits(tree)
      [] OTHER -> FALSE
LimitsAgree ==
    phase = "done" =>
        /\ wrote \notin {"none", "Ok", "AllocationFailed"} => Deserved(wrote)
        /\ wrote = "Ok" => WithinLimits(tree) /\ Len(output) <= MaxInput
        /\ tree # NoValue /\ parsed \notin {"none", "Ok", "AllocationFailed"} => Deserved(parsed)
        /\ origin = "bytes" /\ parsed = "Ok" => wrote \in {"Ok", "AllocationFailed"}

(***************************************************************************)
(* An encoding error leaves the output as it was, because nothing can fail *)
(* once bytes are appended: the measured size is the written size, and the *)
(* stack, close markers included, stays within the reserved nodes.         *)
(***************************************************************************)
WriteIsAllOrNothing ==
    /\ wrote \notin {"none", "Ok"} => output = before
    /\ phase = "write" =>
          /\ Len(pending) <= nodes
          /\ Len(output) <= Len(before) + bytes
          /\ pending = <<>> => Len(output) = Len(before) + bytes
=============================================================================
