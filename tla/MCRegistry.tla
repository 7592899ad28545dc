----------------------------- MODULE MCRegistry ------------------------------
(* Registry with names and descriptions around the limits of a line of seven *)
(* bytes.                                                                    *)
EXTENDS Registry

MCNames ==
    {<<"x">>, <<"NOP">>, <<"END">>, <<"#">>, <<"e">>}
    \cup {[i \in 1..k |-> "x"] : k \in {MaxLine - 1, MaxLine}}
MCDescriptions ==
    {<<>>, <<"nl">>, <<"x", "e", "e", "x", "e">>, <<"e", "x", "x", "sp", "e", "e">>}
=============================================================================
