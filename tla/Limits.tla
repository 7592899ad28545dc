------------------------------- MODULE Limits --------------------------------
(***************************************************************************)
(* MAX_LINE_BYTES (crates/assuan-protocol/src/frame.rs), which both        *)
(* directions of the wire share.                                           *)
(***************************************************************************)
CONSTANT MaxLine    \* bytes of a line, its LF included
=============================================================================
