------------------------------- MODULE Slices --------------------------------
(***************************************************************************)
(* What the modules of the wire use of Rust's slices.  These are not the   *)
(* operators of SequencesExt because that module extends Bags, and tlapm   *)
(* carries the definitions of Bags through every obligation: the proofs    *)
(* would take twice as long.                                               *)
(***************************************************************************)
EXTENDS Integers, Sequences, FiniteSetsExt

\* The sequences of at most n elements, which TLC enumerates.
SeqUpTo(S, n) == UNION {[1..m -> S] : m \in 0..n}

last(s) == s[Len(s)]
front(s) == SubSeq(s, 1, Len(s) - 1)
starts_with(s, p) == Len(p) <= Len(s) /\ SubSeq(s, 1, Len(p)) = p
ends_with(s, p) == Len(p) <= Len(s) /\ SubSeq(s, Len(s) - Len(p) + 1, Len(s)) = p

\* Where the first of these elements is, or 0.
position(s, elements) ==
    LET found == {i \in 1..Len(s) : s[i] \in elements} IN IF found # {} THEN Min(found) ELSE 0

concat(parts) ==
    LET upto[n \in 0..Len(parts)] == IF n = 0 THEN <<>> ELSE upto[n - 1] \o parts[n] IN
    upto[Len(parts)]
=============================================================================
