----------------------------- MODULE MCListeners -----------------------------
(* Listeners on a small instance.  Inode numbers and the Unix listeners are *)
(* interchangeable.                                                         *)
EXTENDS Listeners, TLC

Symmetry == Permutations(Inodes) \cup Permutations(Listener \ Tcp)
=============================================================================
