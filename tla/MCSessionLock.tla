---------------------------- MODULE MCSessionLock ----------------------------
(* Symmetry for the runs of SessionLock: processes of one kind and one host *)
EXTENDS SessionLock, TLC

Sym == Permutations(Session) \cup Permutations(Cli \ Remote) \cup Permutations(Tui \ Remote)
=============================================================================
