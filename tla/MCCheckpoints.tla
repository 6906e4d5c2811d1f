---------------------------- MODULE MCCheckpoints ----------------------------
(* Model values and symmetry for the runs of Checkpoints and CheckpointsAtomic *)
EXTENDS CheckpointsAtomic, TLC

Sym == Permutations(File) \cup Permutations(Content)
       \cup Permutations(Proc) \cup Permutations(Session)
=============================================================================
