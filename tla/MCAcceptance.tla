---- MODULE MCAcceptance ----
(* Instances of Acceptance for TLC. *)
EXTENDS Acceptance, TLC

Sym == Permutations(File)
====
