---- MODULE MCCompaction ----
(* Instances of Compaction for TLC. *)
EXTENDS Compaction

\* one call of each size, and validations that fail and pass
MCKind == {<<"short", "none">>, <<"huge", "none">>, <<"long", "fails">>, <<"short", "passes">>}
====
