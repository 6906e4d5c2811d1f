---- MODULE MCEngineRun ----
(* Instances of EngineRun for TLC. *)
EXTENDS EngineRun, TLC

\* two turns of a process that keeps its session; a turn whose tools stop in time; a turn in which
\* anything may go wrong
TwoTurns == [faults |-> {"crash", "cancel", "deadline", "stuck"}, kinds |-> {"read", "write", "test"}, runs |-> 2]
AnyFault == [faults |-> {"crash", "lock", "db", "open", "deadline", "stuck", "cancel"},
             kinds |-> {"read", "write", "test", "bad"}, runs |-> 1]
InTime == [faults |-> {"crash", "cancel", "lock"}, kinds |-> {"read", "write"}, runs |-> 1]
MCPlans == {TwoTurns, InTime, AnyFault}
====
