------------------------------- MODULE EngineRun -------------------------------
(***************************************************************************)
(* One engine and its conversation: Engine.run, _drive, _loop, _run_calls, *)
(* _exec_one and _append (ironclad/engine/loop.py), with the messages the  *)
(* session store keeps.  Each append is a step of its own, since a crash   *)
(* or the loss of the session lock may come between two of them; a cancel  *)
(* or the deadline is delivered only where the coroutine waits, for the    *)
(* model or for tools.                                                     *)
(*                                                                         *)
(* A message keeps its role, the ids of the calls it makes or answers, and *)
(* whether an answer is the tool's own or a placeholder.  Token counts and *)
(* the size of the context are nondeterministic choices.                   *)
(***************************************************************************)
EXTENDS Naturals, Sequences, SequencesExt

CONSTANTS
  Id,           \* call ids a model may give; ids need not be unique
  AutoId,       \* the id of a call the engine makes itself
  MaxBatch,     \* bound: calls in one model answer
  StepLimit, ToolLimit,  \* Budget.max_steps, max_tool_calls
  RepeatLimit,  \* REPEAT_LIMIT
  AutoVerify,   \* Engine.auto_verify
  Plans,        \* bounds of a behaviour: what may go wrong, which tools are called and
                \* how many user messages there are
  MaxFault,     \* bound: how often something goes wrong, in all
  None

ASSUME EngineAssumption ==
  /\ Plans \subseteq [faults : SUBSET {"crash", "lock", "db", "open", "deadline", "stuck", "cancel"},
                       kinds : SUBSET {"read", "write", "test", "bad"}, runs : Nat]
  /\ {MaxBatch, StepLimit, ToolLimit, RepeatLimit, AutoVerify, MaxFault} \subseteq Nat
  /\ AutoId \notin Id
  /\ None \notin Id \cup {"final", "budget", "cancelled", "model_error", "repeated", "lost", "raised"}

VARIABLES
  store,    \* messages table of the session, in order
  cache,    \* _Session.messages after the two system messages; None before it is loaded
  pc,       \* where the run is
  calls,    \* calls of the assistant message being handled
  job,      \* per call: wait, skip, running, done, recorded, real, stub, dropped or late
  reason,   \* done_reason of the model's answer
  stop,     \* why the run ends; None while it goes on
  steps, executed, invalid, autos,  \* _Run: model calls, answered calls, rejected calls, auto-verifications
  evidence, \* what acceptance.evaluate would go by: none, changed, passed or failed
  effects,  \* writes that happened in this run
  reported, \* writes in run.records
  abandoned,\* history: writes the engine gave up on in this run, or before it and still at work
  orphans,  \* those of them that still run
  held,     \* the session lock is ours
  runs, faults,
  plan      \* the bounds this behaviour has, of Plans

conversation == <<store, cache>>
batch == <<calls, job, reason>>
counters == <<steps, executed, invalid, autos, evidence, effects, reported, abandoned>>
vars == <<conversation, pc, batch, stop, counters, orphans, held, runs, faults, plan>>

Message(role, ids, real) == [role |-> role, ids |-> ids, real |-> real]
User == Message("user", <<>>, TRUE)
Guest == Message("guest", <<>>, TRUE)  \* a user's, said to another process
Summary == Message("summary", <<>>, TRUE)
Assistant(ids) == Message("assistant", ids, TRUE)
Answer(id) == Message("tool", <<id>>, TRUE)
Stub(id) == Message("tool", <<id>>, FALSE)

Mutating == {"write", "test", "bad"}  \* an unknown tool counts as mutating
Waiting == {"model", "tools", "stopping"}

Batches == UNION {[1..n -> [id : Id, kind : plan.kinds]] : n \in 0..MaxBatch}
Where(st) == {i \in DOMAIN job : job[i] = st}
First(S) == CHOOSE i \in S : \A j \in S : i <= j

TypeOK ==
  /\ \A m \in {store} \cup ({cache} \ {None}) : \A i \in DOMAIN m :
        /\ m[i].role \in {"user", "guest", "summary", "assistant", "tool"}
        /\ \A k \in DOMAIN m[i].ids : m[i].ids[k] \in Id \cup {AutoId}
        /\ m[i].real \in BOOLEAN
  /\ pc \in {"down", "idle", "loading", "created", "loop", "model", "said", "auto", "batch",
             "dispatch", "tools", "stopping", "answer", "stub", "finish"}
  /\ DOMAIN job = DOMAIN calls
  /\ \A i \in DOMAIN job :
       job[i] \in {"wait", "skip", "running", "done", "recorded", "real", "stub", "dropped", "late"}
  /\ reason \in {"stop", "length", "cancelled"}
  /\ stop \in {None, "final", "budget", "cancelled", "model_error", "repeated", "lost", "raised"}
  /\ steps \in 0..StepLimit /\ executed \in Nat /\ invalid \in Nat /\ autos \in 0..AutoVerify
  /\ evidence \in {"none", "changed", "passed", "failed"}
  /\ {effects, reported, abandoned, orphans} \subseteq Nat
  /\ plan \in Plans /\ held \in BOOLEAN /\ runs \in 0..plan.runs /\ faults \in 0..MaxFault

Init ==
  /\ store = <<>> /\ cache = None
  /\ pc = "idle"
  /\ calls = <<>> /\ job = <<>> /\ reason = "stop" /\ stop = None
  /\ steps = 0 /\ executed = 0 /\ invalid = 0 /\ autos = 0
  /\ evidence = "none" /\ effects = 0 /\ reported = 0 /\ abandoned = 0 /\ orphans = 0
  /\ held = TRUE /\ runs = 0 /\ faults = 0
  /\ plan \in Plans

Fault(f) == f \in plan.faults /\ faults < MaxFault /\ faults' = faults + 1

-----------------------------------------------------------------------------
(* repair_history and _repair_pairs *)

Stubs(pending) == [i \in 1..Len(pending) |-> Stub(pending[i])]

\* acc: what is repaired so far, and the calls not answered yet
RepairStep(acc, m) ==
  IF m.role = "tool"
  THEN [out |-> Append(acc.out, m), pending |-> RemoveFirst(acc.pending, m.ids[1])]
  ELSE [out |-> Append(acc.out \o Stubs(acc.pending), m), pending |-> m.ids]

Repair(h) ==
  LET end == FoldLeft(RepairStep, [out |-> <<>>, pending |-> <<>>], h)
  IN end.out \o Stubs(end.pending)

\* every call is answered once, right after the message that makes it
Paired(h) ==
  /\ h # <<>> => h[1].role # "tool"
  /\ \A k \in 1..Len(h) : h[k].role # "tool" =>
       LET n == Len(h[k].ids) IN
       /\ k + n <= Len(h)
       /\ \A j \in 1..n : h[k + j].role = "tool"
       /\ k + n < Len(h) => h[k + n + 1].role # "tool"
       /\ \E f \in [1..n -> 1..n] :
            \A j \in 1..n : h[k + j].ids[1] = h[k].ids[f[j]] /\ \A i \in 1..n : f[i] = f[j] => i = j

-----------------------------------------------------------------------------
(* ContextManager._drop_groups: the oldest groups go, a summary takes their place *)

GroupHead(h, j) ==
  {i \in 1..j - 1 : h[i].role = "assistant" /\ \E k \in DOMAIN h[i].ids : h[i].ids[k] = h[j].ids[1]}

Heads(h) == {i \in DOMAIN h : h[i].role = "assistant"}

Group(h, i) ==
  {i} \cup {j \in DOMAIN h : h[j].role = "tool" /\ i \in GroupHead(h, j)
                             /\ \A k \in GroupHead(h, j) : k <= i}

\* dropped: the heads of the groups that go
WithoutGroups(h, dropped) ==
  LET removed == UNION {Group(h, i) : i \in dropped}
  IN FlattenSeq([i \in DOMAIN h |->
       IF i = First(removed) THEN <<Summary>>
       ELSE IF i \in removed \/ h[i].role = "summary" THEN <<>> ELSE <<h[i]>>])

\* a set of oldest groups, never the newest; none when masking old outputs was enough
Droppable(h) ==
  {D \in SUBSET Heads(h) : \A i \in D : \A j \in Heads(h) \ D : i < j} \ {Heads(h)}

Compacted(h, dropped) == IF dropped = {} THEN h ELSE WithoutGroups(h, dropped)

-----------------------------------------------------------------------------
(* A run starts: Engine.run, _session, _load_history *)

StartRun ==
  /\ pc = "idle" /\ held /\ runs < plan.runs
  /\ pc' = IF cache = None THEN "loading" ELSE "created"
  /\ runs' = runs + 1
  /\ calls' = <<>> /\ job' = <<>> /\ stop' = None
  /\ steps' = 0 /\ executed' = 0 /\ invalid' = 0 /\ autos' = 0
  /\ evidence' = "none" /\ effects' = 0 /\ reported' = 0 /\ abandoned' = orphans
  /\ UNCHANGED <<conversation, reason, orphans, held, faults, plan>>

\* missing answers at the end are appended one at a time; elsewhere all is replaced
Load ==
  /\ pc = "loading"
  /\ LET repaired == Repair(store) IN
     IF repaired # store /\ IsPrefix(store, repaired)
     THEN store' = Append(store, repaired[Len(store) + 1]) /\ UNCHANGED <<cache, pc>>
     ELSE store' = repaired /\ cache' = repaired /\ pc' = "created"
  /\ UNCHANGED <<batch, stop, counters, orphans, held, runs, faults, plan>>

-----------------------------------------------------------------------------
(* _append: the guard, the cached copy, the store *)

Unanswered == {i \in DOMAIN job : job[i] \notin {"real", "stub"}}

\* what the run appends next
Pending ==
  CASE pc = "created" -> User
    [] pc = "said" -> Assistant([i \in DOMAIN calls |-> calls[i].id])
    [] pc = "auto" -> Assistant(<<AutoId>>)
    [] pc = "answer" -> Answer(calls[First(Where("recorded"))].id)
    [] pc = "stub" -> Stub(calls[First(Unanswered)].id)

Appending == pc \in {"created", "said", "auto", "answer"} \/ (pc = "stub" /\ Unanswered # {})

Persist ==
  /\ held
  /\ cache' = Append(cache, Pending)
  /\ store' = Append(store, Pending)

\* OwnershipLost, from _append or _exec_one: nothing else is appended in this run
OwnerLost ==
  /\ Appending \/ pc = "dispatch"
  /\ ~held
  /\ pc' = "finish" /\ stop' = "lost"
  /\ UNCHANGED <<conversation, batch, counters, orphans, held, runs, faults, plan>>

\* the store raises after the cached copy was extended; run() raises
StoreFails ==
  /\ Appending /\ held
  /\ Fault("db")
  /\ cache' = Append(cache, Pending)
  /\ pc' = "idle" /\ stop' = "raised"
  /\ UNCHANGED <<store, batch, counters, orphans, held, runs, plan>>

Ends(why) == pc' = "finish" /\ stop' = why
GoesOn(where) == pc' = where /\ UNCHANGED stop

UserSaid ==
  /\ pc = "created"
  /\ Persist /\ GoesOn("loop")
  /\ UNCHANGED <<batch, counters, orphans, held, runs, faults, plan>>

-----------------------------------------------------------------------------
(* _loop: budgets, compaction, the model's turn *)

OutOfSteps ==
  /\ pc = "loop" /\ steps >= StepLimit
  /\ Ends("budget")
  /\ UNCHANGED <<conversation, batch, counters, orphans, held, runs, faults, plan>>

\* _maybe_compact masks or drops; the request may still not fit; the guard is not asked
Compact(dropped) ==
  /\ pc = "loop" /\ steps < StepLimit
  /\ cache' = Compacted(cache, dropped)
  /\ store' = Compacted(cache, dropped)
  /\ \/ GoesOn("model")
     \/ Ends("budget")
  /\ UNCHANGED <<batch, counters, orphans, held, runs, faults, plan>>

Request ==
  /\ pc = "loop" /\ steps < StepLimit
  /\ \/ GoesOn("model")
     \/ Ends("budget")
  /\ UNCHANGED <<conversation, batch, counters, orphans, held, runs, faults, plan>>

\* _model_turn
ModelAnswers(b, r) ==
  /\ pc = "model"
  /\ steps' = steps + 1
  /\ calls' = b /\ job' = [i \in DOMAIN b |-> "wait"] /\ reason' = r
  /\ GoesOn("said")
  /\ UNCHANGED <<conversation, executed, invalid, autos, evidence, effects, reported, abandoned, orphans,
                 held, runs, faults, plan>>

ModelFails ==
  /\ pc = "model"
  /\ Ends("model_error")
  /\ UNCHANGED <<conversation, batch, counters, orphans, held, runs, faults, plan>>

\* _auto_verify is due: changes without a verdict, and the tool is there
WantsVerify == autos < AutoVerify /\ "test" \in plan.kinds /\ evidence = "changed"

\* the answer is stored; truncated calls are not executed
Said ==
  /\ pc = "said"
  /\ Persist
  /\ CASE calls # <<>> /\ reason = "stop" -> GoesOn("batch")
       [] calls # <<>> /\ reason = "length" -> pc' = "stub" /\ stop' = "model_error"
       [] calls # <<>> /\ reason = "cancelled" -> pc' = "stub" /\ stop' = "cancelled"
       [] calls = <<>> /\ reason = "length" -> Ends("model_error")
       [] calls = <<>> /\ reason = "cancelled" -> Ends("cancelled")
       [] calls = <<>> /\ reason = "stop" -> IF WantsVerify THEN GoesOn("auto") ELSE Ends("final")
  /\ UNCHANGED <<batch, counters, orphans, held, runs, faults, plan>>

AutoVerifies ==
  /\ pc = "auto"
  /\ Persist /\ GoesOn("batch")
  /\ autos' = autos + 1
  /\ calls' = <<[id |-> AutoId, kind |-> "test"]>> /\ job' = <<"wait">>
  /\ UNCHANGED <<reason, steps, executed, invalid, evidence, effects, reported, abandoned, orphans, held,
                 runs, faults, plan>>

-----------------------------------------------------------------------------
(* _run_calls, _exec_one, _start_and_wait *)

Allowed == IF executed >= ToolLimit THEN 0 ELSE ToolLimit - executed

Batch ==
  /\ pc = "batch"
  /\ job' = [i \in DOMAIN job |-> IF i <= Allowed THEN "wait" ELSE "skip"]
  /\ GoesOn(IF Allowed = 0 THEN "stub" ELSE "dispatch")
  /\ UNCHANGED <<conversation, calls, reason, counters, orphans, held, runs, faults, plan>>

\* the group of the first waiting call: one mutating call, or the reads before the next
NextGroup ==
  LET i == First(Where("wait")) IN
  IF calls[i].kind \in Mutating THEN {i}
  ELSE {j \in Where("wait") : \A k \in i..j : calls[k].kind \notin Mutating}

\* an unknown tool, bad arguments or a tool the role forbids: refused without waiting
Reject ==
  /\ pc = "dispatch" /\ held
  /\ LET i == First(Where("wait")) IN
     calls[i].kind = "bad" /\ job' = [job EXCEPT ![i] = "recorded"]
  /\ invalid' = invalid + 1
  /\ GoesOn("answer")
  /\ UNCHANGED <<conversation, calls, reason, steps, executed, autos, evidence, effects, reported,
                 abandoned, orphans, held, runs, faults, plan>>

\* one group is started call by call, under the guard
Dispatch ==
  /\ pc = "dispatch" /\ held
  /\ LET i == First(Where("wait")) IN
     /\ calls[i].kind # "bad"
     /\ job' = [job EXCEPT ![i] = "running"]
     /\ GoesOn(IF NextGroup = {i} THEN "tools" ELSE "dispatch")
  /\ UNCHANGED <<conversation, calls, reason, counters, orphans, held, runs, faults, plan>>

\* a tool finishes in its thread; a write has happened then
ToolEnds(i) ==
  /\ pc \in {"dispatch", "tools", "stopping"} /\ job[i] = "running"
  /\ job' = [job EXCEPT ![i] = "done"]
  /\ effects' = IF calls[i].kind = "write" THEN effects + 1 ELSE effects
  /\ UNCHANGED <<conversation, pc, calls, reason, stop, steps, executed, invalid, autos, evidence,
                 reported, abandoned, orphans, held, runs, faults, plan>>

\* the coroutine goes on: the record is appended
Record(i) ==
  /\ pc = "tools" /\ job[i] = "done"
  /\ job' = [job EXCEPT ![i] = "recorded"]
  /\ GoesOn(IF Where("running") = {} /\ Where("done") = {i} THEN "answer" ELSE "tools")
  /\ reported' = IF calls[i].kind = "write" THEN reported + 1 ELSE reported
  /\ evidence' \in CASE calls[i].kind = "write" -> {"changed"}
                     [] calls[i].kind = "test" /\ evidence # "none" -> {"changed", "passed", "failed"}
                     [] OTHER -> {evidence}
  /\ UNCHANGED <<conversation, calls, reason, steps, executed, invalid, autos, effects, abandoned,
                 orphans, held, runs, faults, plan>>

ByEngine == calls # <<>> /\ calls[1].id = AutoId

\* every call of the answer is answered: _run_calls returns
AfterBatch ==
  CASE ByEngine /\ evidence = "failed" /\ autos < AutoVerify -> GoesOn("loop")
    [] ByEngine /\ ~(evidence = "failed" /\ autos < AutoVerify) -> Ends("final")
    [] ~ByEngine /\ invalid >= RepeatLimit -> Ends("repeated")
    [] ~ByEngine /\ invalid < RepeatLimit -> GoesOn("loop")

\* the real result of a recorded call
Answered ==
  /\ pc = "answer"
  /\ Persist
  /\ executed' = executed + 1
  /\ LET i == First(Where("recorded")) IN
     /\ job' = [job EXCEPT ![i] = "real"]
     /\ CASE Where("recorded") # {i} -> GoesOn("answer")
          [] Where("recorded") = {i} /\ stop # None -> GoesOn("stub")
          [] Where("recorded") = {i} /\ stop = None /\ Where("wait") # {} -> GoesOn("dispatch")
          [] Where("recorded") = {i} /\ stop = None /\ Where("wait") = {} /\ Where("skip") # {} ->
               GoesOn("stub")
          [] Where("recorded") = {i} /\ stop = None /\ Where("wait") = {} /\ Where("skip") = {} ->
               AfterBatch
  /\ UNCHANGED <<calls, reason, steps, invalid, autos, evidence, effects, reported, abandoned, orphans, held,
                 runs, faults, plan>>

\* mutant: what is answered is looked up by the call's id
Stubbed_ById ==
  /\ pc = "stub" /\ Unanswered # {}
  /\ Persist
  /\ LET i == First(Unanswered) IN
     job' = [j \in DOMAIN job |-> IF j \in Unanswered /\ calls[j].id = calls[i].id THEN "stub" ELSE job[j]]
  /\ GoesOn("stub")
  /\ UNCHANGED <<calls, reason, counters, orphans, held, runs, faults, plan>>

\* a placeholder for a call that was skipped, cut off or stopped
Stubbed ==
  /\ pc = "stub" /\ Unanswered # {}
  /\ Persist
  /\ job' = [job EXCEPT ![First(Unanswered)] = "stub"]
  /\ GoesOn("stub")
  /\ UNCHANGED <<calls, reason, counters, orphans, held, runs, faults, plan>>

\* the run stops after its placeholders; the engine's own call never stops it
StubsDone ==
  /\ pc = "stub" /\ Unanswered = {}
  /\ Ends(IF stop # None THEN stop ELSE IF ByEngine THEN "final" ELSE "budget")
  /\ UNCHANGED <<conversation, batch, counters, orphans, held, runs, faults, plan>>

-----------------------------------------------------------------------------
(* Cancellation: Engine.cancel, the deadline, _stop_job *)

\* where the run waits: for its task to start, the model, tools, or the tasks of a group
AtAwait ==
  \/ pc \in {"created", "model", "tools"}
  \/ pc = "dispatch" /\ Cardinality(NextGroup) > 1 /\ Where("running") = {}

Interrupted(why) ==
  IF pc \in {"tools", "dispatch"} THEN pc' = "stopping" /\ stop' = why ELSE Ends(why)

\* a front end cancels a turn once
Cancel ==
  /\ AtAwait
  /\ Fault("cancel")
  /\ Interrupted("cancelled")
  /\ UNCHANGED <<conversation, batch, counters, orphans, held, runs, plan>>

Deadline ==
  /\ AtAwait /\ pc # "created"
  /\ Fault("deadline")
  /\ Interrupted("budget")
  /\ UNCHANGED <<conversation, batch, counters, orphans, held, runs, plan>>

\* mutant: a job's result that comes while it is stopped is thrown away
StopJob_NotLate(i) ==
  /\ pc = "stopping" /\ job[i] = "done"
  /\ job' = [job EXCEPT ![i] = "dropped"]
  /\ UNCHANGED <<conversation, pc, calls, reason, stop, counters, orphans, held, runs, faults, plan>>

\* a job has stopped; if its write happened after all it is recorded, in memory only: the model
\* gets a placeholder for it
StopJob(i) ==
  /\ pc = "stopping" /\ job[i] = "done"
  /\ job' = [job EXCEPT ![i] = IF calls[i].kind = "write" THEN "late" ELSE "dropped"]
  /\ reported' = IF calls[i].kind = "write" THEN reported + 1 ELSE reported
  /\ UNCHANGED <<conversation, pc, calls, reason, stop, steps, executed, invalid, autos, evidence,
                 effects, abandoned, orphans, held, runs, faults, plan>>

\* the jobs of S are waited for no more: what they do or did has no record, and the write among
\* them, which is in a group of its own, may go on
GiveUp(S) ==
  /\ job' = [i \in DOMAIN job |-> IF i \in S THEN "dropped" ELSE job[i]]
  /\ abandoned' = IF \E i \in S : calls[i].kind = "write" THEN abandoned + 1 ELSE abandoned
  /\ orphans' = IF \E i \in S : job[i] = "running" /\ calls[i].kind = "write" THEN orphans + 1 ELSE orphans

\* JOB_STOP_TIMEOUT_S is over, or the cancel of the job raises
StopGivesUp(i) ==
  /\ pc = "stopping" /\ job[i] \in {"running", "done"}
  /\ Fault("stuck")
  /\ GiveUp({i})
  /\ UNCHANGED <<conversation, pc, calls, reason, stop, steps, executed, invalid, autos, evidence,
                 effects, reported, held, runs, plan>>

\* a second cancellation ends the wait for the jobs that are being stopped
StopInterrupted ==
  /\ pc = "stopping" /\ Where("running") # {}
  /\ IF stop = "cancelled" THEN Fault("deadline") ELSE Fault("cancel")
  /\ GiveUp(Where("running") \cup Where("done"))
  /\ stop' = "cancelled"
  /\ UNCHANGED <<conversation, pc, calls, reason, steps, executed, invalid, autos, evidence, effects,
                 reported, held, runs, plan>>

\* mutant: all jobs must have a record before the calls are answered
Stopped_AllRecorded ==
  /\ pc = "stopping" /\ Where("running") \cup Where("done") \cup Where("dropped") = {}
  /\ GoesOn(IF Where("recorded") = {} THEN "stub" ELSE "answer")
  /\ UNCHANGED <<conversation, batch, counters, orphans, held, runs, faults, plan>>

\* mutant: finished calls of the interrupted group get placeholders too
Stopped_StubAll ==
  /\ pc = "stopping" /\ Where("running") \cup Where("done") = {}
  /\ GoesOn("stub")
  /\ UNCHANGED <<conversation, batch, counters, orphans, held, runs, faults, plan>>

\* finished calls of the interrupted group keep their results, the rest get placeholders
Stopped ==
  /\ pc = "stopping" /\ Where("running") \cup Where("done") = {}
  /\ GoesOn(IF Where("recorded") = {} THEN "stub" ELSE "answer")
  /\ UNCHANGED <<conversation, batch, counters, orphans, held, runs, faults, plan>>

OrphanEnds ==
  /\ orphans > 0
  /\ orphans' = orphans - 1
  /\ effects' = effects + 1
  /\ UNCHANGED <<conversation, pc, batch, stop, steps, executed, invalid, autos, evidence, reported,
                 abandoned, held, runs, faults, plan>>

\* run() returns; the task state is stored unless the lock is lost
Finish ==
  /\ pc = "finish"
  /\ pc' = "idle"
  /\ stop' = IF held THEN stop ELSE "lost"
  /\ UNCHANGED <<conversation, batch, counters, orphans, held, runs, faults, plan>>

-----------------------------------------------------------------------------
(* The world around the run *)

Crash ==
  /\ pc # "down" /\ Fault("crash")
  /\ pc' = "down" /\ cache' = None
  /\ calls' = <<>> /\ job' = <<>> /\ stop' = None /\ orphans' = 0
  /\ UNCHANGED <<store, reason, counters, held, runs, plan>>

Restart ==
  /\ pc = "down" /\ pc' = "idle"
  /\ UNCHANGED <<conversation, batch, stop, counters, orphans, held, runs, faults, plan>>

\* another process takes the session over, and gives it back before the next turn; it loads what
\* is stored, and may go on with it
LockLost ==
  /\ held /\ Fault("lock")
  /\ held' = FALSE
  /\ UNCHANGED <<conversation, pc, batch, stop, counters, orphans, runs, plan>>

OthersGoOn ==
  /\ ~held /\ Fault("lock")
  /\ store' = Append(Repair(store), Guest)
  /\ UNCHANGED <<cache, pc, batch, stop, counters, orphans, held, runs, plan>>

LockTaken ==
  /\ ~held /\ pc = "idle"
  /\ held' = TRUE
  /\ UNCHANGED <<conversation, pc, batch, stop, counters, orphans, runs, faults, plan>>

\* another window opens the conversation: _replay_session repairs what is stored
OpenedElsewhere ==
  /\ Fault("open")
  /\ store' = Repair(store)
  /\ UNCHANGED <<cache, pc, batch, stop, counters, orphans, held, runs, plan>>

-----------------------------------------------------------------------------
RunStep ==
  \/ UserSaid \/ OutOfSteps \/ Request \/ ModelFails \/ Said \/ AutoVerifies
  \/ Batch \/ Reject \/ Dispatch \/ Answered \/ Stubbed \/ StubsDone \/ Stopped \/ Finish \/ OwnerLost
  \/ pc = "loop" /\ \E D \in Droppable(cache) : Compact(D)
  \/ \E b \in Batches, r \in {"stop", "length", "cancelled"} : ModelAnswers(b, r)
JobStep == OrphanEnds \/ \E i \in DOMAIN job : ToolEnds(i) \/ Record(i) \/ StopJob(i)
Around ==
  \/ StartRun \/ Load \/ Cancel \/ Deadline \/ StopInterrupted \/ StoreFails
  \/ \E i \in DOMAIN job : StopGivesUp(i)
  \/ Crash \/ Restart \/ LockLost \/ OthersGoOn \/ LockTaken \/ OpenedElsewhere

Next == RunStep \/ JobStep \/ Around

Spec == Init /\ [][Next]_vars

\* the event loop runs, the transport's stream ends and tools stop (both have timeouts)
FairSpec == Spec /\ WF_vars(RunStep) /\ WF_vars(JobStep)
-----------------------------------------------------------------------------
(* Properties *)

\* those messages of a history that are in S, in its order (a SelectSeq that proofs can unfold)
Those(h, S) ==
  LET among[n \in 0..Len(h)] ==
        IF n = 0 THEN <<>> ELSE IF h[n] \in S THEN Append(among[n - 1], h[n]) ELSE among[n - 1]
  IN among[Len(h)]

\* all that are no placeholders
Real == [role : {"user", "guest", "summary", "assistant", "tool"}, ids : Seq(Id \cup {AutoId}), real : {TRUE}]

\* the process keeps its session, no other window opens it, and its store works
Held == plan.faults \subseteq {"crash", "cancel", "deadline", "stuck"}

\* "Calls pair with results in every request": whatever was cancelled, crashed, cut off
\* or compacted before, the model is sent a history whose calls are each answered once,
\* right after the message that makes them (_run_calls, repair_history).
RequestsPaired == Held /\ pc = "model" => Paired(cache)

\* The engine's copy of the conversation is the stored one whenever it has one, so a
\* restart goes on from what the model saw (_append, _load_history, _maybe_compact).
CopyIsStored == Held /\ cache # None => cache = store

\* Whatever state a crash leaves the stored messages in, repairing them gives a paired
\* history, loses none of them, and has nothing to do the second time.
RepairSound == Held =>
  LET repaired == Repair(store) IN
  /\ Paired(repaired)
  /\ Repair(repaired) = repaired
  /\ Those(repaired, Real) = Those(store, Real)

\* What the model is sent, what the process remembers and what is stored agree, in every state.
HistorySound == TypeOK /\ RequestsPaired /\ CopyIsStored /\ RepairSound

\* User messages are kept: no compaction, repair or restart loses one that was said to this
\* process, whatever it missed meanwhile; one that was said to another process is lost by nothing
\* but the compaction of a copy that is older than it.
UsersOf(h) == Len(Those(h, {User}))
GuestsOf(h) == Len(Those(h, {Guest}))
Stale == pc = "loop" /\ GuestsOf(cache) < GuestsOf(store)  \* _maybe_compact is asked
UserMessagesKept ==
  [][/\ UsersOf(store') >= UsersOf(store)
     /\ Stale \/ GuestsOf(store') >= GuestsOf(store)]_vars

\* The code does not keep this (docs/ARCHITECTURE.md:87): nothing tells an engine that its copy is
\* stale, and _maybe_compact replaces the stored messages by it.
NothingErased == [][GuestsOf(store') >= GuestsOf(store)]_vars

\* A call whose result the run took before its group was interrupted gets that result, not a
\* placeholder.  (One that finished only while it was being cancelled gets a placeholder.)
FinishedAnswersReal ==
  [][\A i \in DOMAIN job : job[i] = "recorded" /\ calls' = calls => job'[i] \in {"recorded", "real"}]_vars

\* Neither what the user said nor what a tool has answered is lost on the way.
NothingLost == UserMessagesKept /\ FinishedAnswersReal

\* "Changed files" are accounted for: when a run is over, each write that happened in it, or is
\* still at work, is in its records or is one the engine gave up on; and it gives up on none
\* that one cancel alone ends, those included that finish while being cancelled.
ChangesReported ==
  pc = "finish" =>
    /\ effects + orphans = reported + abandoned
    /\ plan.faults \cap {"deadline", "stuck"} = {} => abandoned = 0

\* The code does not keep this, though loop.py:627 has "Changed files:" stay truthful: after
\* JOB_STOP_TIMEOUT_S, or a cancel within the deadline's wait, a write goes on without a record.
ChangesTruthful == pc = "finish" => effects = reported /\ orphans = 0

\* Tools run in one run never exceed the tool-call budget, the engine's own included,
\* counting those whose results are not answered yet.
WithinToolBudget ==
  executed + Cardinality(Where("running") \cup Where("done") \cup Where("recorded")) <= ToolLimit

\* A run accounts for all it did: its changes and, within the budget, its calls.
RunAccounts == ChangesReported /\ WithinToolBudget

\* A run that has started ends (fairness: the transport and tools have timeouts).
RunEnds == pc = "created" ~> pc \in {"idle", "down"}
=============================================================================
